------------------------ MODULE FlowExecutionProofs ------------------------
(***************************************************************************)
(* Proofs about FlowExecution, for any number of workers, executions,      *)
(* attendants and faults, any flow and any assignment of jobs:             *)
(*   TypeCorrect   every variable keeps its type,                          *)
(*   NeverRevived  a completed or failed execution stays ended,            *)
(*   BotObeysEnd   an ended execution runs one more node at most,          *)
(*   LockExcludes  while flows end within the lock's TTL, one call at most *)
(*                 is inside executeFlow,                                  *)
(*   SleepersWake  a flow that waits at an interval has a message on its   *)
(*                 way, while pauses are stored promptly, also beside a    *)
(*                 recovery if flows have one interval, triggers come one  *)
(*                 at a time and at most one thing fails,                  *)
(*   ResumedOnce   a customer's message and a delayed message do not both  *)
(*                 resume an execution.                                    *)
(* The first three follow from one inductive invariant, Inv; the others    *)
(* from Inv with Holds, with Wakes (and Dates), and with Links.            *)
(***************************************************************************)
EXTENDS FlowExecution, TLAPS

(* A live row stands at a node of the flow.                                *)
RowOK(x) == x.st \in Live => x.node \in Nodes
RowsOK == \A e \in Executions : RowOK(exec[e])

NodePCs == {"load", "read", "move", "handle", "schedule", "pause"}
FlowPCs == {"claim", "reject", "resume", "finish"} \cup NodePCs
EndPCs == {"reject", "finish", "endStale", "endFlow"}
ExecPCs == FlowPCs \cup EndPCs
             \cup {"readBoth", "readExec", "readConv", "recoverConv", "rollback"}

(* What a worker's copies hold at each of its labels.                      *)
LocalOK(x) ==
  /\ RowOK(x.mx)
  /\ x.pc \in ExecPCs => x.e \in Executions
  /\ x.pc \in NodePCs => x.node \in Nodes
  /\ x.pc \in NodePCs \cup {"claim", "rollback"} => x.mx.st = "running"
  /\ x.pc \in {"recoverConv", "resume"} => x.mx.st = "paused"
  /\ x.pc \in EndPCs => x.mx.st \in Terminal
  /\ x.pc = "schedule" => x.node \in Intervals /\ x.mx.due[x.node] # NULL
  /\ x.pc \in FlowPCs \cup {"lock", "create"}
       => x.via \in {"execute", "resume"}
  /\ x.pc = "checkFlow" => x.mc.active \in Executions

(* Once a node has run on an ended row, the worker only has to notice it.  *)
LatePCs == {"read", "schedule", "pause", "finish", "unlock", "check", "save",
            "rollback"}
LateOK(x, rows) ==
  \/ x.late = 0
  \/ /\ x.late = 1 /\ x.pc \in LatePCs
     /\ x.via \in {"execute", "resume", "throw"}
     /\ x.e \in Executions /\ rows[x.e].st \in Terminal

Inv ==
  /\ TypeOK
  /\ RowsOK
  /\ \A p \in Workers : LocalOK(w[p]) /\ LateOK(w[p], exec)

(* What every step does to the rows.                                       *)
RowStep ==
  /\ exec' \in [Executions -> ExecRow]
  /\ \A e \in Executions : RowOK(exec'[e])
  /\ \A e \in Executions :
       /\ exec[e].st \in Terminal => exec'[e].st \in Terminal
       /\ exec[e].st # "none" => exec'[e].st # "none"

-----------------------------------------------------------------------------
(* The tables keep their shape: what Put, Update and EndOne preserve.      *)

LEMMA SameRows == ASSUME Inv, exec' = exec PROVE RowStep
  BY DEF Inv, TypeOK, RowsOK, RowStep

LEMMA UpdateRows ==
  ASSUME Inv, NEW e \in Executions, NEW row \in ExecRow, RowOK(row),
         row.st \in Live \cup Terminal, Update(e, row)
  PROVE  RowStep
  BY DEF Inv, TypeOK, RowsOK, RowStep, Update, CanTransitionFrom, Live, Terminal

LEMMA CompletedRow ==
  ASSUME NEW x \in ExecRow
  PROVE  Completed(x) \in ExecRow /\ RowOK(Completed(x))
         /\ Completed(x).st \in Terminal
  BY DEF ExecRow, Completed, RowOK, Live, Terminal

LEMMA FailedRow ==
  ASSUME NEW x \in ExecRow
  PROVE  Failed(x) \in ExecRow /\ RowOK(Failed(x)) /\ Failed(x).st \in Terminal
  BY DEF ExecRow, Failed, RowOK, Live, Terminal

(* The other tables keep their types.                                      *)
FrameOK ==
  /\ conv' \in ConvRow /\ lock' \in Workers \cup {NULL}
  /\ queue' \subseteq Message /\ clock' \in 0..MaxTime /\ faults' \in Nat

Kept == Inv' /\ RowStep

LEMMA Here ==
  ASSUME Inv, NEW p \in Workers
  PROVE  /\ w[p] \in Worker /\ LocalOK(w[p]) /\ LateOK(w[p], exec)
         /\ w[p].mx \in ExecRow /\ w[p].mc \in ConvRow
         /\ conv \in ConvRow /\ exec \in [Executions -> ExecRow]
         /\ \A e \in Executions : exec[e] \in ExecRow /\ RowOK(exec[e])
  BY DEF Inv, TypeOK, Worker, RowsOK

LEMMA SameFrame ==
  ASSUME Inv, UNCHANGED <<conv, lock, queue, clock, faults>>
  PROVE  FrameOK
  BY DEF Inv, TypeOK, FrameOK

LEMMA PutInv ==
  ASSUME Inv, NEW p \in Workers, NEW r \in Worker, Put(p, r), RowStep, FrameOK,
         LocalOK(r), LateOK(r, exec')
  PROVE  Kept
<1>1. w' = [w EXCEPT ![p] = r] /\ w \in [Workers -> Worker]
  BY DEF Inv, TypeOK, Put
<1>2. TypeOK'
  BY <1>1 DEF TypeOK, RowStep, FrameOK
<1>3. RowsOK'
  BY DEF RowsOK, RowStep
<1>4. ASSUME NEW q \in Workers PROVE LocalOK(w'[q]) /\ LateOK(w'[q], exec')
  <2>1. CASE q = p
    BY <2>1, <1>1
  <2>2. CASE q # p
    <3>1. w'[q] = w[q]
      BY <2>2, <1>1
    <3>2. LocalOK(w[q]) /\ LateOK(w[q], exec)
      BY DEF Inv
    <3> QED
      BY <3>1, <3>2 DEF LateOK, RowStep
  <2> QED
    BY <2>1, <2>2
<1> QED
  BY <1>2, <1>3, <1>4 DEF Inv, Kept

LEMMA IdleOK ==
  ASSUME FlowAssumption, NEW rows
  PROVE  Idle \in Worker /\ LocalOK(Idle) /\ LateOK(Idle, rows)
<1> USE DEF Idle, NoConv, NoRow
<1>1. NoRow \in ExecRow /\ NoConv \in ConvRow
  BY FlowAssumption DEF ExecRow, ConvRow, Live, Terminal, ConvStatus
<1>2. Idle \in Worker
  BY <1>1, FlowAssumption DEF Worker, PCs
<1>3. LocalOK(Idle) /\ LateOK(Idle, rows)
  BY DEF LocalOK, LateOK, RowOK, Live, NodePCs, FlowPCs, ExecPCs, EndPCs
<1> QED
  BY <1>2, <1>3

LEMMA StopInv ==
  ASSUME Inv, NEW p \in Workers, Stop(p), RowStep, FrameOK
  PROVE  Kept
  BY PutInv, IdleOK, FlowAssumption DEF Stop

(* A step that only changes the worker's own state.                        *)
LEMMA QuietInv ==
  ASSUME Inv, NEW p \in Workers, NEW r \in Worker, Put(p, r),
         UNCHANGED <<conv, exec, lock, queue, clock, faults>>,
         LocalOK(r), LateOK(r, exec)
  PROVE  Kept
<1>1. RowStep /\ FrameOK
  BY SameRows, SameFrame
<1>2. LateOK(r, exec')
  OBVIOUS
<1> QED
  BY <1>1, <1>2, PutInv

LEMMA StopQuiet ==
  ASSUME Inv, NEW p \in Workers, Stop(p),
         UNCHANGED <<conv, exec, lock, queue, clock, faults>>
  PROVE  Kept
  BY StopInv, SameRows, SameFrame

USE DEF Live, Terminal, NodePCs, FlowPCs, ExecPCs, EndPCs, LatePCs

-----------------------------------------------------------------------------
(* executeFlow and resumeFlow.                                             *)

LEMMA AcquireKept == ASSUME Inv, NEW p \in Workers, Acquire(p) PROVE Kept
<1>1. w[p] \in Worker /\ LocalOK(w[p]) /\ LateOK(w[p], exec) /\ RowStep
  BY Here, SameRows DEF Acquire
<1>2. FrameOK
  BY DEF Acquire, FrameOK, Inv, TypeOK
<1> DEFINE r(label) == [w[p] EXCEPT !.pc = label]
<1>3. ASSUME NEW label \in {"create", "check", "save"}
      PROVE  r(label) \in Worker /\ LocalOK(r(label)) /\ LateOK(r(label), exec')
  BY <1>1, <1>3 DEF Acquire, At, Worker, PCs, LocalOK, LateOK, RowOK
<1>4. PICK label \in {"create", "check", "save"} : Put(p, r(label))
  BY DEF Acquire, Goto, Return
<1> QED
  BY <1>1, <1>2, <1>3, <1>4, PutInv

LEMMA CreateKept == ASSUME Inv, NEW p \in Workers, Create(p) PROVE Kept
<1>1. w[p] \in Worker /\ LocalOK(w[p]) /\ LateOK(w[p], exec) /\ FrameOK
  BY Here, SameFrame DEF Create
<1>2. PICK e \in Fresh :
        /\ exec' = [exec EXCEPT ![e] = FirstRow]
        /\ Put(p, [w[p] EXCEPT !.pc = "claim", !.e = e, !.mx = FirstRow])
  BY DEF Create
<1>3. e \in Executions /\ exec[e].st = "none"
  BY DEF Fresh, WithStatus
<1>4. FirstRow \in ExecRow /\ FirstRow.st = "running" /\ RowOK(FirstRow)
  BY FlowAssumption DEF FirstRow, NoRow, ExecRow, RowOK
<1>5. RowStep
  BY <1>2, <1>3, <1>4, Here DEF RowStep
<1> DEFINE r == [w[p] EXCEPT !.pc = "claim", !.e = e, !.mx = FirstRow]
<1>6. r \in Worker
  BY <1>1, <1>3, <1>4 DEF Worker, PCs
<1>7. LocalOK(r) /\ LateOK(r, exec')
  BY <1>1, <1>3, <1>4 DEF Create, At, LocalOK, LateOK, RowOK, Worker
<1> QED
  BY <1>1, <1>2, <1>5, <1>6, <1>7, PutInv

LEMMA FlowMissingKept == ASSUME Inv, NEW p \in Workers, FlowMissing(p) PROVE Kept
<1>1. w[p] \in Worker /\ LocalOK(w[p]) /\ LateOK(w[p], exec)
  BY Here
<1> DEFINE r == [w[p] EXCEPT !.pc = "unlock", !.via = "throw"]
<1>2. r \in Worker
  BY <1>1 DEF Worker, PCs
<1>3. LocalOK(r) /\ LateOK(r, exec)
  BY <1>1 DEF FlowMissing, At, Worker, LocalOK, LateOK, RowOK
<1> QED
  BY <1>2, <1>3, QuietInv DEF FlowMissing

LEMMA ClaimKept == ASSUME Inv, NEW p \in Workers, Claim(p) PROVE Kept
<1>1. /\ w[p] \in Worker /\ LocalOK(w[p]) /\ LateOK(w[p], exec) /\ RowStep
      /\ conv \in ConvRow /\ w[p].pc = "claim" /\ w[p].e \in Executions
  BY Here, SameRows DEF Claim, At, LocalOK
<1>2. CASE conv.active = NULL
  <2> DEFINE r == [w[p] EXCEPT !.pc = "load", !.node = StartNode,
                               !.mc.active = w[p].e]
  <2>1. FrameOK /\ Put(p, r)
    BY <1>1, <1>2 DEF Claim, FrameOK, Inv, TypeOK, ConvRow
  <2>2. r \in Worker
    BY <1>1, FlowAssumption DEF Worker, PCs, ConvRow
  <2>3. LocalOK(r) /\ LateOK(r, exec')
    BY <1>1, <2>2, FlowAssumption DEF Worker, LocalOK, LateOK, RowOK
  <2> QED
    BY <1>1, <2>1, <2>2, <2>3, PutInv
<1>3. CASE conv.active # NULL
  <2> DEFINE r == [w[p] EXCEPT !.pc = "reject", !.mx = Failed(w[p].mx)]
  <2>1. Put(p, r) /\ UNCHANGED <<conv, exec, lock, queue, clock, faults>>
    BY <1>3 DEF Claim
  <2>2. /\ Failed(w[p].mx) \in ExecRow /\ RowOK(Failed(w[p].mx))
        /\ Failed(w[p].mx).st \in Terminal
    BY <1>1, FailedRow DEF Worker
  <2>3. r \in Worker /\ LocalOK(r) /\ LateOK(r, exec)
    BY <1>1, <2>2 DEF Worker, PCs, LocalOK, LateOK
  <2> QED
    BY <2>1, <2>3, QuietInv
<1> QED
  BY <1>2, <1>3

(* A worker stores its copy of the row and moves on.                       *)
LEMMA StoreInv ==
  ASSUME Inv, NEW p \in Workers, NEW row \in ExecRow, RowOK(row),
         row.st \in Live \cup Terminal, w[p].e \in Executions,
         Update(w[p].e, row), UNCHANGED <<conv, lock, queue, clock, faults>>,
         NEW r \in Worker, Put(p, r), LocalOK(r),
         LateOK(r, exec) \/ r.late = 0
  PROVE  Kept
<1>1. RowStep /\ FrameOK
  BY UpdateRows, SameFrame
<1>2. LateOK(r, exec')
  BY <1>1 DEF LateOK, RowStep
<1> QED
  BY <1>1, <1>2, PutInv

LEMMA RejectKept == ASSUME Inv, NEW p \in Workers, Reject(p) PROVE Kept
<1>1. w[p] \in Worker /\ LocalOK(w[p]) /\ LateOK(w[p], exec) /\ w[p].mx \in ExecRow
  BY Here
<1> DEFINE r == [w[p] EXCEPT !.pc = "unlock"]
<1>2. r \in Worker /\ LocalOK(r) /\ LateOK(r, exec)
  BY <1>1 DEF Reject, At, Worker, PCs, LocalOK, LateOK, RowOK
<1>3. RowOK(w[p].mx) /\ w[p].mx.st \in Terminal /\ w[p].e \in Executions
  BY <1>1 DEF Reject, At, LocalOK
<1> QED
  BY <1>1, <1>2, <1>3, StoreInv DEF Reject, Goto

LEMMA UnlockKept == ASSUME Inv, NEW p \in Workers, Unlock(p) PROVE Kept
<1>1. w[p] \in Worker /\ LocalOK(w[p]) /\ LateOK(w[p], exec) /\ RowStep
  BY Here, SameRows DEF Unlock
<1>2. FrameOK
  BY DEF Unlock, FrameOK, Inv, TypeOK
<1>3. CASE w[p].via = "throw"
  BY <1>1, <1>2, <1>3, StopInv DEF Unlock
<1>4. CASE w[p].via # "throw"
  <2> DEFINE r == [w[p] EXCEPT !.pc = Return(p)]
  <2>1. r \in Worker /\ LocalOK(r) /\ LateOK(r, exec')
    BY <1>1 DEF Unlock, At, Worker, PCs, LocalOK, LateOK, RowOK, Return
  <2> QED
    BY <1>1, <1>2, <1>4, <2>1, PutInv DEF Unlock, Goto
<1> QED
  BY <1>3, <1>4

LEMMA ResumeFlowKept == ASSUME Inv, NEW p \in Workers, ResumeFlow(p) PROVE Kept
<1> DEFINE row == [w[p].mx EXCEPT !.st = "running"]
           r == [w[p] EXCEPT !.pc = "load", !.mx = row, !.node = row.node]
<1>1. /\ w[p] \in Worker /\ LocalOK(w[p]) /\ LateOK(w[p], exec)
      /\ w[p].mx \in ExecRow /\ w[p].pc = "resume"
  BY Here DEF ResumeFlow, At
<1>2. row \in ExecRow /\ row.st = "running" /\ row.node \in Nodes
  BY <1>1 DEF ExecRow, LocalOK, RowOK
<1>3. r \in Worker
  BY <1>1, <1>2 DEF Worker, PCs
<1>4. LocalOK(r) /\ LateOK(r, exec) /\ w[p].e \in Executions
  BY <1>1, <1>2 DEF Worker, LocalOK, LateOK, RowOK
<1> QED
  BY <1>2, <1>3, <1>4, StoreInv DEF ResumeFlow, RowOK

-----------------------------------------------------------------------------
(* executeFromNode.                                                        *)

LEMMA ExitPC ==
  ASSUME NEW p \in Workers
  PROVE  Exit(p) \in {"unlock", "check", "save"}
  BY DEF Exit, Return

LEMMA ReadKept == ASSUME Inv, NEW p \in Workers, Read(p) PROVE Kept
<1>1. /\ w[p] \in Worker /\ LocalOK(w[p]) /\ LateOK(w[p], exec)
      /\ w[p].pc \in {"load", "read"} /\ w[p].e \in Executions
      /\ w[p].node \in Nodes
  BY Here DEF Read, LocalOK
<1>2. exec[w[p].e] \in ExecRow /\ UNCHANGED <<conv, exec, lock, queue, clock, faults>>
  BY <1>1, Here DEF Read
<1>3. CASE exec[w[p].e].st # "running"
  <2> DEFINE r == [w[p] EXCEPT !.pc = Exit(p), !.mc.active = NULL]
  <2>1. r \in Worker
    BY <1>1, ExitPC DEF Worker, PCs, ConvRow
  <2>2. LocalOK(r) /\ LateOK(r, exec)
    BY <1>1, ExitPC DEF Worker, LocalOK, LateOK, RowOK
  <2> QED
    BY <1>2, <1>3, <2>1, <2>2, QuietInv DEF Read
<1>4. CASE exec[w[p].e].st = "running"
  <2> DEFINE row == [exec[w[p].e] EXCEPT !.node = w[p].node]
             r == [w[p] EXCEPT !.pc = "move", !.mx = row]
  <2>1. row \in ExecRow /\ row.st = "running" /\ row.node \in Nodes
    BY <1>1, <1>2, <1>4 DEF ExecRow
  <2>2. r \in Worker
    BY <1>1, <2>1 DEF Worker, PCs
  <2>3. LocalOK(r) /\ LateOK(r, exec)
    BY <1>1, <1>4, <2>1 DEF Worker, LocalOK, LateOK, RowOK
  <2> QED
    BY <1>2, <1>4, <2>2, <2>3, QuietInv DEF Read
<1> QED
  BY <1>3, <1>4

LEMMA MoveKept == ASSUME Inv, NEW p \in Workers, Move(p) PROVE Kept
<1> DEFINE r == [w[p] EXCEPT !.pc = "handle"]
<1>1. /\ w[p] \in Worker /\ LocalOK(w[p]) /\ LateOK(w[p], exec)
      /\ w[p].mx \in ExecRow /\ w[p].pc = "move"
  BY Here DEF Move, At
<1>2. r \in Worker /\ LocalOK(r) /\ LateOK(r, exec)
  BY <1>1 DEF Worker, PCs, LocalOK, LateOK, RowOK
<1>3. RowOK(w[p].mx) /\ w[p].mx.st = "running" /\ w[p].e \in Executions
  BY <1>1 DEF LocalOK
<1> QED
  BY <1>1, <1>2, <1>3, StoreInv DEF Move, Goto

(* What a worker that is about to run a node holds.                        *)
LEMMA AtHandle ==
  ASSUME Inv, NEW p \in Workers, At(p, "handle")
  PROVE  /\ w[p] \in Worker /\ w[p].mx \in ExecRow /\ w[p].mc \in ConvRow
         /\ RowOK(w[p].mx) /\ w[p].mx.st = "running"
         /\ w[p].e \in Executions /\ w[p].node \in Nodes
         /\ w[p].via \in {"execute", "resume"} /\ w[p].late = 0
         /\ \/ Ran(p) = 0
            \/ Ran(p) = 1 /\ exec[w[p].e].st \in Terminal
  BY Here DEF At, LocalOK, LateOK, Ran

LEMMA AdvanceInv ==
  ASSUME Inv, NEW p \in Workers, At(p, "handle"),
         NEW row \in ExecRow, RowOK(row), row.st = "running",
         NEW c \in ConvRow, Advance(p, row, c),
         UNCHANGED <<conv, exec, lock, queue, clock, faults>>
  PROVE  Kept
<1> DEFINE n == Target[w[p].node]
           x == IF n = NULL THEN Completed(row) ELSE row
           label == IF n = NULL THEN "finish" ELSE "read"
           r == [w[p] EXCEPT !.late = Ran(p), !.mc = c, !.node = n,
                             !.pc = label, !.mx = x]
<1>1. n \in Nodes \cup {NULL}
  BY AtHandle, FlowAssumption
<1>2. x \in ExecRow /\ RowOK(x) /\ (n = NULL => x.st \in Terminal)
  BY CompletedRow
<1>3. label \in {"finish", "read"} /\ (label = "read" => n \in Nodes /\ x.st = "running")
      /\ (label = "finish" => x.st \in Terminal)
  BY <1>1, <1>2
<1>4. Ran(p) \in Nat /\ w[p] \in Worker /\ Put(p, r)
  BY AtHandle DEF Advance
<1> HIDE DEF n, x, label
<1>5. r \in Worker
  BY <1>1, <1>2, <1>3, <1>4 DEF Worker, PCs
<1>6. LocalOK(r)
  BY <1>2, <1>3, <1>5, AtHandle DEF Worker, LocalOK
<1>7. LateOK(r, exec)
  BY <1>3, <1>5, AtHandle DEF Worker, LateOK
<1> QED
  BY <1>4, <1>5, <1>6, <1>7, QuietInv

LEMMA ParkInv ==
  ASSUME Inv, NEW p \in Workers, At(p, "handle"),
         NEW row \in ExecRow, RowOK(row), row.st = "running",
         NEW label \in {"schedule", "pause"}, ParkAt(p, label, row),
         label = "schedule"
           => w[p].node \in Intervals /\ row.due[w[p].node] # NULL,
         UNCHANGED <<conv, exec, lock, queue, clock, faults>>
  PROVE  Kept
<1> DEFINE r == [w[p] EXCEPT !.late = Ran(p), !.pc = label, !.mx = row]
<1>1. Ran(p) \in Nat /\ w[p] \in Worker /\ Put(p, r)
  BY AtHandle DEF ParkAt
<1>2. r \in Worker
  BY <1>1 DEF Worker, PCs
<1>3. LocalOK(r) /\ LateOK(r, exec)
  BY <1>2, AtHandle DEF Worker, LocalOK, LateOK
<1> QED
  BY <1>1, <1>2, <1>3, QuietInv

LEMMA FailNodeInv ==
  ASSUME Inv, NEW p \in Workers, At(p, "handle"), FailNode(p),
         UNCHANGED <<conv, exec, lock, queue, clock, faults>>
  PROVE  Kept
<1> DEFINE row == Failed(w[p].mx)
           r == [w[p] EXCEPT !.late = Ran(p), !.pc = "finish", !.mx = row]
<1>1. Ran(p) \in Nat /\ w[p] \in Worker /\ Put(p, r)
  BY AtHandle DEF FailNode
<1>2. row \in ExecRow /\ RowOK(row) /\ row.st \in Terminal
  BY AtHandle, FailedRow
<1> HIDE DEF row
<1>3. r \in Worker
  BY <1>1, <1>2 DEF Worker, PCs
<1>4. LocalOK(r) /\ LateOK(r, exec)
  BY <1>2, <1>3, AtHandle DEF Worker, LocalOK, LateOK
<1> QED
  BY <1>1, <1>3, <1>4, QuietInv

LEMMA RunMessageKept == ASSUME Inv, NEW p \in Workers, RunMessage(p) PROVE Kept
  BY AtHandle, AdvanceInv, FailNodeInv DEF RunMessage, OnNode

LEMMA RunInputKept == ASSUME Inv, NEW p \in Workers, RunInput(p) PROVE Kept
<1> DEFINE n == w[p].node
           x == w[p].mx
           asked == [x EXCEPT !.asked = @ \cup {n}]
           answered == [x EXCEPT !.asked = @ \ {n}]
<1>1. At(p, "handle") /\ UNCHANGED <<conv, exec, lock, queue, clock, faults>>
  BY DEF RunInput, OnNode
<1>2. /\ x \in ExecRow /\ RowOK(x) /\ x.st = "running" /\ n \in Nodes
      /\ w[p].mc \in ConvRow
  BY <1>1, AtHandle
<1>3. asked \in ExecRow /\ RowOK(asked) /\ asked.st = "running"
  BY <1>2 DEF ExecRow, RowOK
<1>4. answered \in ExecRow /\ RowOK(answered) /\ answered.st = "running"
  BY <1>2 DEF ExecRow, RowOK
<1>5. \/ Advance(p, answered, w[p].mc) \/ ParkAt(p, "pause", x)
      \/ ParkAt(p, "pause", asked) \/ FailNode(p)
  BY DEF RunInput
<1> HIDE DEF x, asked, answered
<1> QED
  BY <1>1, <1>2, <1>3, <1>4, <1>5, AdvanceInv, ParkInv, FailNodeInv

LEMMA RunIntervalKept == ASSUME Inv, NEW p \in Workers, RunInterval(p) PROVE Kept
<1> DEFINE n == w[p].node
           x == w[p].mx
           set == [x EXCEPT !.due[n] = clock + Delay]
           unset == [x EXCEPT !.due[n] = NULL]
<1>1. At(p, "handle") /\ UNCHANGED <<conv, exec, lock, queue, clock, faults>>
  BY DEF RunInterval, OnNode
<1>2. /\ x \in ExecRow /\ RowOK(x) /\ x.st = "running" /\ n \in Intervals
      /\ w[p].mc \in ConvRow
  BY <1>1, AtHandle DEF RunInterval, OnNode, Intervals
<1>3. clock + Delay \in Times /\ clock + Delay # NULL
  BY FlowAssumption DEF Inv, TypeOK, Times
<1>4. set \in ExecRow /\ RowOK(set) /\ set.st = "running" /\ set.due[n] # NULL
  BY <1>2, <1>3 DEF ExecRow, RowOK
<1>5. unset \in ExecRow /\ RowOK(unset) /\ unset.st = "running"
  BY <1>2 DEF ExecRow, RowOK
<1>6. \/ ParkAt(p, "schedule", set)
      \/ Advance(p, unset, w[p].mc)
      \/ x.due[n] # NULL /\ ParkAt(p, "schedule", x)
  BY DEF RunInterval
<1> HIDE DEF x, set, unset
<1> QED
  BY <1>1, <1>2, <1>4, <1>5, <1>6, AdvanceInv, ParkInv

LEMMA RunTransferKept == ASSUME Inv, NEW p \in Workers, RunTransfer(p) PROVE Kept
<1> DEFINE c == [w[p].mc EXCEPT !.status = "waiting", !.attendant = NULL]
<1>1. c \in ConvRow
  BY AtHandle DEF RunTransfer, OnNode, ConvRow, ConvStatus
<1> QED
  BY <1>1, AtHandle, AdvanceInv, FailNodeInv DEF RunTransfer, OnNode

LEMMA RunEndKept == ASSUME Inv, NEW p \in Workers, RunEnd(p) PROVE Kept
<1> DEFINE st == IF OnNode(p, "endClose") THEN "closed" ELSE w[p].mc.status
           c == [w[p].mc EXCEPT !.flowDone = TRUE, !.active = NULL,
                                !.status = st]
<1>1. At(p, "handle")
  BY DEF RunEnd, OnNode
<1>2. c \in ConvRow
  BY <1>1, AtHandle DEF ConvRow, ConvStatus
<1>3. Advance(p, w[p].mx, c)
  BY <1>1, AtHandle DEF RunEnd, ConvRow
<1> QED
  BY <1>1, <1>2, <1>3, AtHandle, AdvanceInv DEF RunEnd

LEMMA ScheduleKept == ASSUME Inv, NEW p \in Workers, Schedule(p) PROVE Kept
<1> DEFINE due == w[p].mx.due[w[p].node]
           r(label) == [w[p] EXCEPT !.pc = label]
<1>1. /\ w[p] \in Worker /\ LocalOK(w[p]) /\ LateOK(w[p], exec)
      /\ w[p].pc = "schedule" /\ w[p].e \in Executions
  BY Here DEF Schedule, At, LocalOK
<1>2. RowStep
  BY SameRows DEF Schedule
<1>3. \/ UNCHANGED queue
      \/ \E ttl \in Buckets :
           queue' = queue \cup {[e |-> w[p].e, at |-> clock + ttl]}
  BY DEF Schedule, Publish, NormalizeDelay
<1>4. queue' \subseteq Message
  BY <1>1, <1>3, FlowAssumption DEF Message, Inv, TypeOK
<1>5. FrameOK
  BY <1>4 DEF Schedule, FrameOK, Inv, TypeOK
<1>6. PICK label \in {"pause", "unlock", "check", "save"} : Put(p, r(label))
  BY ExitPC DEF Schedule, Goto
<1>7. r(label) \in Worker /\ LocalOK(r(label)) /\ LateOK(r(label), exec')
  BY <1>1, <1>2 DEF Schedule, Worker, PCs, LocalOK, LateOK, RowOK
<1> QED
  BY <1>2, <1>5, <1>6, <1>7, PutInv

LEMMA PauseKept == ASSUME Inv, NEW p \in Workers, Pause(p) PROVE Kept
<1> DEFINE row == [w[p].mx EXCEPT !.st = "paused"]
           r == [w[p] EXCEPT !.pc = Exit(p), !.mx.st = "paused"]
<1>1. /\ w[p] \in Worker /\ LocalOK(w[p]) /\ LateOK(w[p], exec)
      /\ w[p].mx \in ExecRow /\ w[p].pc = "pause" /\ w[p].e \in Executions
  BY Here DEF Pause, At, LocalOK
<1>2. row \in ExecRow /\ row.st = "paused" /\ RowOK(row)
  BY <1>1 DEF ExecRow, LocalOK, RowOK
<1>3. r = [w[p] EXCEPT !.pc = Exit(p), !.mx = row]
  BY <1>1 DEF Worker
<1> HIDE DEF row
<1>4. r \in Worker
  BY <1>1, <1>2, <1>3, ExitPC DEF Worker, PCs
<1>5. LocalOK(r) /\ LateOK(r, exec)
  BY <1>1, <1>2, <1>3, ExitPC DEF Worker, LocalOK, LateOK
<1>6. Put(p, r) /\ Update(w[p].e, row)
  BY DEF Pause, row
<1> QED
  BY <1>1, <1>2, <1>4, <1>5, <1>6, StoreInv DEF Pause

LEMMA StoreEndKept == ASSUME Inv, NEW p \in Workers, StoreEnd(p) PROVE Kept
<1> DEFINE r == [w[p] EXCEPT !.pc = Exit(p), !.mc.active = NULL]
<1>1. /\ w[p] \in Worker /\ LocalOK(w[p]) /\ LateOK(w[p], exec)
      /\ w[p].mx \in ExecRow /\ w[p].pc = "finish" /\ w[p].e \in Executions
  BY Here DEF StoreEnd, At, LocalOK
<1>2. RowOK(w[p].mx) /\ w[p].mx.st \in Terminal
  BY <1>1 DEF LocalOK
<1>3. r \in Worker
  BY <1>1, ExitPC DEF Worker, PCs, ConvRow
<1>4. LocalOK(r) /\ LateOK(r, exec)
  BY <1>1, ExitPC DEF Worker, LocalOK, LateOK, RowOK
<1> QED
  BY <1>1, <1>2, <1>3, <1>4, StoreInv DEF StoreEnd

-----------------------------------------------------------------------------
(* processFlowTrigger and the callers' saves.                              *)

(* A call that begins or goes on without a flow of its own.                *)
OutsidePCs == {"findPaused", "save", "listPaused", "endListed", "endRunning",
               "endPaused", "endEach", "clear", "clearChannel"}

LEMMA OutsideInv ==
  ASSUME Inv, NEW p \in Workers, NEW r \in Worker, Put(p, r), RowStep, FrameOK,
         RowOK(r.mx), r.late = 0, r.pc \in OutsidePCs
  PROVE  Kept
<1>1. LocalOK(r) /\ LateOK(r, exec')
  BY DEF LocalOK, LateOK, OutsidePCs
<1> QED
  BY <1>1, PutInv

LEMMA TriggerLoadKept == ASSUME Inv, NEW p \in Workers, TriggerLoad(p) PROVE Kept
<1> DEFINE r == [Idle EXCEPT !.pc = "findPaused", !.job = "trigger",
                             !.mc = conv, !.user = TRUE]
<1>1. Idle \in Worker /\ Idle.late = 0 /\ RowOK(Idle.mx) /\ conv \in ConvRow
  BY Here, IdleOK, FlowAssumption DEF LocalOK, Idle
<1>2. r \in Worker /\ r.pc \in OutsidePCs /\ r.late = 0 /\ RowOK(r.mx)
  BY <1>1 DEF Worker, PCs, JobKinds, OutsidePCs
<1>3. Put(p, r) /\ RowStep /\ FrameOK
  BY SameRows, SameFrame DEF TriggerLoad
<1> QED
  BY <1>2, <1>3, OutsideInv

LEMMA FindPausedKept == ASSUME Inv, NEW p \in Workers, FindPaused(p) PROVE Kept
<1> DEFINE toResume(e) == [w[p] EXCEPT !.pc = "resume", !.via = "resume",
                                       !.e = e, !.mx = exec[e]]
           toLock == [w[p] EXCEPT !.pc = "lock", !.via = "execute"]
<1>1. /\ w[p] \in Worker /\ LocalOK(w[p]) /\ LateOK(w[p], exec)
      /\ w[p].pc = "findPaused"
      /\ UNCHANGED <<conv, exec, lock, queue, clock, faults>>
  BY Here DEF FindPaused, At
<1>2. CASE Stop(p)
  BY <1>1, <1>2, StopQuiet
<1>3. CASE \E e \in Latest(WithStatus("paused")) : Put(p, toResume(e))
  <2>1. PICK e \in Latest(WithStatus("paused")) : Put(p, toResume(e))
    BY <1>3
  <2>2. /\ e \in Executions /\ exec[e].st = "paused" /\ exec[e] \in ExecRow
        /\ RowOK(exec[e])
    BY Here DEF Latest, WithStatus
  <2>3. toResume(e) \in Worker
    BY <1>1, <2>2 DEF Worker, PCs
  <2>4. LocalOK(toResume(e)) /\ LateOK(toResume(e), exec)
    BY <1>1, <2>2 DEF Worker, LocalOK, LateOK
  <2> QED
    BY <1>1, <2>1, <2>3, <2>4, QuietInv
<1>4. CASE Put(p, toLock)
  <2>1. toLock \in Worker
    BY <1>1 DEF Worker, PCs
  <2>2. LocalOK(toLock) /\ LateOK(toLock, exec)
    BY <1>1 DEF Worker, LocalOK, LateOK, RowOK
  <2> QED
    BY <1>1, <1>4, <2>1, <2>2, QuietInv
<1> QED
  BY <1>2, <1>3, <1>4 DEF FindPaused

LEMMA CheckKept == ASSUME Inv, NEW p \in Workers, Check(p) PROVE Kept
<1> DEFINE r == [w[p] EXCEPT !.pc = "save"]
<1>1. w[p] \in Worker /\ LocalOK(w[p]) /\ LateOK(w[p], exec)
  BY Here
<1>2. r \in Worker /\ LocalOK(r) /\ LateOK(r, exec)
  BY <1>1 DEF Check, At, Worker, PCs, LocalOK, LateOK, RowOK
<1> QED
  BY <1>2, QuietInv, StopQuiet DEF Check, Goto

LEMMA UpsertType ==
  ASSUME NEW c \in ConvRow, Upsert(c)
  PROVE  conv' \in ConvRow
  BY DEF Upsert, ConvRow

LEMMA SaveKept == ASSUME Inv, NEW p \in Workers, Save(p) PROVE Kept
<1> DEFINE r == [w[p] EXCEPT !.pc = "endRunning"]
<1>1. /\ w[p] \in Worker /\ LocalOK(w[p]) /\ LateOK(w[p], exec)
      /\ w[p].pc = "save" /\ RowStep
  BY Here, SameRows DEF Save, At
<1>2. conv' \in ConvRow
  BY UpsertType, Here DEF Save
<1>3. FrameOK
  BY <1>2 DEF Save, FrameOK, Inv, TypeOK
<1>4. CASE w[p].via = "assign"
  <2>1. r \in Worker /\ LocalOK(r) /\ LateOK(r, exec')
    BY <1>1, <1>4 DEF Worker, PCs, LocalOK, LateOK, RowOK
  <2> QED
    BY <1>1, <1>3, <1>4, <2>1, PutInv DEF Save, Goto
<1>5. CASE w[p].via # "assign"
  BY <1>1, <1>3, <1>5, StopInv DEF Save
<1> QED
  BY <1>4, <1>5

-----------------------------------------------------------------------------
(* The flow-resume consumer.                                               *)

LEMMA DeliverKept ==
  ASSUME Inv, NEW p \in Workers, NEW m \in queue, Deliver(p, m) PROVE Kept
<1> DEFINE r == [Idle EXCEPT !.pc = "readBoth", !.job = "resume", !.e = m.e,
                             !.msg = m]
<1>1. Idle \in Worker /\ LocalOK(Idle) /\ Idle.late = 0 /\ RowStep
  BY IdleOK, SameRows, FlowAssumption DEF Idle, Deliver
<1>2. FrameOK /\ m \in Message /\ m.e \in Executions
  BY DEF Deliver, FrameOK, Inv, TypeOK, Message
<1>3. r \in Worker
  BY <1>1, <1>2 DEF Worker, PCs, JobKinds
<1>4. LocalOK(r) /\ LateOK(r, exec')
  BY <1>1, <1>2 DEF Worker, LocalOK, LateOK, RowOK
<1> QED
  BY <1>1, <1>2, <1>3, <1>4, PutInv DEF Deliver

LEMMA FetchFirstKept == ASSUME Inv, NEW p \in Workers, FetchFirst(p) PROVE Kept
<1> DEFINE r1 == [w[p] EXCEPT !.pc = "readConv", !.mx = exec[w[p].e]]
           r2 == [w[p] EXCEPT !.pc = "readExec", !.mc = conv]
<1>1. /\ w[p] \in Worker /\ LocalOK(w[p]) /\ LateOK(w[p], exec)
      /\ w[p].pc = "readBoth" /\ w[p].e \in Executions /\ conv \in ConvRow
  BY Here DEF FetchFirst, At, LocalOK
<1>2. exec[w[p].e] \in ExecRow /\ RowOK(exec[w[p].e])
  BY <1>1, Here
<1>3. r1 \in Worker /\ r2 \in Worker
  BY <1>1, <1>2 DEF Worker, PCs
<1>4. LocalOK(r1) /\ LateOK(r1, exec)
  BY <1>1, <1>2 DEF Worker, LocalOK, LateOK
<1>5. LocalOK(r2) /\ LateOK(r2, exec)
  BY <1>1 DEF Worker, LocalOK, LateOK, RowOK
<1> QED
  BY <1>3, <1>4, <1>5, QuietInv DEF FetchFirst

LEMMA DecideInv ==
  ASSUME Inv, NEW p \in Workers, w[p].pc \in {"readConv", "readExec"},
         NEW row \in ExecRow, RowOK(row), NEW c \in ConvRow, Decide(p, row, c),
         UNCHANGED <<conv, exec, lock, queue, clock, faults>>
  PROVE  Kept
<1> DEFINE r1 == [w[p] EXCEPT !.pc = "endStale", !.mx = Completed(row)]
           r2 == [w[p] EXCEPT !.pc = "resume", !.via = "resume", !.mx = row,
                              !.mc = c]
<1>1. /\ w[p] \in Worker /\ w[p].late = 0 /\ w[p].e \in Executions
  BY Here DEF LocalOK, LateOK
<1>2. r1 \in Worker /\ LocalOK(r1) /\ LateOK(r1, exec)
  <2>1. Completed(row) \in ExecRow /\ RowOK(Completed(row))
        /\ Completed(row).st \in Terminal
    BY CompletedRow
  <2>2. r1 \in Worker
    BY <1>1, <2>1 DEF Worker, PCs
  <2> QED
    BY <1>1, <2>1, <2>2 DEF Worker, LocalOK, LateOK
<1>3. CASE row.st = "paused" /\ Put(p, r2)
  <2>1. r2 \in Worker
    BY <1>1 DEF Worker, PCs
  <2>2. LocalOK(r2) /\ LateOK(r2, exec)
    BY <1>1, <1>3, <2>1 DEF Worker, LocalOK, LateOK
  <2> QED
    BY <1>3, <2>1, <2>2, QuietInv
<1> QED
  BY <1>2, <1>3, QuietInv, StopQuiet DEF Decide

LEMMA FetchSecondKept == ASSUME Inv, NEW p \in Workers, FetchSecond(p) PROVE Kept
<1>1. /\ w[p] \in Worker /\ w[p].pc \in {"readConv", "readExec"}
      /\ LocalOK(w[p]) /\ w[p].mx \in ExecRow /\ w[p].mc \in ConvRow
      /\ conv \in ConvRow
  BY Here DEF FetchSecond, At
<1>2. w[p].e \in Executions /\ RowOK(w[p].mx)
  BY <1>1 DEF LocalOK
<1>3. exec[w[p].e] \in ExecRow /\ RowOK(exec[w[p].e])
  BY <1>2, Here
<1> QED
  BY <1>1, <1>2, <1>3, DecideInv DEF FetchSecond

LEMMA EndStaleKept == ASSUME Inv, NEW p \in Workers, EndStale(p) PROVE Kept
<1> DEFINE r == [w[p] EXCEPT !.pc = "clear"]
<1>1. /\ w[p] \in Worker /\ LocalOK(w[p]) /\ LateOK(w[p], exec)
      /\ w[p].mx \in ExecRow /\ w[p].pc = "endStale" /\ w[p].e \in Executions
  BY Here DEF EndStale, At, LocalOK
<1>2. RowOK(w[p].mx) /\ w[p].mx.st \in Terminal
  BY <1>1 DEF LocalOK
<1>3. r \in Worker /\ LocalOK(r) /\ LateOK(r, exec)
  BY <1>1 DEF Worker, PCs, LocalOK, LateOK, RowOK
<1> QED
  BY <1>1, <1>2, <1>3, StoreInv DEF EndStale, Goto

LEMMA ClearKept == ASSUME Inv, NEW p \in Workers, Clear(p) PROVE Kept
<1>1. RowStep /\ FrameOK
  BY SameRows DEF Clear, ClearActive, FrameOK, Inv, TypeOK, ConvRow
<1> QED
  BY <1>1, StopInv DEF Clear

-----------------------------------------------------------------------------
(* RecoverStuckFlows and ExecuteFlow.                                      *)

LEMMA RecoverListKept ==
  ASSUME Inv, NEW p \in Workers, NEW e \in Executions, RecoverList(p, e)
  PROVE  Kept
<1> DEFINE r == [Idle EXCEPT !.pc = "recoverConv", !.job = "recover",
                             !.e = e, !.mx = exec[e]]
<1>1. /\ Idle \in Worker /\ LocalOK(Idle) /\ Idle.late = 0
      /\ exec[e] \in ExecRow /\ RowOK(exec[e]) /\ exec[e].st = "paused"
  BY Here, IdleOK, FlowAssumption DEF Idle, RecoverList, WithStatus
<1>2. r \in Worker
  BY <1>1 DEF Worker, PCs, JobKinds
<1>3. LocalOK(r) /\ LateOK(r, exec)
  BY <1>1 DEF Worker, LocalOK, LateOK
<1> QED
  BY <1>2, <1>3, QuietInv DEF RecoverList

LEMMA RecoverConvKept == ASSUME Inv, NEW p \in Workers, RecoverConv(p) PROVE Kept
<1> DEFINE r == [w[p] EXCEPT !.pc = "resume", !.via = "resume", !.mc = conv]
<1>1. /\ w[p] \in Worker /\ LocalOK(w[p]) /\ LateOK(w[p], exec)
      /\ conv \in ConvRow /\ w[p].pc = "recoverConv"
  BY Here DEF RecoverConv, At
<1>2. r \in Worker
  BY <1>1 DEF Worker, PCs
<1>3. LocalOK(r) /\ LateOK(r, exec)
  BY <1>1 DEF Worker, LocalOK, LateOK, RowOK
<1> QED
  BY <1>2, <1>3, QuietInv DEF RecoverConv

LEMMA RollbackKept == ASSUME Inv, NEW p \in Workers, Rollback(p) PROVE Kept
<1> DEFINE row == [w[p].mx EXCEPT !.st = "paused"]
<1>1. /\ LocalOK(w[p]) /\ w[p].mx \in ExecRow /\ w[p].pc = "rollback"
  BY Here DEF Rollback, At
<1>2. row \in ExecRow /\ RowOK(row) /\ row.st = "paused" /\ w[p].e \in Executions
  BY <1>1 DEF LocalOK, RowOK, ExecRow
<1>3. RowStep /\ FrameOK
  BY <1>2, UpdateRows, SameFrame DEF Rollback
<1> QED
  BY <1>3, StopInv DEF Rollback

LEMMA ManualLoadKept == ASSUME Inv, NEW p \in Workers, ManualLoad(p) PROVE Kept
<1> DEFINE r == [Idle EXCEPT !.pc = "listPaused", !.job = "manual", !.mc = conv]
<1>1. Idle \in Worker /\ Idle.late = 0 /\ RowOK(Idle.mx) /\ conv \in ConvRow
  BY Here, IdleOK, FlowAssumption DEF LocalOK, Idle
<1>2. r \in Worker /\ r.pc \in OutsidePCs /\ r.late = 0 /\ RowOK(r.mx)
  BY <1>1 DEF Worker, PCs, JobKinds, OutsidePCs
<1>3. Put(p, r) /\ RowStep /\ FrameOK
  BY SameRows, SameFrame DEF ManualLoad
<1> QED
  BY <1>2, <1>3, OutsideInv

(* A worker at one of these labels has run no node since it began.         *)
LEMMA NotLate ==
  ASSUME Inv, NEW p \in Workers, w[p].pc \notin LatePCs
  PROVE  w[p] \in Worker /\ w[p].late = 0 /\ RowOK(w[p].mx) /\ LocalOK(w[p])
  BY Here DEF LocalOK, LateOK

LEMMA ManualListKept == ASSUME Inv, NEW p \in Workers, ManualList(p) PROVE Kept
<1> DEFINE S == {e \in WithStatus("paused") : exec[e].node \notin Intervals}
           r == [w[p] EXCEPT !.pc = "endListed", !.todo = S]
<1>1. w[p] \in Worker /\ w[p].late = 0 /\ RowOK(w[p].mx)
  BY NotLate DEF ManualList, At
<1>2. S \in SUBSET Executions
  BY DEF WithStatus
<1>3. r \in Worker /\ r.pc \in OutsidePCs /\ r.late = 0 /\ RowOK(r.mx)
  BY <1>1, <1>2 DEF Worker, PCs, OutsidePCs
<1>4. Put(p, r) /\ RowStep /\ FrameOK
  BY SameRows, SameFrame DEF ManualList
<1> QED
  BY <1>3, <1>4, OutsideInv

LEMMA EndOneInv ==
  ASSUME Inv, NEW p \in Workers, w[p].pc \in {"endListed", "endEach"}, EndOne(p),
         UNCHANGED <<conv, lock, queue, clock, faults>>
  PROVE  Kept
<1>1. PICK e \in w[p].todo : /\ Update(e, Completed(exec[e]))
                             /\ Put(p, [w[p] EXCEPT !.todo = @ \ {e}])
  BY DEF EndOne
<1> DEFINE r == [w[p] EXCEPT !.todo = @ \ {e}]
<1>2. w[p] \in Worker /\ w[p].late = 0 /\ RowOK(w[p].mx)
  BY NotLate
<1>3. e \in Executions
  BY <1>1, <1>2 DEF Worker
<1>4. exec[e] \in ExecRow
  BY <1>3, Here
<1>5. /\ Completed(exec[e]) \in ExecRow /\ RowOK(Completed(exec[e]))
      /\ Completed(exec[e]).st \in Terminal
  BY <1>4, CompletedRow
<1>6. RowStep /\ FrameOK
  BY <1>1, <1>3, <1>5, UpdateRows, SameFrame
<1>7. r \in Worker /\ r.pc \in OutsidePCs /\ r.late = 0 /\ RowOK(r.mx)
  BY <1>2 DEF Worker, OutsidePCs
<1> QED
  BY <1>1, <1>6, <1>7, OutsideInv

LEMMA ManualEndKept == ASSUME Inv, NEW p \in Workers, ManualEnd(p) PROVE Kept
<1> DEFINE r == [w[p] EXCEPT !.pc = "lock", !.via = "execute", !.mc.active = NULL]
<1>1. w[p] \in Worker /\ w[p].late = 0 /\ LocalOK(w[p]) /\ w[p].pc = "endListed"
  BY NotLate DEF ManualEnd, At
<1>2. CASE EndOne(p)
  BY <1>1, <1>2, EndOneInv DEF ManualEnd
<1>3. CASE Put(p, r) /\ UNCHANGED exec
  <2>1. r \in Worker
    BY <1>1 DEF Worker, PCs, ConvRow
  <2>2. LocalOK(r) /\ LateOK(r, exec)
    BY <1>1 DEF Worker, LocalOK, LateOK, RowOK
  <2> QED
    BY <1>3, <2>1, <2>2, QuietInv DEF ManualEnd
<1> QED
  BY <1>2, <1>3 DEF ManualEnd

-----------------------------------------------------------------------------
(* Attendants, closing and expiring, reconnecting.                         *)

LEMMA AssignKept ==
  ASSUME Inv, NEW p \in Workers, NEW u \in Users, Assign(p, u)
  PROVE  Kept
<1> DEFINE r == [Idle EXCEPT !.pc = "endRunning", !.job = "assign"]
<1>1. Idle \in Worker /\ Idle.late = 0 /\ RowOK(Idle.mx) /\ RowStep
  BY IdleOK, SameRows, FlowAssumption DEF LocalOK, Idle, Assign
<1>2. FrameOK
  BY DEF Assign, FrameOK, Inv, TypeOK, ConvRow, ConvStatus
<1>3. r \in Worker /\ r.pc \in OutsidePCs /\ r.late = 0 /\ RowOK(r.mx)
  BY <1>1 DEF Worker, PCs, JobKinds, OutsidePCs
<1> QED
  BY <1>1, <1>2, <1>3, OutsideInv DEF Assign

LEMMA OpenedType ==
  ASSUME NEW c \in ConvRow, NEW u \in Users
  PROVE  Opened(c, u) \in ConvRow
  BY DEF Opened, ConvRow, ConvStatus

LEMMA ReopenedType ==
  ASSUME NEW c \in ConvRow
  PROVE  Reopened(c) \in ConvRow
  BY DEF Reopened, ConvRow, ConvStatus

(* A call that goes straight to its save.                                  *)
LEMMA LoadInv ==
  ASSUME Inv, NEW p \in Workers, NEW job \in JobKinds, NEW c \in ConvRow,
         NEW via \in {"assign", NULL},
         Put(p, [Idle EXCEPT !.pc = "save", !.job = job, !.via = via, !.mc = c]),
         UNCHANGED <<conv, exec, lock, queue, clock, faults>>
  PROVE  Kept
<1> DEFINE r == [Idle EXCEPT !.pc = "save", !.job = job, !.via = via, !.mc = c]
<1>1. Idle \in Worker /\ Idle.late = 0 /\ RowOK(Idle.mx) /\ RowStep /\ FrameOK
  BY IdleOK, SameRows, SameFrame, FlowAssumption DEF LocalOK, Idle
<1>2. r \in Worker /\ r.pc \in OutsidePCs /\ r.late = 0 /\ RowOK(r.mx)
  BY <1>1 DEF Worker, PCs, OutsidePCs
<1> QED
  BY <1>1, <1>2, OutsideInv

LEMMA ReplyLoadKept ==
  ASSUME Inv, NEW p \in Workers, NEW u \in Users, NEW t \in BOOLEAN,
         ReplyLoad(p, u, t)
  PROVE  Kept
<1> DEFINE c == IF t /\ conv.status = "expired" THEN Reopened(conv) ELSE conv
           v == IF c.attendant = NULL THEN u ELSE c.attendant
           via == IF c.attendant = NULL THEN "assign" ELSE NULL
<1>1. c \in ConvRow
  BY Here, ReopenedType
<1>2. v \in Users
  BY <1>1 DEF ConvRow
<1>3. Opened(c, v) \in ConvRow
  BY <1>1, <1>2, OpenedType
<1>4. Put(p, [Idle EXCEPT !.pc = "save", !.job = "reply", !.via = via,
                          !.mc = Opened(c, v)])
  BY DEF ReplyLoad
<1> QED
  BY <1>3, <1>4, LoadInv DEF ReplyLoad, JobKinds

LEMMA TransferLoadKept ==
  ASSUME Inv, NEW p \in Workers, NEW u \in Users \cup {NULL}, TransferLoad(p, u)
  PROVE  Kept
<1> DEFINE c == [conv EXCEPT !.attendant = NULL, !.status = "waiting"]
           via == IF u = NULL THEN NULL ELSE "assign"
           d == IF u = NULL THEN c ELSE Opened(c, u)
<1>1. c \in ConvRow
  BY Here DEF ConvRow, ConvStatus
<1>2. d \in ConvRow
  BY <1>1, OpenedType
<1>3. Put(p, [Idle EXCEPT !.pc = "save", !.job = "transfer", !.via = via,
                          !.mc = d])
  BY DEF TransferLoad
<1> QED
  BY <1>2, <1>3, LoadInv DEF TransferLoad, JobKinds

LEMMA FindRunningKept == ASSUME Inv, NEW p \in Workers, FindRunning(p) PROVE Kept
<1> DEFINE S == Latest(WithStatus("running"))
           r == [w[p] EXCEPT !.pc = "endPaused", !.todo = S]
<1>1. w[p] \in Worker /\ w[p].late = 0 /\ RowOK(w[p].mx)
  BY NotLate DEF FindRunning, At
<1>2. S \in SUBSET Executions
  BY DEF WithStatus, Latest
<1>3. r \in Worker /\ r.pc \in OutsidePCs /\ r.late = 0 /\ RowOK(r.mx)
  BY <1>1, <1>2 DEF Worker, PCs, OutsidePCs
<1>4. Put(p, r) /\ RowStep /\ FrameOK
  BY SameRows, SameFrame DEF FindRunning
<1> QED
  BY <1>3, <1>4, OutsideInv

LEMMA FindAllPausedKept ==
  ASSUME Inv, NEW p \in Workers, FindAllPaused(p) PROVE Kept
<1> DEFINE S == WithStatus("paused")
           r == [w[p] EXCEPT !.pc = "endEach", !.todo = @ \cup S]
<1>1. w[p] \in Worker /\ w[p].late = 0 /\ RowOK(w[p].mx)
  BY NotLate DEF FindAllPaused, At
<1>2. S \in SUBSET Executions
  BY DEF WithStatus
<1>3. r \in Worker /\ r.pc \in OutsidePCs /\ r.late = 0 /\ RowOK(r.mx)
  BY <1>1, <1>2 DEF Worker, PCs, OutsidePCs
<1>4. Put(p, r) /\ RowStep /\ FrameOK
  BY SameRows, SameFrame DEF FindAllPaused
<1> QED
  BY <1>3, <1>4, OutsideInv

LEMMA TerminateEachKept ==
  ASSUME Inv, NEW p \in Workers, TerminateEach(p) PROVE Kept
<1> DEFINE r == [w[p] EXCEPT !.pc = "clear"]
<1>1. /\ w[p] \in Worker /\ w[p].late = 0 /\ RowOK(w[p].mx)
      /\ w[p].pc = "endEach"
  BY NotLate DEF TerminateEach, At
<1>2. CASE EndOne(p)
  BY <1>1, <1>2, EndOneInv DEF TerminateEach
<1>3. CASE Goto(p, "clear") /\ UNCHANGED exec
  <2>1. r \in Worker /\ r.pc \in OutsidePCs /\ r.late = 0 /\ RowOK(r.mx)
    BY <1>1 DEF Worker, PCs, OutsidePCs
  <2>2. Put(p, r) /\ RowStep /\ FrameOK
    BY <1>3, SameRows, SameFrame DEF TerminateEach, Goto
  <2> QED
    BY <2>1, <2>2, OutsideInv
<1> QED
  BY <1>2, <1>3 DEF TerminateEach

LEMMA EndConversationKept ==
  ASSUME Inv, NEW p \in Workers, NEW k \in JobKinds, NEW st \in ConvStatus,
         EndConversation(p, k, st)
  PROVE  Kept
<1> DEFINE c == [conv EXCEPT !.status = st]
           label == IF conv.status # st /\ conv.active # NULL THEN "checkFlow"
                                                             ELSE "save"
           r == [Idle EXCEPT !.job = k, !.mc = c, !.pc = label]
<1>1. /\ Idle \in Worker /\ Idle.late = 0 /\ RowOK(Idle.mx) /\ conv \in ConvRow
      /\ UNCHANGED <<conv, exec, lock, queue, clock, faults>> /\ Put(p, r)
  BY Here, IdleOK, FlowAssumption DEF LocalOK, Idle, EndConversation
<1>2. c \in ConvRow /\ (label = "checkFlow" => c.active \in Executions)
  BY <1>1 DEF ConvRow
<1>3. label \in {"checkFlow", "save"}
  OBVIOUS
<1> HIDE DEF c, label
<1>4. r \in Worker
  BY <1>1, <1>2, <1>3 DEF Worker, PCs
<1>5. LocalOK(r) /\ LateOK(r, exec)
  BY <1>1, <1>2, <1>3 DEF Worker, LocalOK, LateOK
<1> QED
  BY <1>1, <1>4, <1>5, QuietInv

LEMMA CheckFlowKept == ASSUME Inv, NEW p \in Workers, CheckFlow(p) PROVE Kept
<1> DEFINE e == w[p].mc.active
           row == Completed(exec[e])
           r1 == [w[p] EXCEPT !.pc = "endFlow", !.e = e, !.mx = row]
           r2 == [w[p] EXCEPT !.pc = "save"]
<1>1. /\ w[p] \in Worker /\ w[p].late = 0 /\ RowOK(w[p].mx)
      /\ e \in Executions
  BY NotLate DEF CheckFlow, At, LocalOK
<1>2. row \in ExecRow /\ RowOK(row) /\ row.st \in Terminal
  BY <1>1, Here, CompletedRow
<1>3. /\ UNCHANGED <<conv, exec, lock, queue, clock, faults>>
      /\ Put(p, r1) \/ Put(p, r2)
  BY DEF CheckFlow, Goto
<1> HIDE DEF e, row
<1>4. r1 \in Worker /\ r2 \in Worker
  BY <1>1, <1>2 DEF Worker, PCs
<1>5. LocalOK(r1) /\ LateOK(r1, exec)
  BY <1>1, <1>2 DEF Worker, LocalOK, LateOK
<1>6. LocalOK(r2) /\ LateOK(r2, exec)
  BY <1>1 DEF Worker, LocalOK, LateOK
<1> QED
  BY <1>3, <1>4, <1>5, <1>6, QuietInv

LEMMA EndFlowKept == ASSUME Inv, NEW p \in Workers, EndFlow(p) PROVE Kept
<1> DEFINE r == [w[p] EXCEPT !.pc = "save", !.mc.active = NULL]
<1>1. /\ w[p] \in Worker /\ w[p].late = 0 /\ LocalOK(w[p])
      /\ w[p].mx \in ExecRow /\ w[p].pc = "endFlow"
  BY NotLate, Here DEF EndFlow, At
<1>2. RowOK(w[p].mx) /\ w[p].mx.st \in Terminal /\ w[p].e \in Executions
  BY <1>1 DEF LocalOK
<1>3. RowStep /\ FrameOK
  BY <1>1, <1>2, UpdateRows, SameFrame DEF EndFlow
<1>4. r \in Worker /\ r.pc \in OutsidePCs /\ r.late = 0 /\ RowOK(r.mx)
  BY <1>1, <1>2 DEF Worker, PCs, ConvRow, OutsidePCs
<1> QED
  BY <1>3, <1>4, OutsideInv DEF EndFlow

(* A step of no worker.                                                    *)
LEMMA IdleStepInv ==
  ASSUME Inv, UNCHANGED <<exec, w>>, FrameOK
  PROVE  Kept
  BY SameRows DEF Inv, TypeOK, FrameOK, RowsOK, Kept

LEMMA ReopenKept == ASSUME Inv, NEW p \in Workers, Reopen(p) PROVE Kept
<1>1. Reopened(conv) \in ConvRow
  BY ReopenedType DEF Inv, TypeOK
<1>2. FrameOK
  BY <1>1 DEF Reopen, FrameOK, Inv, TypeOK, ConvRow
<1> QED
  BY <1>2, IdleStepInv DEF Reopen

LEMMA ReconnectTerminateKept ==
  ASSUME Inv, NEW p \in Workers, ReconnectTerminate(p) PROVE Kept
<1> DEFINE r == [Idle EXCEPT !.pc = "clearChannel", !.job = "reconnect"]
<1>1. Idle \in Worker /\ Idle.late = 0 /\ RowOK(Idle.mx)
  BY IdleOK, FlowAssumption DEF LocalOK, Idle
<1>2. r \in Worker /\ r.pc \in OutsidePCs /\ r.late = 0 /\ RowOK(r.mx)
  BY <1>1 DEF Worker, PCs, JobKinds, OutsidePCs
<1>3. ASSUME NEW e \in Executions
      PROVE  /\ exec'[e] \in ExecRow /\ RowOK(exec'[e])
             /\ exec[e].st \in Terminal => exec'[e].st \in Terminal
             /\ exec[e].st # "none" => exec'[e].st # "none"
  <2>1. /\ exec[e] \in ExecRow /\ RowOK(exec[e]) /\ Completed(exec[e]) \in ExecRow
        /\ RowOK(Completed(exec[e])) /\ Completed(exec[e]).st \in Terminal
    BY Here, CompletedRow
  <2>2. exec'[e] = IF exec[e].st \in {"running", "paused"}
                   THEN Completed(exec[e]) ELSE exec[e]
    BY DEF ReconnectTerminate
  <2> QED
    BY <2>1, <2>2
<1>4. exec' \in [Executions -> ExecRow]
  BY <1>3 DEF ReconnectTerminate
<1>5. RowStep
  BY <1>3, <1>4 DEF RowStep
<1> QED
  BY <1>2, <1>5, SameFrame, OutsideInv DEF ReconnectTerminate

LEMMA ReconnectClearKept ==
  ASSUME Inv, NEW p \in Workers, ReconnectClear(p) PROVE Kept
<1>1. RowStep /\ FrameOK
  BY SameRows DEF ReconnectClear, FrameOK, Inv, TypeOK, ConvRow
<1> QED
  BY <1>1, StopInv DEF ReconnectClear

-----------------------------------------------------------------------------
(* Failures, the lock's TTL and time.                                      *)

LEMMA FaultFrame ==
  ASSUME Inv, NEW p \in Workers, Fault, Requeue(p), UNCHANGED <<conv, lock, clock>>
  PROVE  FrameOK
<1>1. w[p].msg \in Message \cup {NULL}
  BY Here DEF Worker
<1> QED
  BY <1>1 DEF Fault, Requeue, FrameOK, Inv, TypeOK

LEMMA QueryThrowsKept ==
  ASSUME Inv, NEW p \in Workers, QueryThrows(p) PROVE Kept
<1> DEFINE r1 == [w[p] EXCEPT !.pc = "unlock", !.via = "throw"]
           r2 == [w[p] EXCEPT !.pc = "rollback"]
<1>1. RowStep /\ FrameOK
  BY SameRows, FaultFrame DEF QueryThrows
<1>2. /\ w[p] \in Worker /\ LocalOK(w[p]) /\ LateOK(w[p], exec)
      /\ w[p].pc \in {"load", "read", "move"}
  BY Here DEF QueryThrows
<1>3. CASE Put(p, r1)
  <2>1. r1 \in Worker
    BY <1>2 DEF Worker, PCs
  <2>2. LocalOK(r1) /\ LateOK(r1, exec')
    BY <1>2 DEF Worker, LocalOK, LateOK, RowOK, QueryThrows
  <2> QED
    BY <1>1, <1>3, <2>1, <2>2, PutInv
<1>4. CASE Put(p, r2)
  <2>1. r2 \in Worker
    BY <1>2 DEF Worker, PCs
  <2>2. LocalOK(r2) /\ LateOK(r2, exec')
    BY <1>2 DEF Worker, LocalOK, LateOK, RowOK, QueryThrows
  <2> QED
    BY <1>1, <1>4, <2>1, <2>2, PutInv
<1> QED
  BY <1>1, <1>3, <1>4, StopInv DEF QueryThrows, Goto

LEMMA CrashKept == ASSUME Inv, NEW p \in Workers, Crash(p) PROVE Kept
  BY SameRows, FaultFrame, StopInv DEF Crash

LEMMA LockExpiresKept == ASSUME Inv, LockExpires PROVE Kept
  BY IdleStepInv DEF LockExpires, FrameOK, Inv, TypeOK

LEMMA TickKept == ASSUME Inv, Tick PROVE Kept
<1>1. clock' \in 0..MaxTime
  BY FlowAssumption DEF Tick, Inv, TypeOK
<1> QED
  BY <1>1, IdleStepInv DEF Tick, FrameOK, Inv, TypeOK

-----------------------------------------------------------------------------
(* The invariant.                                                          *)

LEMMA InitInv == Init => Inv
<1> SUFFICES ASSUME Init PROVE Inv
  OBVIOUS
<1>1. NoRow \in ExecRow /\ NoConv \in ConvRow
  BY FlowAssumption DEF NoRow, NoConv, ExecRow, ConvRow, ConvStatus
<1>2. Idle \in Worker /\ LocalOK(Idle) /\ LateOK(Idle, exec)
  BY IdleOK, FlowAssumption
<1>3. TypeOK
  BY <1>1, <1>2, FlowAssumption DEF Init, TypeOK
<1>4. RowsOK
  BY DEF Init, RowsOK, RowOK, NoRow
<1> QED
  BY <1>2, <1>3, <1>4 DEF Init, Inv

LEMMA ContinueKept == ASSUME Inv, NEW p \in Workers, Continue(p) PROVE Kept
  BY AcquireKept, CreateKept, FlowMissingKept, ClaimKept, RejectKept,
     UnlockKept, ResumeFlowKept, ReadKept, MoveKept, RunMessageKept,
     RunInputKept, RunIntervalKept, RunTransferKept, RunEndKept, ScheduleKept,
     PauseKept, StoreEndKept, FindPausedKept, CheckKept, SaveKept,
     FetchFirstKept, FetchSecondKept, EndStaleKept, ClearKept, RecoverConvKept,
     RollbackKept, ManualListKept, ManualEndKept, FindRunningKept,
     FindAllPausedKept, TerminateEachKept, CheckFlowKept, EndFlowKept,
     ReconnectClearKept
     DEF Continue

LEMMA StartKept == ASSUME Inv, NEW p \in Workers, Start(p) PROVE Kept
<1>1. {"close", "expire"} \subseteq JobKinds /\ {"closed", "expired"} \subseteq ConvStatus
  BY DEF JobKinds, ConvStatus
<1> QED
  BY <1>1, TriggerLoadKept, ManualLoadKept, ReopenKept, ReconnectTerminateKept,
     RecoverListKept, AssignKept, TransferLoadKept, ReplyLoadKept,
     EndConversationKept
     DEF Start

LEMMA NextKept == Inv /\ [Next]_vars => Kept
<1> SUFFICES ASSUME Inv, [Next]_vars PROVE Kept
  OBVIOUS
<1>1. CASE UNCHANGED vars
  BY <1>1, SameFrame, IdleStepInv DEF vars
<1>2. ASSUME NEW p \in Workers, Step(p) PROVE Kept
  <2>1. CASE Continue(p)
    BY <2>1, ContinueKept
  <2>2. CASE Start(p)
    BY <2>2, StartKept
  <2>3. CASE Consume(p)
    BY <2>3, DeliverKept DEF Consume
  <2>4. CASE QueryThrows(p) \/ Crash(p)
    BY <2>4, QueryThrowsKept, CrashKept
  <2> QED
    BY <1>2, <2>1, <2>2, <2>3, <2>4 DEF Step
<1>3. CASE LockExpires \/ Tick
  BY <1>3, LockExpiresKept, TickKept
<1> QED
  BY <1>1, <1>2, <1>3 DEF Next

(* Every reachable state satisfies the inductive invariant.                *)
THEOREM InvHolds == Spec => []Inv
<1>1. Inv /\ [Next]_vars => Inv'
  BY NextKept DEF Kept
<1> QED
  BY InitInv, <1>1, PTL DEF Spec

(* Rows, copies, messages and labels keep their types, whatever the flow   *)
(* and however the calls interleave: the columns of flow_executions and    *)
(* conversations only ever receive values of their enums.                  *)
THEOREM TypeCorrect == Spec => []TypeOK
<1>1. Inv => TypeOK
  BY DEF Inv
<1> QED
  BY InvHolds, <1>1, PTL

(* The stored status guards every write: no call with a stale copy sets a  *)
(* completed or failed execution running or paused again.                  *)
THEOREM NeverRevived == Spec => NoRevival
<1>1. Inv /\ [Next]_vars
        => [\A e \in Executions :
              exec[e].st \in Terminal => exec'[e].st \in Terminal]_vars
  BY NextKept DEF Kept, RowStep
<1> QED
  BY InvHolds, <1>1, PTL DEF Spec, NoRevival

(* An execution ended by a takeover, a close or a reconnect runs at most   *)
(* the node whose status check had already passed.                         *)
THEOREM BotObeysEnd == Spec => []BotStops
<1>1. ASSUME Inv, NEW p \in Workers PROVE w[p].late <= 1
  <2>1. w[p].late = 0 \/ w[p].late = 1
    BY <1>1, Here DEF LateOK
  <2> QED
    BY <2>1
<1>2. Inv => BotStops
  BY <1>1 DEF BotStops
<1> QED
  BY InvHolds, <1>2, PTL

-----------------------------------------------------------------------------
(* The lock.  Holds is inductive together with Inv: a call inside          *)
(* executeFlow holds the lock, and a call comes to resumeFlow, which takes *)
(* no lock, and to executeFlow by the way its record says.                 *)

Inside(x) == x.via \in {"execute", "throw"} /\ x.pc \in LockedPCs
Way(x) ==
  /\ x.pc = "resume" => x.via = "resume"
  /\ x.pc \in {"lock", "create"} => x.via = "execute"
Holds == \A p \in Workers : (Inside(w[p]) => lock = p) /\ Way(w[p])

USE DEF LockedPCs

(* A step of p that leaves the lock alone and does not bring p inside.     *)
LEMMA StaysOut ==
  ASSUME Inv, Holds, NEW p \in Workers, lock' = lock, NEW r, Put(p, r),
         Inside(r) => Inside(w[p]), Way(r)
  PROVE  Holds'
<1>1. w' = [w EXCEPT ![p] = r] /\ w \in [Workers -> Worker]
  BY DEF Inv, TypeOK, Put
<1>2. ASSUME NEW q \in Workers
      PROVE  (Inside(w'[q]) => lock' = q) /\ Way(w'[q])
  <2>1. CASE q = p
    BY <1>1, <2>1 DEF Holds
  <2>2. CASE q # p
    BY <1>1, <2>2 DEF Holds
  <2> QED
    BY <2>1, <2>2
<1> QED
  BY <1>2 DEF Holds

(* Within executeFromNode a call keeps its way of having come in.          *)
LEMMA StaysIn ==
  ASSUME Inv, Holds, NEW p \in Workers, lock' = lock, NEW r, Put(p, r),
         w[p].pc \in LockedPCs, r.via = w[p].via, r.pc \notin {"resume", "lock", "create"}
  PROVE  Holds'
  BY StaysOut DEF Inside, Way

LEMMA Leaves ==
  ASSUME Inv, Holds, NEW p \in Workers, lock' = lock, NEW r, Put(p, r),
         r.pc \notin LockedPCs, Way(r)
  PROVE  Holds'
  BY StaysOut DEF Inside

LEMMA StopsOut ==
  ASSUME Inv, Holds, NEW p \in Workers, lock' = lock, Stop(p)
  PROVE  Holds'
  BY Leaves DEF Stop, Idle, Way

LEMMA LabelField ==
  ASSUME NEW x \in Worker, NEW l
  PROVE  /\ [x EXCEPT !.pc = l].pc = l /\ [x EXCEPT !.pc = l].via = x.via
  BY DEF Worker

LEMMA AcquireHolds ==
  ASSUME Inv, Holds, NEW p \in Workers, Acquire(p) PROVE Holds'
<1>1. w[p] \in Worker /\ w[p].pc = "lock"
  BY Here DEF Acquire, At
<1>2. CASE lock = NULL
  <2>1. lock' = p /\ w' = [w EXCEPT ![p] = [w[p] EXCEPT !.pc = "create"]]
    BY <1>2 DEF Acquire, Goto, Put
  <2>2. \A q \in Workers : ~Inside(w[q])
    BY <1>2, FlowAssumption DEF Holds
  <2>3. w \in [Workers -> Worker]
    BY DEF Inv, TypeOK
  <2>4. lock' = p /\ Way(w'[p])
    BY <1>1, <2>1, <2>3, LabelField DEF Holds, Way
  <2>5. ASSUME NEW q \in Workers, q # p
        PROVE  ~Inside(w'[q]) /\ Way(w'[q])
    BY <2>1, <2>2, <2>3, <2>5 DEF Holds
  <2>6. ASSUME NEW q \in Workers
        PROVE  (Inside(w'[q]) => lock' = q) /\ Way(w'[q])
    BY <2>4, <2>5
  <2> QED
    BY <2>6 DEF Holds
<1>3. CASE lock # NULL
  <2> DEFINE r == [w[p] EXCEPT !.pc = Return(p)]
  <2>1. lock' = lock /\ Put(p, r)
    BY <1>3 DEF Acquire, Goto
  <2>2. r.pc \in {"check", "save"}
    BY <1>1, LabelField DEF Return
  <2>3. r.pc \notin LockedPCs /\ Way(r)
    BY <2>2 DEF Way
  <2> QED
    BY <2>1, <2>3, Leaves
<1> QED
  BY <1>2, <1>3

LEMMA UnlockHolds ==
  ASSUME Inv, Holds, NEW p \in Workers, Unlock(p) PROVE Holds'
<1>1. w \in [Workers -> Worker] /\ w[p] \in Worker
  BY Here DEF Inv, TypeOK
<1>2. PICK r : Put(p, r) /\ ~Inside(r) /\ Way(r)
  <2>1. CASE w[p].via = "throw"
    <3>1. Put(p, Idle)
      BY <2>1 DEF Unlock, Stop
    <3>2. ~Inside(Idle) /\ Way(Idle)
      BY DEF Idle, Inside, Way
    <3> QED
      BY <3>1, <3>2
  <2>2. CASE w[p].via # "throw"
    <3> DEFINE x == [w[p] EXCEPT !.pc = Return(p)]
    <3>1. Put(p, x)
      BY <2>2 DEF Unlock, Goto
    <3>2. x.pc \in {"check", "save"}
      BY <1>1, LabelField DEF Return
    <3>3. ~Inside(x) /\ Way(x)
      BY <3>2 DEF Inside, Way
    <3> QED
      BY <3>1, <3>3
  <2> QED
    BY <2>1, <2>2
<1>3. ASSUME NEW q \in Workers, q # p
      PROVE  (Inside(w'[q]) => lock' = q) /\ Way(w'[q])
  BY <1>1, <1>2, <1>3 DEF Unlock, Put, Holds
<1>4. ~Inside(w'[p]) /\ Way(w'[p])
  BY <1>1, <1>2 DEF Put
<1> QED
  BY <1>3, <1>4 DEF Holds

(* The steps of executeFlow and executeFromNode.                           *)
InsidePCs == LockedPCs \cup {"check", "save"}

LEMMA GoesOn ==
  ASSUME Inv, Holds, NEW p \in Workers, lock' = lock, NEW r, Put(p, r),
         w[p].pc \in LockedPCs, r.via = w[p].via,
         r.pc \in InsidePCs \ {"create"}
  PROVE  Holds'
  BY StaysOut DEF Inside, Way, InsidePCs

LEMMA ClaimHolds ==
  ASSUME Inv, Holds, NEW p \in Workers, Create(p) \/ FlowMissing(p) \/ Claim(p)
  PROVE  Holds'
<1>1. w[p] \in Worker /\ lock' = lock
  BY Here DEF Create, FlowMissing, Claim
<1>2. CASE Create(p)
  <2>1. PICK e : Put(p, [w[p] EXCEPT !.pc = "claim", !.e = e, !.mx = FirstRow])
    BY <1>2 DEF Create
  <2> QED
    BY <1>1, <1>2, <2>1, GoesOn DEF Create, At, Worker, InsidePCs
<1>3. CASE FlowMissing(p)
  <2> DEFINE r == [w[p] EXCEPT !.pc = "unlock", !.via = "throw"]
  <2>1. Put(p, r) /\ w[p].pc = "create" /\ r.pc = "unlock"
    BY <1>1, <1>3 DEF FlowMissing, At, Worker
  <2>2. Inside(w[p]) /\ Way(r)
    BY <2>1 DEF Holds, Inside, Way
  <2> QED
    BY <1>1, <2>1, <2>2, StaysOut
<1>4. CASE Claim(p)
  <2> DEFINE r1 == [w[p] EXCEPT !.pc = "load", !.node = StartNode,
                                !.mc.active = w[p].e]
             r2 == [w[p] EXCEPT !.pc = "reject", !.mx = Failed(w[p].mx)]
  <2>1. w[p].pc = "claim" /\ (Put(p, r1) \/ Put(p, r2))
    BY <1>4 DEF Claim, At
  <2>2. r1.pc = "load" /\ r1.via = w[p].via /\ r2.pc = "reject" /\ r2.via = w[p].via
    BY <1>1 DEF Worker
  <2> HIDE DEF r1, r2
  <2> QED
    BY <1>1, <2>1, <2>2, GoesOn DEF InsidePCs
<1> QED
  BY <1>2, <1>3, <1>4

LEMMA AdvanceHolds ==
  ASSUME Inv, Holds, NEW p \in Workers, At(p, "handle"), lock' = lock,
         \/ \E row, c : Advance(p, row, c)
         \/ \E l \in {"schedule", "pause"} : \E row : ParkAt(p, l, row)
         \/ FailNode(p)
  PROVE  Holds'
<1>1. w[p] \in Worker /\ w[p].pc = "handle"
  BY Here DEF At
<1>2. ASSUME NEW row, NEW c, Advance(p, row, c) PROVE Holds'
  <2> DEFINE n == Target[w[p].node]
             r == [w[p] EXCEPT !.late = Ran(p), !.mc = c, !.node = n,
                               !.pc = IF n = NULL THEN "finish" ELSE "read",
                               !.mx = IF n = NULL THEN Completed(row) ELSE row]
  <2>1. Put(p, r)
    BY <1>2 DEF Advance
  <2>2. r.via = w[p].via /\ r.pc \in {"finish", "read"}
    BY <1>1 DEF Worker
  <2> HIDE DEF r
  <2> QED
    BY <1>1, <2>1, <2>2, GoesOn DEF InsidePCs
<1>3. ASSUME NEW l \in {"schedule", "pause"}, NEW row, ParkAt(p, l, row)
      PROVE  Holds'
  <2> DEFINE r == [w[p] EXCEPT !.late = Ran(p), !.pc = l, !.mx = row]
  <2>1. Put(p, r)
    BY <1>3 DEF ParkAt
  <2>2. r.via = w[p].via /\ r.pc \in {"schedule", "pause"}
    BY <1>1 DEF Worker
  <2> HIDE DEF r
  <2> QED
    BY <1>1, <2>1, <2>2, GoesOn DEF InsidePCs
<1>4. CASE FailNode(p)
  <2> DEFINE r == [w[p] EXCEPT !.late = Ran(p), !.pc = "finish",
                               !.mx = Failed(w[p].mx)]
  <2>1. Put(p, r)
    BY <1>4 DEF FailNode
  <2>2. r.via = w[p].via /\ r.pc = "finish"
    BY <1>1 DEF Worker
  <2> HIDE DEF r
  <2> QED
    BY <1>1, <2>1, <2>2, GoesOn DEF InsidePCs
<1> QED
  BY <1>2, <1>3, <1>4

LEMMA RunHolds ==
  ASSUME Inv, Holds, NEW p \in Workers,
         RunMessage(p) \/ RunInput(p) \/ RunInterval(p) \/ RunTransfer(p) \/ RunEnd(p)
  PROVE  Holds'
<1>1. At(p, "handle") /\ lock' = lock
  BY DEF RunMessage, RunInput, RunInterval, RunTransfer, RunEnd, OnNode
<1>2. \/ \E row, c : Advance(p, row, c)
      \/ \E l \in {"schedule", "pause"} : \E row : ParkAt(p, l, row)
      \/ FailNode(p)
  <2>1. CASE RunMessage(p)
    BY <2>1 DEF RunMessage
  <2>2. CASE RunInput(p)
    BY <2>2 DEF RunInput
  <2>3. CASE RunInterval(p)
    BY <2>3 DEF RunInterval
  <2>4. CASE RunTransfer(p)
    BY <2>4 DEF RunTransfer
  <2>5. CASE RunEnd(p)
    BY <2>5 DEF RunEnd
  <2> QED
    BY <2>1, <2>2, <2>3, <2>4, <2>5
<1> QED
  BY <1>1, <1>2, AdvanceHolds

LEMMA LoopHolds ==
  ASSUME Inv, Holds, NEW p \in Workers,
         \/ Reject(p) \/ Read(p) \/ Move(p) \/ Schedule(p) \/ Pause(p) \/ StoreEnd(p)
  PROVE  Holds'
<1>1. w[p] \in Worker /\ lock' = lock /\ w[p].pc \in LockedPCs
  BY Here DEF Reject, Read, Move, Schedule, Pause, StoreEnd, At
<1>2. PICK r : Put(p, r) /\ r.via = w[p].via
               /\ r.pc \in {"unlock", "move", "handle", "pause", Exit(p)}
  <2>1. ASSUME NEW l \in {"unlock", "handle", "pause", Exit(p)}, Goto(p, l)
        PROVE  \E x : Put(p, x) /\ x.via = w[p].via /\ x.pc = l
    <3> DEFINE x == [w[p] EXCEPT !.pc = l]
    <3>1. Put(p, x) /\ x.via = w[p].via /\ x.pc = l
      BY <1>1, <2>1, LabelField DEF Goto
    <3> QED
      BY <3>1
  <2>2. CASE Read(p)
    <3> DEFINE r1 == [w[p] EXCEPT !.pc = Exit(p), !.mc.active = NULL]
               r2 == [w[p] EXCEPT !.pc = "move",
                        !.mx = [exec[w[p].e] EXCEPT !.node = w[p].node]]
    <3>1. Put(p, r1) \/ Put(p, r2)
      BY <2>2 DEF Read
    <3>2. r1.pc = Exit(p) /\ r1.via = w[p].via /\ r2.pc = "move" /\ r2.via = w[p].via
      BY <1>1 DEF Worker
    <3> HIDE DEF r1, r2
    <3> QED
      BY <3>1, <3>2
  <2>3. CASE Schedule(p)
    <3>1. Goto(p, "pause") \/ Goto(p, Exit(p))
      BY <2>3 DEF Schedule
    <3> QED
      BY <2>1, <3>1
  <2>4. CASE Pause(p)
    <3> DEFINE r == [w[p] EXCEPT !.pc = Exit(p), !.mx.st = "paused"]
    <3>1. Put(p, r) /\ r.pc = Exit(p) /\ r.via = w[p].via
      BY <1>1, <2>4 DEF Pause, Worker
    <3> QED
      BY <3>1
  <2>5. CASE StoreEnd(p)
    <3> DEFINE r == [w[p] EXCEPT !.pc = Exit(p), !.mc.active = NULL]
    <3>1. Put(p, r) /\ r.pc = Exit(p) /\ r.via = w[p].via
      BY <1>1, <2>5 DEF StoreEnd, Worker
    <3> QED
      BY <3>1
  <2>6. CASE Reject(p) \/ Move(p)
    BY <2>1, <2>6 DEF Reject, Move
  <2> QED
    BY <2>2, <2>3, <2>4, <2>5, <2>6
<1>3. r.pc \in InsidePCs \ {"create"}
  BY <1>2, ExitPC DEF InsidePCs
<1> QED
  BY <1>1, <1>2, <1>3, GoesOn

(* Steps outside executeFlow.                                              *)
LEMMA FindHolds ==
  ASSUME Inv, Holds, NEW p \in Workers,
         FindPaused(p) \/ FetchFirst(p) \/ FetchSecond(p) \/ RecoverConv(p)
  PROVE  Holds'
<1>1. w[p] \in Worker /\ lock' = lock
  BY Here DEF FindPaused, FetchFirst, FetchSecond, RecoverConv
<1>2. CASE Stop(p)
  BY <1>1, <1>2, StopsOut
<1>3. CASE FindPaused(p) /\ ~Stop(p)
  <2> DEFINE r == [w[p] EXCEPT !.pc = "lock", !.via = "execute"]
             r2(e) == [w[p] EXCEPT !.pc = "resume", !.via = "resume",
                                   !.e = e, !.mx = exec[e]]
  <2>1. Put(p, r) \/ \E e \in Executions : Put(p, r2(e))
    BY <1>3 DEF FindPaused, Latest, WithStatus
  <2>2. r.pc = "lock" /\ r.via = "execute"
        /\ \A e \in Executions : r2(e).pc = "resume" /\ r2(e).via = "resume"
    BY <1>1 DEF Worker
  <2> HIDE DEF r, r2
  <2> QED
    BY <1>1, <2>1, <2>2, Leaves DEF Way
<1>4. CASE FetchFirst(p)
  <2> DEFINE r == [w[p] EXCEPT !.pc = "readConv", !.mx = exec[w[p].e]]
             r2 == [w[p] EXCEPT !.pc = "readExec", !.mc = conv]
  <2>1. Put(p, r) \/ Put(p, r2)
    BY <1>4 DEF FetchFirst
  <2>2. r.pc = "readConv" /\ r2.pc = "readExec"
    BY <1>1 DEF Worker
  <2> HIDE DEF r, r2
  <2> QED
    BY <1>1, <2>1, <2>2, Leaves DEF Way
<1>5. CASE FetchSecond(p) /\ ~Stop(p)
  <2> DEFINE r(x) == [w[p] EXCEPT !.pc = "endStale", !.mx = Completed(x)]
             r2(x, c) == [w[p] EXCEPT !.pc = "resume", !.via = "resume",
                                      !.mx = x, !.mc = c]
  <2>1. \E x, c : Put(p, r(x)) \/ Put(p, r2(x, c))
    BY <1>5 DEF FetchSecond, Decide
  <2>2. \A x, c : r(x).pc = "endStale" /\ r2(x, c).pc = "resume"
                  /\ r2(x, c).via = "resume"
    BY <1>1 DEF Worker
  <2> HIDE DEF r, r2
  <2> QED
    BY <1>1, <2>1, <2>2, Leaves DEF Way
<1>6. CASE RecoverConv(p)
  <2> DEFINE r == [w[p] EXCEPT !.pc = "resume", !.via = "resume", !.mc = conv]
  <2>1. Put(p, r) /\ r.pc = "resume" /\ r.via = "resume"
    BY <1>1, <1>6 DEF RecoverConv, Worker
  <2> QED
    BY <1>1, <2>1, Leaves DEF Way
<1> QED
  BY <1>2, <1>3, <1>4, <1>5, <1>6

(* A call that stops, or goes to a label outside executeFlow.              *)
ElsewherePCs == PCs \ (LockedPCs \cup {"lock", "resume"})

LEMMA Elsewhere ==
  ASSUME Inv, Holds, NEW p \in Workers, lock' = lock, NEW r, Put(p, r),
         r.pc \in ElsewherePCs
  PROVE  Holds'
  BY Leaves DEF ElsewherePCs, Way

LEMMA GoesElsewhere ==
  ASSUME Inv, Holds, NEW p \in Workers, lock' = lock,
         NEW l \in ElsewherePCs, Goto(p, l)
  PROVE  Holds'
<1> DEFINE r == [w[p] EXCEPT !.pc = l]
<1>1. Put(p, r) /\ r.pc = l
  BY Here, LabelField DEF Goto
<1> QED
  BY <1>1, Elsewhere

LEMMA EndOneHolds ==
  ASSUME Inv, Holds, NEW p \in Workers, lock' = lock, EndOne(p),
         w[p].pc \in ElsewherePCs
  PROVE  Holds'
<1>1. PICK e : Put(p, [w[p] EXCEPT !.todo = @ \ {e}])
  BY DEF EndOne
<1>2. [w[p] EXCEPT !.todo = @ \ {e}].pc = w[p].pc
  BY Here DEF Worker
<1> QED
  BY <1>1, <1>2, Elsewhere

USE DEF ElsewherePCs, PCs

LEMMA StoreHolds ==
  ASSUME Inv, Holds, NEW p \in Workers,
         \/ Check(p) \/ Save(p) \/ EndStale(p) \/ Clear(p) \/ Rollback(p)
         \/ FindRunning(p) \/ FindAllPaused(p) \/ TerminateEach(p)
         \/ CheckFlow(p) \/ EndFlow(p) \/ ReconnectClear(p) \/ ManualList(p)
  PROVE  Holds'
<1>1. w[p] \in Worker /\ lock' = lock
  BY Here DEF Check, Save, EndStale, Clear, Rollback, FindRunning,
    FindAllPaused, TerminateEach, CheckFlow, EndFlow, ReconnectClear, ManualList
<1>2. CASE Check(p) \/ Save(p) \/ EndStale(p) \/ Clear(p) \/ Rollback(p)
             \/ ReconnectClear(p)
  <2>1. Stop(p) \/ Goto(p, "save") \/ Goto(p, "endRunning") \/ Goto(p, "clear")
    BY <1>2 DEF Check, Save, EndStale, Clear, Rollback, ReconnectClear
  <2> QED
    BY <1>1, <2>1, StopsOut, GoesElsewhere
<1>3. CASE FindRunning(p) \/ FindAllPaused(p) \/ ManualList(p)
  <2> DEFINE r(l, S) == [w[p] EXCEPT !.pc = l, !.todo = S]
  <2>1. \E S : \/ Put(p, r("endPaused", S)) \/ Put(p, r("endEach", S))
               \/ Put(p, r("endListed", S))
    BY <1>3 DEF FindRunning, FindAllPaused, ManualList
  <2>2. \A l, S : r(l, S).pc = l
    BY <1>1 DEF Worker
  <2> HIDE DEF r
  <2> QED
    BY <1>1, <2>1, <2>2, Elsewhere
<1>4. CASE TerminateEach(p)
  BY <1>1, <1>4, EndOneHolds, GoesElsewhere DEF TerminateEach, At
<1>5. CASE CheckFlow(p)
  <2> DEFINE r(e, x) == [w[p] EXCEPT !.pc = "endFlow", !.e = e, !.mx = x]
  <2>1. Goto(p, "save") \/ \E e, x : Put(p, r(e, x))
    BY <1>5 DEF CheckFlow
  <2>2. \A e, x : r(e, x).pc = "endFlow"
    BY <1>1 DEF Worker
  <2> HIDE DEF r
  <2> QED
    BY <1>1, <2>1, <2>2, Elsewhere, GoesElsewhere
<1>6. CASE EndFlow(p)
  <2> DEFINE r == [w[p] EXCEPT !.pc = "save", !.mc.active = NULL]
  <2>1. Put(p, r) /\ r.pc = "save"
    BY <1>1, <1>6 DEF EndFlow, Worker
  <2> QED
    BY <1>1, <2>1, Elsewhere
<1> QED
  BY <1>2, <1>3, <1>4, <1>5, <1>6

LEMMA ManualEndHolds ==
  ASSUME Inv, Holds, NEW p \in Workers, ManualEnd(p) PROVE Holds'
<1> DEFINE r == [w[p] EXCEPT !.pc = "lock", !.via = "execute", !.mc.active = NULL]
<1>1. w[p] \in Worker /\ lock' = lock /\ w[p].pc = "endListed"
  BY Here DEF ManualEnd, At
<1>2. r.pc = "lock" /\ r.via = "execute"
  BY <1>1 DEF Worker
<1>3. EndOne(p) \/ Put(p, r)
  BY DEF ManualEnd
<1> HIDE DEF r
<1> QED
  BY <1>1, <1>2, <1>3, EndOneHolds, Leaves DEF Way

LEMMA ResumeFlowHolds ==
  ASSUME Inv, Holds, NEW p \in Workers, ResumeFlow(p) PROVE Holds'
<1> DEFINE row == [w[p].mx EXCEPT !.st = "running"]
           r == [w[p] EXCEPT !.pc = "load", !.mx = row, !.node = row.node]
<1>1. w[p] \in Worker /\ lock' = lock /\ w[p].via = "resume" /\ Put(p, r)
  BY Here DEF ResumeFlow, At, Holds, Way
<1>2. r.pc = "load" /\ r.via = "resume"
  BY <1>1 DEF Worker
<1> HIDE DEF r
<1> QED
  BY <1>1, <1>2, StaysOut DEF Inside, Way

LEMMA StartHolds ==
  ASSUME Inv, Holds, NEW p \in Workers, Start(p) \/ Consume(p)
  PROVE  Holds'
<1>1. CASE Reopen(p)
  <2>1. lock' = lock /\ w' = w
    BY <1>1 DEF Reopen
  <2> QED
    BY <2>1 DEF Holds, Inside, Way
<1>2. CASE TriggerLoad(p) \/ ManualLoad(p) \/ ReconnectTerminate(p)
  <2> DEFINE r0 == [Idle EXCEPT !.pc = "findPaused", !.job = "trigger",
                                 !.mc = conv, !.user = TRUE]
             r1 == [Idle EXCEPT !.pc = "listPaused", !.job = "manual", !.mc = conv]
             r2 == [Idle EXCEPT !.pc = "clearChannel", !.job = "reconnect"]
  <2>1. lock' = lock /\ (Put(p, r0) \/ Put(p, r1) \/ Put(p, r2))
    BY <1>2 DEF TriggerLoad, ManualLoad, ReconnectTerminate
  <2>2. r0.pc = "findPaused" /\ r1.pc = "listPaused" /\ r2.pc = "clearChannel"
    BY DEF Idle
  <2> HIDE DEF r0, r1, r2
  <2> QED
    BY <2>1, <2>2, Elsewhere
<1>3. ASSUME NEW e \in Executions, RecoverList(p, e) PROVE Holds'
  <2> DEFINE r0 == [Idle EXCEPT !.pc = "recoverConv", !.job = "recover",
                                 !.e = e, !.mx = exec[e]]
  <2>1. lock' = lock /\ (Put(p, r0))
    BY <1>3 DEF RecoverList
  <2>2. r0.pc = "recoverConv"
    BY DEF Idle
  <2> HIDE DEF r0
  <2> QED
    BY <2>1, <2>2, Elsewhere
<1>4. ASSUME NEW u, Assign(p, u) \/ TransferLoad(p, u) PROVE Holds'
  <2> DEFINE r(v, c) == [Idle EXCEPT !.pc = "save", !.job = "transfer",
                                     !.via = v, !.mc = c]
             r0 == [Idle EXCEPT !.pc = "endRunning", !.job = "assign"]
  <2>1. lock' = lock /\ (Put(p, r0) \/ \E v, c : Put(p, r(v, c)))
    BY <1>4 DEF Assign, TransferLoad
  <2>2. r0.pc = "endRunning" /\ \A v, c : r(v, c).pc = "save"
    BY DEF Idle
  <2> HIDE DEF r, r0
  <2> QED
    BY <2>1, <2>2, Elsewhere
<1>5. ASSUME NEW u, NEW t, ReplyLoad(p, u, t) PROVE Holds'
  <2> DEFINE r(v, c) == [Idle EXCEPT !.pc = "save", !.job = "reply",
                                     !.via = v, !.mc = c]
  <2>1. lock' = lock /\ \E v, c : Put(p, r(v, c))
    BY <1>5 DEF ReplyLoad
  <2>2. \A v, c : r(v, c).pc = "save"
    BY DEF Idle
  <2> HIDE DEF r
  <2> QED
    BY <2>1, <2>2, Elsewhere
<1>6. ASSUME NEW k, NEW st, EndConversation(p, k, st) PROVE Holds'
  <2> DEFINE l == IF conv.status # st /\ conv.active # NULL THEN "checkFlow"
                                                            ELSE "save"
             r == [Idle EXCEPT !.job = k, !.mc = [conv EXCEPT !.status = st],
                               !.pc = l]
  <2>1. lock' = lock /\ Put(p, r)
    BY <1>6 DEF EndConversation
  <2>2. r.pc \in {"checkFlow", "save"}
    BY DEF Idle
  <2> HIDE DEF r
  <2> QED
    BY <2>1, <2>2, Elsewhere
<1>7. ASSUME NEW m, Deliver(p, m) PROVE Holds'
  <2> DEFINE r0 == [Idle EXCEPT !.pc = "readBoth", !.job = "resume",
                                 !.e = m.e, !.msg = m]
  <2>1. lock' = lock /\ (Put(p, r0))
    BY <1>7 DEF Deliver
  <2>2. r0.pc = "readBoth"
    BY DEF Idle
  <2> HIDE DEF r0
  <2> QED
    BY <2>1, <2>2, Elsewhere
<1> QED
  BY <1>1, <1>2, <1>3, <1>4, <1>5, <1>6, <1>7 DEF Start, Consume

(* A throw inside executeFlow is on the way to the release of the lock; a  *)
(* crash leaves the lock to its TTL.                                       *)
LEMMA FaultHolds ==
  ASSUME Inv, Holds, NEW p \in Workers, QueryThrows(p) \/ Crash(p)
  PROVE  Holds'
<1> DEFINE r == [w[p] EXCEPT !.pc = "unlock", !.via = "throw"]
<1>1. w[p] \in Worker /\ lock' = lock
  BY Here DEF QueryThrows, Crash
<1>2. CASE Stop(p) \/ Goto(p, "rollback")
  BY <1>1, <1>2, StopsOut, GoesElsewhere
<1>3. CASE Inside(w[p]) /\ Put(p, r)
  <2>1. Way(r)
    BY <1>1 DEF Worker, Way
  <2> QED
    BY <1>1, <1>3, <2>1, StaysOut
<1> QED
  BY <1>2, <1>3 DEF QueryThrows, Crash, Inside

LEMMA NextHolds ==
  ASSUME ~SlowFlows, Inv, Holds, [Next]_vars PROVE Holds'
<1>1. CASE UNCHANGED vars \/ Tick
  <2>1. lock' = lock /\ w' = w
    BY <1>1 DEF vars, Tick
  <2> QED
    BY <2>1 DEF Holds, Inside, Way
<1>2. ASSUME NEW p \in Workers, Continue(p) PROVE Holds'
  BY <1>2, AcquireHolds, UnlockHolds, ClaimHolds, RunHolds, LoopHolds,
     FindHolds, StoreHolds, ManualEndHolds, ResumeFlowHolds DEF Continue
<1>3. ASSUME NEW p \in Workers, Step(p) PROVE Holds'
  BY <1>2, <1>3, StartHolds, FaultHolds DEF Step
<1>4. CASE LockExpires
  <2>1. w' = w /\ lock \in Workers /\ ~Inside(w[lock])
    BY <1>4 DEF LockExpires, InFlow, Inside, Inv, TypeOK
  <2>2. \A p \in Workers : ~Inside(w[p])
    BY <2>1 DEF Holds
  <2> QED
    BY <2>1, <2>2 DEF Holds, Inside, Way
<1> QED
  BY <1>1, <1>3, <1>4 DEF Next

(* When no flow outlives the TTL of its lock, two calls never run          *)
(* executeFlow for the conversation at once, whoever starts them and       *)
(* whatever crashes or throws: only the holder, or the TTL of a holder     *)
(* that is gone, frees the lock.                                           *)
THEOREM LockExcludes ==
  ASSUME ~SlowFlows PROVE Spec => []OneFlowAtATime
<1>1. Init => Holds
  <2>1. ~Inside(Idle) /\ Way(Idle)
    BY DEF Idle, Inside, Way
  <2>2. ASSUME Init, NEW p \in Workers PROVE w[p] = Idle
    BY <2>2 DEF Init
  <2> QED
    BY <2>1, <2>2 DEF Holds
<1>2. Inv /\ Holds /\ [Next]_vars => Holds'
  BY NextHolds
<1>3. Holds => OneFlowAtATime
  BY DEF Holds, Inside, OneFlowAtATime, InFlow
<1> QED
  BY InvHolds, <1>1, <1>2, <1>3, PTL DEF Spec

-----------------------------------------------------------------------------
(* The wake-up.  Wakes is inductive together with Inv as long as a         *)
(* recovery that gives up has its interval behind it (Rescues): an         *)
(* interval that is not over has its message in the queue, or with a       *)
(* consumer that is bound to take the execution out of its pause, or to    *)
(* end it (Carries).                                                       *)

NoRecovery == \A p \in Workers : "recover" \notin Jobs[p]

CarryPCs == {"readBoth", "readExec", "readConv", "endStale", "resume"}
BeforeExec ==
  {"idle", "findPaused", "lock", "create", "listPaused", "endListed", "checkFlow"}
StagePCs == {"move", "handle", "schedule", "pause"}
RecoveryPCs == {"recoverConv", "rollback"}
ReadPCs == {"readBoth", "readExec", "readConv"}

Over(x, t) == \A n \in Intervals : x.due[n] = NULL \/ x.due[n] <= t
Waits(x, t) ==
  /\ x.st = "paused" /\ x.node \in Intervals
  /\ x.due[x.node] # NULL /\ x.due[x.node] > t

Carries(x, e) ==
  /\ x.msg # NULL /\ x.e = e
  /\ \/ x.pc \in CarryPCs \ {"readConv"}
     \/ x.pc = "readConv" /\ x.mx.st = "paused"

Coming(e) ==
  (\E m \in queue : m.e = e) \/ \E p \in Workers : Carries(w[p], e)

(* A call about to store the pause of an interval has published for it; a  *)
(* recovery about to put its pause back does not wait for anything.        *)
CallOK(x, q, t) ==
  /\ NoRecovery => x.pc = "idle" \/ x.job # "recover"
  /\ NoRecovery => x.pc \notin RecoveryPCs
  /\ x.pc = "rollback" => ~Waits([x.mx EXCEPT !.st = "paused"], t)
  /\ x.msg # NULL => x.msg.e = x.e /\ x.pc \notin BeforeExec
  /\ x.pc \in StagePCs => x.mx.node = x.node
  /\ /\ x.pc = "pause" /\ x.node \in Intervals
     /\ x.mx.due[x.node] # NULL /\ x.mx.due[x.node] > t
     => \E m \in q : m.e = x.e /\ m.at > t

Wakes ==
  /\ \A e \in Executions : Waits(exec[e], clock) => Coming(e)
  /\ \A p \in Workers : CallOK(w[p], queue, clock)

(* The intervals of a recovery that may still fail are over.               *)
Rescues ==
  \A p \in Workers :
    w[p].job = "recover" /\ w[p].pc \in {"load", "read", "move"}
    /\ faults < MaxFaults => Over(w[p].mx, clock)

(* No execution is paused by the step.                                     *)
NoPause ==
  \A e \in Executions : exec'[e] = exec[e] \/ exec'[e].st # "paused"

LEMMA SameNoPause == ASSUME exec' = exec PROVE NoPause
  BY DEF NoPause

LEMMA UpdateNoPause ==
  ASSUME Inv, NEW e \in Executions, NEW row, row.st # "paused", Update(e, row)
  PROVE  /\ NoPause
         /\ exec[e].st = "paused" /\ row.st \in Terminal \cup Live
              => exec'[e].st # "paused"
  BY DEF Inv, TypeOK, Update, NoPause, CanTransitionFrom

LEMMA WakeHere ==
  ASSUME Inv, Wakes, NEW p \in Workers
  PROVE  /\ w \in [Workers -> Worker] /\ w[p] \in Worker /\ LocalOK(w[p])
         /\ CallOK(w[p], queue, clock)
         /\ clock \in Nat /\ exec \in [Executions -> ExecRow]
         /\ \A e \in Executions : exec[e] \in ExecRow
  BY FlowAssumption, Here DEF Inv, TypeOK, Wakes

(* What a step of p has to show: it drops no message that is still needed. *)
LEMMA PutWakes ==
  ASSUME Inv, Wakes, NEW p \in Workers, NEW r, Put(p, r), NoPause,
         queue \subseteq queue', clock' = clock, CallOK(r, queue', clock),
         \A e \in Executions :
           Carries(w[p], e) => \/ Carries(r, e) \/ exec'[e].st # "paused"
                               \/ \E m \in queue' : m.e = e
  PROVE  Wakes'
<1>1. w' = [w EXCEPT ![p] = r] /\ w \in [Workers -> Worker]
  BY WakeHere DEF Put
<1>2. ASSUME NEW q \in Workers PROVE CallOK(w'[q], queue', clock')
  <2>1. CASE q = p
    BY <1>1, <2>1
  <2>2. CASE q # p
    <3>1. CallOK(w[q], queue, clock) /\ w'[q] = w[q]
      BY <1>1, <2>2, WakeHere
    <3> QED
      BY <3>1 DEF CallOK
  <2> QED
    BY <2>1, <2>2
<1>3. ASSUME NEW e \in Executions, Waits(exec'[e], clock') PROVE Coming(e)'
  <2>1. exec'[e].st = "paused" /\ Waits(exec[e], clock)
    BY <1>3 DEF Waits, NoPause
  <2>2. CASE \E m \in queue : m.e = e
    BY <2>2 DEF Coming
  <2>3. ASSUME NEW q \in Workers, Carries(w[q], e) PROVE Coming(e)'
    <3>1. CASE q = p
      BY <1>1, <2>1, <2>3, <3>1 DEF Coming
    <3>2. CASE q # p
      BY <1>1, <2>3, <3>2 DEF Coming
    <3> QED
      BY <3>1, <3>2
  <2> QED
    BY <2>1, <2>2, <2>3 DEF Wakes, Coming
<1> QED
  BY <1>2, <1>3 DEF Wakes

(* A call that carries nothing, before and after.                          *)
LEMMA FreeWakes ==
  ASSUME Inv, Wakes, NEW p \in Workers, NEW r, Put(p, r), NoPause,
         queue \subseteq queue', clock' = clock, w[p].pc \notin CarryPCs,
         r.msg = NULL, NoRecovery => r.pc = "idle" \/ r.job # "recover",
         NoRecovery => r.pc \notin RecoveryPCs,
         r.pc \notin StagePCs \cup {"rollback"}
  PROVE  Wakes'
<1>1. CallOK(r, queue', clock)
  BY DEF CallOK, StagePCs
<1>2. \A e \in Executions : ~Carries(w[p], e)
  BY DEF Carries, CarryPCs
<1> QED
  BY <1>1, <1>2, PutWakes

(* A consumer that has decided keeps its message until its job is done.    *)
OnPCs == PCs \ (StagePCs \cup RecoveryPCs \cup BeforeExec)

LEMMA OnWakes ==
  ASSUME Inv, Wakes, NEW p \in Workers, NEW r, Put(p, r), NoPause,
         queue \subseteq queue', clock' = clock,
         w[p].pc \notin CarryPCs \cup {"idle"},
         r.msg = w[p].msg, r.e = w[p].e, r.job = w[p].job, r.pc \in OnPCs
  PROVE  Wakes'
<1>1. CallOK(r, queue', clock)
  BY WakeHere DEF CallOK, StagePCs, RecoveryPCs, OnPCs
<1>2. \A e \in Executions : ~Carries(w[p], e)
  BY DEF Carries, CarryPCs
<1> QED
  BY <1>1, <1>2, PutWakes

LEMMA StopWakes ==
  ASSUME Inv, Wakes, NEW p \in Workers, Stop(p), NoPause,
         queue \subseteq queue', clock' = clock, w[p].pc \notin CarryPCs
  PROVE  Wakes'
  BY FreeWakes DEF Stop, Idle, StagePCs, RecoveryPCs

LEMMA GotoWakes ==
  ASSUME Inv, Wakes, NEW p \in Workers, NEW l \in OnPCs, Goto(p, l), NoPause,
         queue \subseteq queue', clock' = clock,
         w[p].pc \notin CarryPCs \cup {"idle"}
  PROVE  Wakes'
<1> DEFINE r == [w[p] EXCEPT !.pc = l]
<1>1. /\ Put(p, r) /\ r.pc = l /\ r.msg = w[p].msg /\ r.e = w[p].e
      /\ r.job = w[p].job
  BY WakeHere DEF Goto, Worker
<1> HIDE DEF r
<1> QED
  BY <1>1, OnWakes

USE DEF OnPCs, StagePCs, RecoveryPCs, BeforeExec, CarryPCs

LEMMA CreateWakes ==
  ASSUME Inv, Wakes, NEW p \in Workers, Create(p) PROVE Wakes'
<1>0. \E e \in Fresh :
        /\ exec' = [exec EXCEPT ![e] = FirstRow]
        /\ Put(p, [w[p] EXCEPT !.pc = "claim", !.e = e, !.mx = FirstRow])
  BY Zenon DEF Create
<1>1. PICK e \in Fresh :
        /\ exec' = [exec EXCEPT ![e] = FirstRow]
        /\ Put(p, [w[p] EXCEPT !.pc = "claim", !.e = e, !.mx = FirstRow])
  BY <1>0, Zenon
<1>2. w[p].pc = "create" /\ queue' = queue /\ clock' = clock
  BY DEF Create, At
<1> DEFINE r == [w[p] EXCEPT !.pc = "claim", !.e = e, !.mx = FirstRow]
<1>3. r.pc = "claim" /\ r.msg = w[p].msg /\ r.job = w[p].job
  BY WakeHere DEF Worker
<1>4. w[p].msg = NULL /\ (NoRecovery => w[p].job # "recover")
  BY <1>2, WakeHere DEF CallOK
<1>5. NoPause
  BY <1>1, WakeHere DEF NoPause, FirstRow, NoRow
<1>6. Put(p, r)
  BY <1>1
<1> HIDE DEF r
<1> QED
  BY <1>2, <1>3, <1>4, <1>5, <1>6, FreeWakes

LEMMA ClaimWakes ==
  ASSUME Inv, Wakes, NEW p \in Workers,
         Acquire(p) \/ FlowMissing(p) \/ Claim(p)
  PROVE  Wakes'
<1>1. /\ w[p] \in Worker /\ CallOK(w[p], queue, clock)
      /\ queue' = queue /\ clock' = clock
  BY WakeHere DEF Acquire, FlowMissing, Claim
<1>2. CASE Acquire(p)
  <2> DEFINE r == [w[p] EXCEPT !.pc = "create"]
  <2>1. NoPause /\ w[p].pc = "lock" /\ w[p].msg = NULL
    BY <1>1, <1>2, SameNoPause DEF Acquire, At, CallOK
  <2>2. r.pc = "create" /\ r.msg = w[p].msg /\ r.job = w[p].job
    BY <1>1 DEF Worker
  <2>3. Put(p, r) \/ Goto(p, Return(p))
    BY <1>2 DEF Acquire, Goto
  <2>4. Return(p) \in OnPCs
    BY DEF Return
  <2> HIDE DEF r
  <2> QED
    BY <1>1, <2>1, <2>2, <2>3, <2>4, FreeWakes, GotoWakes DEF CallOK
<1>3. CASE FlowMissing(p)
  <2> DEFINE r == [w[p] EXCEPT !.pc = "unlock", !.via = "throw"]
  <2>1. /\ Put(p, r) /\ r.pc = "unlock" /\ r.msg = w[p].msg /\ r.e = w[p].e
        /\ r.job = w[p].job /\ w[p].pc = "create" /\ NoPause
    BY <1>1, <1>3, SameNoPause DEF FlowMissing, At, Worker
  <2> HIDE DEF r
  <2> QED
    BY <1>1, <2>1, OnWakes
<1>4. CASE Claim(p)
  <2> DEFINE r1 == [w[p] EXCEPT !.pc = "load", !.node = StartNode,
                                !.mc.active = w[p].e]
             r2 == [w[p] EXCEPT !.pc = "reject", !.mx = Failed(w[p].mx)]
  <2>1. w[p].pc = "claim" /\ (Put(p, r1) \/ Put(p, r2)) /\ NoPause
    BY <1>4, SameNoPause DEF Claim, At
  <2>2. /\ r1.pc = "load" /\ r1.msg = w[p].msg /\ r1.e = w[p].e /\ r1.job = w[p].job
        /\ r2.pc = "reject" /\ r2.msg = w[p].msg /\ r2.e = w[p].e
        /\ r2.job = w[p].job
    BY <1>1 DEF Worker
  <2> HIDE DEF r1, r2
  <2> QED
    BY <1>1, <2>1, <2>2, OnWakes
<1> QED
  BY <1>2, <1>3, <1>4

LEMMA EndWakes ==
  ASSUME Inv, Wakes, NEW p \in Workers,
         Reject(p) \/ Unlock(p) \/ StoreEnd(p)
  PROVE  Wakes'
<1>1. /\ w[p] \in Worker /\ LocalOK(w[p])
      /\ queue' = queue /\ clock' = clock
  BY WakeHere DEF Reject, Unlock, StoreEnd
<1>2. CASE Reject(p)
  <2>1. /\ w[p].pc = "reject" /\ w[p].e \in Executions
        /\ w[p].mx.st # "paused" /\ Update(w[p].e, w[p].mx) /\ Goto(p, "unlock")
    BY <1>1, <1>2 DEF Reject, At, LocalOK
  <2> QED
    BY <1>1, <2>1, UpdateNoPause, GotoWakes
<1>3. CASE Unlock(p)
  <2>1. w[p].pc = "unlock" /\ NoPause /\ (Stop(p) \/ Goto(p, Return(p)))
    BY <1>3, SameNoPause DEF Unlock, At
  <2>2. Return(p) \in OnPCs
    BY DEF Return
  <2> QED
    BY <1>1, <2>1, <2>2, StopWakes, GotoWakes
<1>4. CASE StoreEnd(p)
  <2> DEFINE r == [w[p] EXCEPT !.pc = Exit(p), !.mc.active = NULL]
  <2>1. /\ w[p].pc = "finish" /\ w[p].e \in Executions
        /\ w[p].mx.st # "paused" /\ Update(w[p].e, w[p].mx) /\ Put(p, r)
    BY <1>1, <1>4 DEF StoreEnd, At, LocalOK
  <2>2. /\ r.pc = Exit(p) /\ r.msg = w[p].msg /\ r.e = w[p].e /\ r.job = w[p].job
    BY <1>1 DEF Worker
  <2>3. r.pc \in OnPCs
    BY <2>2, ExitPC
  <2> HIDE DEF r
  <2> QED
    BY <1>1, <2>1, <2>2, <2>3, UpdateNoPause, OnWakes
<1> QED
  BY <1>2, <1>3, <1>4

(* Whoever resumes an execution takes it out of its pause.                 *)
LEMMA ResumeWakes ==
  ASSUME Inv, Wakes, NEW p \in Workers, ResumeFlow(p) PROVE Wakes'
<1> DEFINE row == [w[p].mx EXCEPT !.st = "running"]
           r == [w[p] EXCEPT !.pc = "load", !.mx = row, !.node = row.node]
<1>1. /\ w[p] \in Worker /\ LocalOK(w[p]) /\ CallOK(w[p], queue, clock)
      /\ queue' = queue /\ clock' = clock /\ w[p].pc = "resume"
      /\ Put(p, r) /\ Update(w[p].e, row)
  BY WakeHere DEF ResumeFlow, At
<1>2. row.st = "running" /\ w[p].e \in Executions
  BY <1>1, Here DEF LocalOK, ExecRow
<1>3. r.pc = "load" /\ r.msg = w[p].msg /\ r.e = w[p].e /\ r.job = w[p].job
  BY <1>1 DEF Worker
<1> HIDE DEF row, r
<1>4. NoPause /\ exec'[w[p].e].st # "paused"
  BY <1>1, <1>2, UpdateNoPause DEF NoPause
<1>5. CallOK(r, queue', clock)
  BY <1>1, <1>3 DEF CallOK
<1>6. \A e \in Executions : Carries(w[p], e) => e = w[p].e
  BY DEF Carries
<1> QED
  BY <1>1, <1>4, <1>5, <1>6, PutWakes

LEMMA LoopWakes ==
  ASSUME Inv, Wakes, NEW p \in Workers, Read(p) \/ Move(p)
  PROVE  Wakes'
<1>1. /\ w[p] \in Worker /\ LocalOK(w[p]) /\ CallOK(w[p], queue, clock)
      /\ queue' = queue /\ clock' = clock /\ w[p].pc \in {"load", "read", "move"}
      /\ \A e \in Executions : ~Carries(w[p], e)
  BY WakeHere DEF Read, Move, At, Carries
<1>2. CASE Read(p)
  <2> DEFINE r1 == [w[p] EXCEPT !.pc = Exit(p), !.mc.active = NULL]
             x == [exec[w[p].e] EXCEPT !.node = w[p].node]
             r2 == [w[p] EXCEPT !.pc = "move", !.mx = x]
  <2>1. (Put(p, r1) \/ Put(p, r2)) /\ NoPause /\ w[p].pc \in {"load", "read"}
    BY <1>2, SameNoPause DEF Read
  <2>2. x.node = w[p].node
    BY <1>1, <2>1, Here DEF LocalOK, ExecRow
  <2> HIDE DEF x
  <2>3. /\ r1.pc = Exit(p) /\ r1.msg = w[p].msg /\ r1.e = w[p].e
        /\ r1.job = w[p].job
        /\ r2.pc = "move" /\ r2.msg = w[p].msg /\ r2.e = w[p].e
        /\ r2.job = w[p].job /\ r2.mx = x /\ r2.node = w[p].node
    BY <1>1 DEF Worker
  <2>4. r1.pc \in OnPCs
    BY <2>3, ExitPC
  <2> HIDE DEF r1, r2
  <2>5. CallOK(r2, queue', clock)
    BY <1>1, <2>1, <2>2, <2>3 DEF CallOK
  <2> QED
    BY <1>1, <2>1, <2>3, <2>4, <2>5, OnWakes, PutWakes
<1>3. CASE Move(p)
  <2> DEFINE r == [w[p] EXCEPT !.pc = "handle"]
  <2>1. /\ w[p].pc = "move" /\ w[p].e \in Executions /\ Put(p, r)
        /\ Update(w[p].e, w[p].mx) /\ w[p].mx.st # "paused"
    BY <1>1, <1>3 DEF Move, Goto, At, LocalOK
  <2>2. /\ r.pc = "handle" /\ r.msg = w[p].msg /\ r.e = w[p].e
        /\ r.job = w[p].job /\ r.mx = w[p].mx /\ r.node = w[p].node
    BY <1>1 DEF Worker
  <2> HIDE DEF r
  <2>3. CallOK(r, queue', clock)
    BY <1>1, <2>1, <2>2 DEF CallOK
  <2>4. NoPause
    BY <2>1, UpdateNoPause
  <2> QED
    BY <1>1, <2>1, <2>3, <2>4, PutWakes
<1> QED
  BY <1>2, <1>3

-----------------------------------------------------------------------------
(* The node handlers and the two statements of an interval's pause.        *)

LEMMA HandledWakes ==
  ASSUME Inv, Wakes, NEW p \in Workers, w[p].pc = "handle",
         UNCHANGED <<exec, queue, clock>>,
         (\E row, c : Advance(p, row, c)) \/ FailNode(p)
  PROVE  Wakes'
<1>1. w[p] \in Worker /\ NoPause /\ queue \subseteq queue'
  BY WakeHere, SameNoPause
<1>2. ASSUME NEW row, NEW c, Advance(p, row, c) PROVE Wakes'
  <2> DEFINE n == Target[w[p].node]
             l == IF n = NULL THEN "finish" ELSE "read"
             x == IF n = NULL THEN Completed(row) ELSE row
             r == [w[p] EXCEPT !.late = Ran(p), !.mc = c, !.node = n,
                               !.pc = l, !.mx = x]
  <2>1. Put(p, r)
    BY <1>2, Zenon DEF Advance
  <2>2. l \in {"finish", "read"}
    OBVIOUS
  <2> HIDE DEF n, l, x
  <2>3. /\ Put(p, r) /\ r.pc \in {"finish", "read"} /\ r.msg = w[p].msg
        /\ r.e = w[p].e /\ r.job = w[p].job
    BY <1>1, <2>1, <2>2 DEF Worker
  <2> HIDE DEF r
  <2> QED
    BY <1>1, <2>3, OnWakes
<1>3. CASE FailNode(p)
  <2> DEFINE r == [w[p] EXCEPT !.late = Ran(p), !.pc = "finish",
                               !.mx = Failed(w[p].mx)]
  <2>1. /\ Put(p, r) /\ r.pc = "finish" /\ r.msg = w[p].msg
        /\ r.e = w[p].e /\ r.job = w[p].job
    BY <1>1, <1>3 DEF FailNode, Worker
  <2> HIDE DEF r
  <2> QED
    BY <1>1, <2>1, OnWakes
<1> QED
  BY <1>2, <1>3

LEMMA ParkedWakes ==
  ASSUME Inv, Wakes, NEW p \in Workers, w[p].pc = "handle",
         UNCHANGED <<exec, queue, clock>>,
         NEW label \in {"schedule", "pause"}, NEW row, ParkAt(p, label, row),
         row.node = w[p].mx.node,
         label = "pause" => w[p].node \notin Intervals
  PROVE  Wakes'
<1> DEFINE r == [w[p] EXCEPT !.late = Ran(p), !.pc = label, !.mx = row]
<1>1. /\ w[p] \in Worker /\ CallOK(w[p], queue, clock) /\ NoPause
      /\ queue \subseteq queue' /\ Put(p, r)
  BY WakeHere, SameNoPause DEF ParkAt
<1>2. /\ r.pc = label /\ r.msg = w[p].msg /\ r.e = w[p].e
      /\ r.job = w[p].job /\ r.mx = row /\ r.node = w[p].node
  BY <1>1 DEF Worker
<1> HIDE DEF r
<1>3. CallOK(r, queue', clock)
  BY <1>1, <1>2 DEF CallOK
<1>4. \A e \in Executions : ~Carries(w[p], e)
  BY DEF Carries
<1> QED
  BY <1>1, <1>3, <1>4, PutWakes

LEMMA NodeWakes ==
  ASSUME Inv, Wakes, NEW p \in Workers,
         \/ RunMessage(p) \/ RunInput(p) \/ RunInterval(p)
         \/ RunTransfer(p) \/ RunEnd(p)
  PROVE  Wakes'
<1>1. /\ w[p].pc = "handle" /\ UNCHANGED <<exec, queue, clock>>
      /\ w[p].mx \in ExecRow /\ w[p].node \in Nodes
  <2>1. w[p].pc = "handle" /\ UNCHANGED <<exec, queue, clock>>
    BY DEF RunMessage, RunInput, RunInterval, RunTransfer, RunEnd, OnNode, At
  <2> QED
    BY <2>1, Here DEF LocalOK
<1>2. CASE RunMessage(p) \/ RunTransfer(p) \/ RunEnd(p)
  BY <1>1, <1>2, HandledWakes DEF RunMessage, RunTransfer, RunEnd
<1>3. CASE RunInput(p)
  <2> DEFINE n == w[p].node
             x == w[p].mx
             asks == [x EXCEPT !.asked = @ \cup {n}]
  <2>1. n \notin Intervals
    BY <1>3 DEF RunInput, OnNode, Intervals
  <2>2. asks.node = x.node
    BY <1>1 DEF ExecRow
  <2>3. \/ \E row, c : Advance(p, row, c)
        \/ FailNode(p)
        \/ ParkAt(p, "pause", x)
        \/ ParkAt(p, "pause", asks)
    BY <1>3 DEF RunInput
  <2> HIDE DEF n, x, asks
  <2> QED
    BY <1>1, <2>1, <2>2, <2>3, HandledWakes, ParkedWakes DEF n, x
<1>4. CASE RunInterval(p)
  <2> DEFINE n == w[p].node
             x == w[p].mx
             waits == [x EXCEPT !.due[n] = clock + Delay]
  <2>1. waits.node = x.node
    BY <1>1 DEF ExecRow
  <2>2. \/ \E row, c : Advance(p, row, c)
        \/ ParkAt(p, "schedule", x)
        \/ ParkAt(p, "schedule", waits)
    BY <1>4 DEF RunInterval
  <2> HIDE DEF waits
  <2> QED
    BY <1>1, <2>1, <2>2, HandledWakes, ParkedWakes
<1> QED
  BY <1>2, <1>3, <1>4

LEMMA PublishAhead ==
  ASSUME Inv, NEW p \in Workers, Publish(p)
  PROVE  /\ queue \subseteq queue'
         /\ \E m \in queue' : m.e = w[p].e /\ m.at > clock
<1>1. clock \in Nat
  BY FlowAssumption DEF Inv, TypeOK
<1>2. PICK ttl \in NormalizeDelay(w[p].mx.due[w[p].node] - clock) :
        queue' = queue \cup {[e |-> w[p].e, at |-> clock + ttl]}
  BY DEF Publish
<1> DEFINE m == [e |-> w[p].e, at |-> clock + ttl]
<1>3. ttl \in Nat \ {0}
  BY FlowAssumption DEF NormalizeDelay
<1>4. m \in queue' /\ m.e = w[p].e /\ m.at > clock
  BY <1>1, <1>2, <1>3
<1> HIDE DEF m
<1> QED
  BY <1>2, <1>4

LEMMA ScheduleWakes ==
  ASSUME Inv, Wakes, NEW p \in Workers, Schedule(p) PROVE Wakes'
<1>1. /\ w[p] \in Worker /\ CallOK(w[p], queue, clock) /\ NoPause
      /\ w[p].pc = "schedule" /\ clock' = clock /\ clock \in Nat
      /\ \A e \in Executions : ~Carries(w[p], e)
  BY WakeHere, SameNoPause DEF Schedule, At, Carries
<1> DEFINE due == w[p].mx.due[w[p].node]
           r == [w[p] EXCEPT !.pc = "pause"]
<1>2. queue \subseteq queue'
  BY PublishAhead DEF Schedule
<1>3. /\ r.pc = "pause" /\ r.msg = w[p].msg /\ r.e = w[p].e
      /\ r.job = w[p].job /\ r.mx = w[p].mx /\ r.node = w[p].node
  BY <1>1 DEF Worker
<1>4. \/ due <= clock /\ Put(p, r)
      \/ due > clock /\ Publish(p) /\ Put(p, r)
      \/ Goto(p, Exit(p))
  BY DEF Schedule, Goto
<1> HIDE DEF r
<1>5. CASE Goto(p, Exit(p))
  BY <1>1, <1>2, <1>5, ExitPC, GotoWakes
<1>6. CASE due <= clock /\ Put(p, r)
  <2>1. w[p].mx.due[w[p].node] \in Nat
    BY <1>1, Here DEF LocalOK, ExecRow, Times
  <2>2. CallOK(r, queue', clock)
    BY <1>1, <1>3, <1>6, <2>1 DEF CallOK
  <2> QED
    BY <1>1, <1>2, <1>6, <2>2, PutWakes
<1>7. CASE Publish(p) /\ Put(p, r)
  <2>1. CallOK(r, queue', clock)
    BY <1>1, <1>3, <1>7, PublishAhead DEF CallOK
  <2> QED
    BY <1>1, <1>2, <1>7, <2>1, PutWakes
<1> QED
  BY <1>4, <1>5, <1>6, <1>7

(* The one step that pauses an execution.                                  *)
LEMMA PauseWakes ==
  ASSUME Inv, Wakes, NEW p \in Workers, Pause(p) PROVE Wakes'
<1> DEFINE row == [w[p].mx EXCEPT !.st = "paused"]
           r == [w[p] EXCEPT !.pc = Exit(p), !.mx.st = "paused"]
<1>1. /\ w[p] \in Worker /\ CallOK(w[p], queue, clock) /\ w[p].pc = "pause"
      /\ w[p].e \in Executions /\ w[p].mx \in ExecRow
      /\ clock' = clock /\ queue' = queue /\ Put(p, r) /\ Update(w[p].e, row)
      /\ w \in [Workers -> Worker] /\ exec \in [Executions -> ExecRow]
  BY WakeHere, Here DEF Pause, At, LocalOK
<1>2. /\ r.pc \in {"unlock", "check", "save"} /\ r.msg = w[p].msg
      /\ r.e = w[p].e /\ r.job = w[p].job
  BY <1>1, ExitPC DEF Worker
<1>3. row.node = w[p].node /\ row.due = w[p].mx.due
  BY <1>1 DEF ExecRow, CallOK
<1> HIDE DEF r, row
<1>4. ASSUME NEW q \in Workers PROVE CallOK(w'[q], queue', clock')
  <2>1. CASE q = p
    BY <1>1, <1>2, <2>1 DEF Put, CallOK
  <2>2. CASE q # p
    BY <1>1, <2>2 DEF Put, Wakes
  <2> QED
    BY <2>1, <2>2
<1>5. ASSUME NEW e \in Executions, Waits(exec'[e], clock') PROVE Coming(e)'
  <2>1. CASE exec'[e] = exec[e]
    <3>1. Coming(e)
      BY <1>1, <1>5, <2>1 DEF Wakes
    <3>2. \A q \in Workers : Carries(w[q], e) => w'[q] = w[q]
      BY <1>1 DEF Put, Carries
    <3> QED
      BY <1>1, <3>1, <3>2 DEF Coming
  <2>2. CASE exec'[e] # exec[e]
    <3>1. e = w[p].e /\ exec'[e] = row
      BY <1>1, <2>2 DEF Update
    <3>2. /\ w[p].node \in Intervals /\ w[p].mx.due[w[p].node] # NULL
          /\ w[p].mx.due[w[p].node] > clock
      BY <1>1, <1>3, <1>5, <3>1 DEF Waits
    <3> QED
      BY <1>1, <3>1, <3>2 DEF CallOK, Coming
  <2> QED
    BY <2>1, <2>2
<1> QED
  BY <1>4, <1>5 DEF Wakes

-----------------------------------------------------------------------------
(* The trigger, the consumer and the saves.                                *)

LEMMA TriggerWakes ==
  ASSUME Inv, Wakes, NEW p \in Workers,
         TriggerLoad(p) \/ FindPaused(p) \/ Check(p) \/ Save(p)
  PROVE  Wakes'
<1>0. UNCHANGED <<exec, queue, clock>>
  BY Zenon DEF TriggerLoad, FindPaused, Check, Save
<1>1. /\ w[p] \in Worker /\ CallOK(w[p], queue, clock) /\ NoPause
      /\ queue' = queue /\ clock' = clock
  BY <1>0, WakeHere, SameNoPause
<1>2. CASE TriggerLoad(p)
  <2> DEFINE r == [Idle EXCEPT !.pc = "findPaused", !.job = "trigger",
                               !.mc = conv, !.user = TRUE]
  <2>1. w[p].pc = "idle" /\ Put(p, r)
    BY <1>2 DEF TriggerLoad, Begin, At
  <2>2. r.pc = "findPaused" /\ r.msg = NULL /\ r.job = "trigger"
    BY DEF Idle
  <2> HIDE DEF r
  <2> QED
    BY <1>1, <2>1, <2>2, FreeWakes
<1>3. CASE FindPaused(p)
  <2>0. w[p].pc = "findPaused"
    BY <1>3, Zenon DEF FindPaused, At
  <2>1. /\ w[p].pc = "findPaused" /\ w[p].msg = NULL
        /\ NoRecovery => w[p].job # "recover"
    BY <1>1, <2>0 DEF CallOK
  <2> DEFINE r1(e) == [w[p] EXCEPT !.pc = "resume", !.via = "resume",
                                   !.e = e, !.mx = exec[e]]
             r2 == [w[p] EXCEPT !.pc = "lock", !.via = "execute"]
  <2>2. Stop(p) \/ (\E e : Put(p, r1(e))) \/ Put(p, r2)
    BY <1>3, Zenon DEF FindPaused
  <2>3. /\ r2.pc = "lock" /\ r2.msg = NULL /\ r2.job = w[p].job
        /\ \A e : /\ r1(e).pc = "resume" /\ r1(e).msg = NULL
                  /\ r1(e).job = w[p].job
    BY <1>1, <2>1 DEF Worker
  <2> HIDE DEF r1, r2
  <2> QED
    BY <1>1, <2>1, <2>2, <2>3, FreeWakes, StopWakes
<1>4. CASE Check(p)
  <2>1. w[p].pc = "check" /\ (Stop(p) \/ Goto(p, "save"))
    BY <1>4 DEF Check, At
  <2> QED
    BY <1>1, <2>1, StopWakes, GotoWakes
<1>5. CASE Save(p)
  <2>1. w[p].pc = "save" /\ (Stop(p) \/ Goto(p, "endRunning"))
    BY <1>5 DEF Save, At
  <2> QED
    BY <1>1, <2>1, StopWakes, GotoWakes
<1> QED
  BY <1>2, <1>3, <1>4, <1>5

(* The delivered message is in its consumer's hands.                       *)
LEMMA DeliverWakes ==
  ASSUME Inv, Wakes, NULL \notin Message, NEW p \in Workers, NEW m \in queue,
         Deliver(p, m)
  PROVE  Wakes'
<1> DEFINE r == [Idle EXCEPT !.pc = "readBoth", !.job = "resume", !.e = m.e,
                             !.msg = m]
<1>1. /\ w[p].pc = "idle" /\ Put(p, r) /\ queue' = queue \ {m}
      /\ exec' = exec /\ clock' = clock /\ clock \in Nat
      /\ w \in [Workers -> Worker]
  BY WakeHere DEF Deliver, Begin, At
<1>2. m.at \in Nat /\ m.at <= clock /\ m # NULL
  BY DEF Deliver, Inv, TypeOK, Message
<1>3. r.pc = "readBoth" /\ r.job = "resume" /\ r.e = m.e /\ r.msg = m
  BY DEF Idle
<1> HIDE DEF r
<1>4. ASSUME NEW q \in Workers PROVE CallOK(w'[q], queue', clock')
  <2>1. CASE q = p
    BY <1>1, <1>3, <2>1 DEF Put, CallOK
  <2>2. CASE q # p
    <3>1. CallOK(w[q], queue, clock) /\ w'[q] = w[q]
      BY <1>1, <2>2 DEF Put, Wakes
    <3>2. \A k \in queue : k.at > clock => k \in queue'
      BY <1>1, <1>2
    <3> QED
      BY <1>1, <3>1, <3>2 DEF CallOK
  <2> QED
    BY <2>1, <2>2
<1>5. ASSUME NEW e \in Executions, Waits(exec'[e], clock') PROVE Coming(e)'
  <2>1. Coming(e)
    BY <1>1, <1>5 DEF Wakes
  <2>2. CASE e = m.e
    <3>1. Carries(w'[p], e)
      BY <1>1, <1>2, <1>3, <2>2 DEF Put, Carries
    <3> QED
      BY <3>1 DEF Coming
  <2>3. CASE e # m.e
    <3>1. \A q \in Workers : Carries(w[q], e) => w'[q] = w[q]
      BY <1>1 DEF Put, Carries
    <3> QED
      BY <1>1, <2>1, <2>3, <3>1 DEF Coming
  <2> QED
    BY <2>2, <2>3
<1> QED
  BY <1>4, <1>5 DEF Wakes

LEMMA FetchFirstWakes ==
  ASSUME Inv, Wakes, NEW p \in Workers, FetchFirst(p) PROVE Wakes'
<1> DEFINE r1 == [w[p] EXCEPT !.pc = "readConv", !.mx = exec[w[p].e]]
           r2 == [w[p] EXCEPT !.pc = "readExec", !.mc = conv]
<1>1. /\ w[p] \in Worker /\ CallOK(w[p], queue, clock) /\ NoPause
      /\ queue' = queue /\ clock' = clock /\ exec' = exec
      /\ w[p].pc = "readBoth" /\ (Put(p, r1) \/ Put(p, r2))
  BY WakeHere, SameNoPause DEF FetchFirst, At
<1>2. /\ r1.pc = "readConv" /\ r1.msg = w[p].msg /\ r1.e = w[p].e
      /\ r1.job = w[p].job /\ r1.mx = exec[w[p].e]
      /\ r2.pc = "readExec" /\ r2.msg = w[p].msg /\ r2.e = w[p].e
      /\ r2.job = w[p].job
  BY <1>1 DEF Worker
<1> HIDE DEF r1, r2
<1>3. CallOK(r1, queue', clock) /\ CallOK(r2, queue', clock)
  BY <1>1, <1>2 DEF CallOK
<1>4. ASSUME NEW e \in Executions, Carries(w[p], e)
      PROVE  (Carries(r1, e) \/ exec'[e].st # "paused") /\ Carries(r2, e)
  BY <1>1, <1>2, <1>4 DEF Carries
<1> QED
  BY <1>1, <1>3, <1>4, PutWakes

(* Only a consumer that read a pause keeps the execution in hand; the      *)
(* others have seen it running or ended.                                   *)
LEMMA DecideWakes ==
  ASSUME Inv, Wakes, NEW p \in Workers, UNCHANGED <<exec, queue, clock>>,
         NEW row, NEW c, Decide(p, row, c),
         \/ w[p].pc = "readConv" /\ row = w[p].mx
         \/ w[p].pc = "readExec" /\ row = exec[w[p].e]
  PROVE  Wakes'
<1> DEFINE r1 == [w[p] EXCEPT !.pc = "endStale", !.mx = Completed(row)]
           r2 == [w[p] EXCEPT !.pc = "resume", !.via = "resume", !.mx = row,
                              !.mc = c]
<1>1. /\ w[p] \in Worker /\ CallOK(w[p], queue, clock) /\ NoPause
      /\ queue \subseteq queue'
  BY WakeHere, SameNoPause
<1>2. /\ r1.pc = "endStale" /\ r1.msg = w[p].msg /\ r1.e = w[p].e
      /\ r1.job = w[p].job
      /\ r2.pc = "resume" /\ r2.msg = w[p].msg /\ r2.e = w[p].e
      /\ r2.job = w[p].job
  BY <1>1 DEF Worker
<1>3. (row.st # "paused" /\ Put(p, Idle)) \/ Put(p, r1) \/ Put(p, r2)
  BY DEF Decide, Stop
<1> HIDE DEF r1, r2
<1>4. CallOK(r1, queue', clock) /\ CallOK(r2, queue', clock)
  BY <1>1, <1>2 DEF CallOK
<1>5. CallOK(Idle, queue', clock)
  BY DEF CallOK, Idle
<1>6. ASSUME NEW e \in Executions, Carries(w[p], e)
      PROVE  /\ Carries(r1, e) /\ Carries(r2, e)
             /\ row.st # "paused" => exec'[e].st # "paused"
  BY <1>1, <1>2, <1>6 DEF Carries
<1> QED
  BY <1>1, <1>3, <1>4, <1>5, <1>6, PutWakes

LEMMA ConsumerWakes ==
  ASSUME Inv, Wakes, NEW p \in Workers,
         FetchSecond(p) \/ EndStale(p) \/ Clear(p)
  PROVE  Wakes'
<1>1. CASE FetchSecond(p)
  <2>1. UNCHANGED <<exec, queue, clock>>
    BY <1>1 DEF FetchSecond
  <2>2. \/ w[p].pc = "readConv" /\ Decide(p, w[p].mx, conv)
        \/ w[p].pc = "readExec" /\ Decide(p, exec[w[p].e], w[p].mc)
    BY <1>1 DEF FetchSecond, At
  <2> QED
    BY <2>1, <2>2, DecideWakes
<1>2. CASE EndStale(p)
  <2> DEFINE r == [w[p] EXCEPT !.pc = "clear"]
  <2>1. /\ w[p] \in Worker /\ CallOK(w[p], queue, clock)
        /\ queue' = queue /\ clock' = clock /\ w[p].pc = "endStale"
        /\ Put(p, r) /\ Update(w[p].e, w[p].mx)
        /\ w[p].e \in Executions /\ w[p].mx.st \in Terminal
    BY <1>2, WakeHere DEF EndStale, Goto, At, LocalOK
  <2>2. NoPause /\ exec'[w[p].e].st # "paused"
    BY <2>1, UpdateNoPause DEF NoPause
  <2>3. r.pc = "clear" /\ r.msg = w[p].msg /\ r.e = w[p].e /\ r.job = w[p].job
    BY <2>1 DEF Worker
  <2> HIDE DEF r
  <2>4. CallOK(r, queue', clock)
    BY <2>1, <2>3 DEF CallOK
  <2>5. \A e \in Executions : Carries(w[p], e) => e = w[p].e
    BY DEF Carries
  <2> QED
    BY <2>1, <2>2, <2>4, <2>5, PutWakes
<1>3. CASE Clear(p)
  <2>1. w[p].pc = "clear" /\ Stop(p) /\ queue' = queue /\ clock' = clock
    BY <1>3 DEF Clear, At
  <2>2. NoPause
    BY <1>3, SameNoPause DEF Clear
  <2> QED
    BY <2>1, <2>2, StopWakes
<1> QED
  BY <1>1, <1>2, <1>3

-----------------------------------------------------------------------------
(* Calls that neither carry a message nor pause an execution.              *)

(* A call that begins with an idle worker.                                 *)
LEMMA BeginWakes ==
  ASSUME Inv, Wakes, NEW p \in Workers, NEW r, Put(p, r), NoPause,
         queue' = queue, clock' = clock, w[p].pc = "idle",
         r.msg = NULL, r.job # "recover", r.pc \notin StagePCs \cup RecoveryPCs
  PROVE  Wakes'
  BY FreeWakes

LEMMA EndOneWakes ==
  ASSUME Inv, Wakes, NEW p \in Workers, EndOne(p), queue' = queue,
         clock' = clock, w[p].pc \in {"endListed", "endEach"}
  PROVE  Wakes'
<1>1. w[p] \in Worker /\ CallOK(w[p], queue, clock)
  BY WakeHere
<1> DEFINE r(e) == [w[p] EXCEPT !.todo = @ \ {e}]
<1>2. PICK e \in w[p].todo : Update(e, Completed(exec[e])) /\ Put(p, r(e))
  BY Zenon DEF EndOne
<1>3. e \in Executions /\ exec[e] \in ExecRow
  BY <1>1, <1>2, WakeHere DEF Worker
<1>4. NoPause
  BY <1>2, <1>3, CompletedRow, UpdateNoPause
<1>5. /\ r(e).pc = w[p].pc /\ r(e).msg = w[p].msg /\ r(e).e = w[p].e
      /\ r(e).job = w[p].job
  BY <1>1 DEF Worker
<1> HIDE DEF r
<1>6. CASE w[p].pc = "endListed"
  BY <1>1, <1>2, <1>4, <1>5, <1>6, FreeWakes DEF CallOK
<1>7. CASE w[p].pc = "endEach"
  BY <1>2, <1>4, <1>5, <1>7, OnWakes DEF PCs
<1> QED
  BY <1>6, <1>7

LEMMA ManualWakes ==
  ASSUME Inv, Wakes, NEW p \in Workers,
         ManualLoad(p) \/ ManualList(p) \/ ManualEnd(p)
  PROVE  Wakes'
<1>1. /\ w[p] \in Worker /\ CallOK(w[p], queue, clock)
      /\ queue' = queue /\ clock' = clock
  BY WakeHere DEF ManualLoad, ManualList, ManualEnd
<1>2. CASE ManualLoad(p)
  <2> DEFINE r == [Idle EXCEPT !.pc = "listPaused", !.job = "manual",
                               !.mc = conv]
  <2>1. w[p].pc = "idle" /\ Put(p, r) /\ NoPause
    BY <1>2, SameNoPause DEF ManualLoad, Begin, At
  <2>2. r.pc = "listPaused" /\ r.msg = NULL /\ r.job = "manual"
    BY DEF Idle
  <2> HIDE DEF r
  <2> QED
    BY <1>1, <2>1, <2>2, BeginWakes
<1>3. CASE ManualList(p)
  <2> DEFINE S == {e \in WithStatus("paused") : exec[e].node \notin Intervals}
             r == [w[p] EXCEPT !.pc = "endListed", !.todo = S]
  <2>1. w[p].pc = "listPaused" /\ Put(p, r) /\ NoPause
    BY <1>3, SameNoPause DEF ManualList, At
  <2> HIDE DEF S
  <2>2. r.pc = "endListed" /\ r.msg = w[p].msg /\ r.job = w[p].job
    BY <1>1 DEF Worker
  <2>3. w[p].msg = NULL /\ (NoRecovery => w[p].job # "recover")
    BY <1>1, <2>1 DEF CallOK
  <2> HIDE DEF r
  <2> QED
    BY <1>1, <2>1, <2>2, <2>3, FreeWakes
<1>4. CASE ManualEnd(p)
  <2> DEFINE r == [w[p] EXCEPT !.pc = "lock", !.via = "execute",
                               !.mc.active = NULL]
  <2>1. w[p].pc = "endListed"
    BY <1>4 DEF ManualEnd, At
  <2>2. EndOne(p) \/ (Put(p, r) /\ exec' = exec)
    BY <1>4, Zenon DEF ManualEnd
  <2>3. r.pc = "lock" /\ r.msg = w[p].msg /\ r.job = w[p].job
    BY <1>1 DEF Worker
  <2>4. w[p].msg = NULL /\ (NoRecovery => w[p].job # "recover")
    BY <1>1, <2>1 DEF CallOK
  <2> HIDE DEF r
  <2> QED
    BY <1>1, <2>1, <2>2, <2>3, <2>4, EndOneWakes, FreeWakes, SameNoPause
<1> QED
  BY <1>2, <1>3, <1>4

(* How an attendant's call begins.                                         *)
BeginsAs(r) ==
  /\ r.pc \in {"endRunning", "save", "checkFlow"}
  /\ r.job \in {"assign", "reply", "transfer", "close", "expire"}
  /\ r.msg = NULL /\ r.e = NULL

LEMMA TakeoverShape ==
  ASSUME NEW p \in Workers,
         \/ \E u \in Users : Assign(p, u)
         \/ \E u \in Users, t \in BOOLEAN : ReplyLoad(p, u, t)
         \/ \E u \in Users \cup {NULL} : TransferLoad(p, u)
         \/ EndConversation(p, "close", "closed")
         \/ EndConversation(p, "expire", "expired")
  PROVE  /\ w[p].pc = "idle" /\ UNCHANGED <<exec, queue, clock>>
         /\ \E r : BeginsAs(r) /\ Put(p, r)
<1>1. /\ w[p].pc = "idle" /\ UNCHANGED <<exec, queue, clock>>
      /\ \/ Put(p, [Idle EXCEPT !.pc = "endRunning", !.job = "assign"])
         \/ \E via, c : Put(p, [Idle EXCEPT !.pc = "save", !.job = "reply",
                                            !.via = via, !.mc = c])
         \/ \E via, c : Put(p, [Idle EXCEPT !.pc = "save", !.job = "transfer",
                                            !.via = via, !.mc = c])
         \/ \E c : \E k \in {"close", "expire"}, l \in {"checkFlow", "save"} :
              Put(p, [Idle EXCEPT !.job = k, !.mc = c, !.pc = l])
  <2>1. CASE \E u \in Users : Assign(p, u)
    BY <2>1, Zenon DEF Assign, Begin, At
  <2>2. CASE \E u \in Users, t \in BOOLEAN : ReplyLoad(p, u, t)
    BY <2>2, Zenon DEF ReplyLoad, Begin, At
  <2>3. CASE \E u \in Users \cup {NULL} : TransferLoad(p, u)
    BY <2>3, Zenon DEF TransferLoad, Begin, At
  <2>4. ASSUME NEW k \in {"close", "expire"}, NEW st, EndConversation(p, k, st)
        PROVE  /\ w[p].pc = "idle" /\ UNCHANGED <<exec, queue, clock>>
               /\ \E c : \E l \in {"checkFlow", "save"} :
                    Put(p, [Idle EXCEPT !.job = k, !.mc = c, !.pc = l])
    <3> DEFINE l == IF conv.status # st /\ conv.active # NULL THEN "checkFlow"
                                                            ELSE "save"
               c == [conv EXCEPT !.status = st]
    <3>1. Put(p, [Idle EXCEPT !.job = k, !.mc = c, !.pc = l])
      BY <2>4, Zenon DEF EndConversation
    <3>2. l \in {"checkFlow", "save"}
      OBVIOUS
    <3>3. w[p].pc = "idle" /\ UNCHANGED <<exec, queue, clock>>
      BY <2>4, Zenon DEF EndConversation, Begin, At
    <3> HIDE DEF l, c
    <3> QED
      BY <3>1, <3>2, <3>3, Zenon
  <2> QED
    BY <2>1, <2>2, <2>3, <2>4, Zenon
<1> DEFINE ra == [Idle EXCEPT !.pc = "endRunning", !.job = "assign"]
           rs(job, via, c) == [Idle EXCEPT !.pc = "save", !.job = job,
                                           !.via = via, !.mc = c]
           re(k, l, c) == [Idle EXCEPT !.job = k, !.mc = c, !.pc = l]
<1>2. /\ ra.pc = "endRunning" /\ ra.job = "assign" /\ ra.msg = NULL
      /\ ra.e = NULL
      /\ \A job, via, c : /\ rs(job, via, c).pc = "save"
                         /\ rs(job, via, c).job = job
                         /\ rs(job, via, c).msg = NULL
                         /\ rs(job, via, c).e = NULL
      /\ \A k, l, c : /\ re(k, l, c).pc = l /\ re(k, l, c).job = k
                     /\ re(k, l, c).msg = NULL /\ re(k, l, c).e = NULL
  BY DEF Idle
<1>3. \/ Put(p, ra)
      \/ \E via, c : Put(p, rs("reply", via, c))
      \/ \E via, c : Put(p, rs("transfer", via, c))
      \/ \E c : \E k \in {"close", "expire"}, l \in {"checkFlow", "save"} :
           Put(p, re(k, l, c))
  BY <1>1, Zenon
<1> HIDE DEF ra, rs, re
<1>4. /\ BeginsAs(ra)
      /\ \A via, c : BeginsAs(rs("reply", via, c)) /\ BeginsAs(rs("transfer", via, c))
      /\ \A c : \A k \in {"close", "expire"}, l \in {"checkFlow", "save"} :
           BeginsAs(re(k, l, c))
  BY <1>2 DEF BeginsAs
<1> QED
  BY <1>1, <1>3, <1>4, Zenon

LEMMA TakeoverBegins ==
  ASSUME Inv, Wakes, NEW p \in Workers,
         \/ \E u \in Users : Assign(p, u)
         \/ \E u \in Users, t \in BOOLEAN : ReplyLoad(p, u, t)
         \/ \E u \in Users \cup {NULL} : TransferLoad(p, u)
         \/ EndConversation(p, "close", "closed")
         \/ EndConversation(p, "expire", "expired")
  PROVE  Wakes'
<1>1. w[p].pc = "idle" /\ UNCHANGED <<exec, queue, clock>>
  BY TakeoverShape, Zenon
<1>2. PICK r : BeginsAs(r) /\ Put(p, r)
  BY TakeoverShape, Zenon
<1>3. NoPause
  BY <1>1, SameNoPause
<1> QED
  BY <1>1, <1>2, <1>3, BeginWakes DEF BeginsAs

LEMMA TerminatorWakes ==
  ASSUME Inv, Wakes, NEW p \in Workers,
         FindRunning(p) \/ FindAllPaused(p) \/ TerminateEach(p)
  PROVE  Wakes'
<1>1. w[p] \in Worker /\ queue' = queue /\ clock' = clock
  BY WakeHere DEF FindRunning, FindAllPaused, TerminateEach
<1> DEFINE r(l, S) == [w[p] EXCEPT !.pc = l, !.todo = S]
<1>2. \A l, S : /\ r(l, S).pc = l /\ r(l, S).msg = w[p].msg
                /\ r(l, S).e = w[p].e /\ r(l, S).job = w[p].job
  BY <1>1 DEF Worker
<1>3. CASE FindRunning(p)
  <2>1. /\ w[p].pc = "endRunning" /\ exec' = exec
        /\ Put(p, r("endPaused", Latest(WithStatus("running"))))
    BY <1>3, Zenon DEF FindRunning, At
  <2> HIDE DEF r
  <2> QED
    BY <1>1, <1>2, <2>1, OnWakes, SameNoPause DEF PCs
<1>4. CASE FindAllPaused(p)
  <2>1. /\ w[p].pc = "endPaused" /\ exec' = exec
        /\ Put(p, r("endEach", w[p].todo \cup WithStatus("paused")))
    BY <1>4, Zenon DEF FindAllPaused, At
  <2> HIDE DEF r
  <2> QED
    BY <1>1, <1>2, <2>1, OnWakes, SameNoPause DEF PCs
<1>5. CASE TerminateEach(p)
  <2>1. /\ w[p].pc = "endEach"
        /\ EndOne(p) \/ (Goto(p, "clear") /\ exec' = exec)
    BY <1>5, Zenon DEF TerminateEach, At
  <2>2. "clear" \in OnPCs
    BY DEF PCs
  <2> QED
    BY <1>1, <2>1, <2>2, EndOneWakes, GotoWakes, SameNoPause
<1> QED
  BY <1>3, <1>4, <1>5

LEMMA CloseWakes ==
  ASSUME Inv, Wakes, NEW p \in Workers, CheckFlow(p) \/ EndFlow(p)
  PROVE  Wakes'
<1>1. /\ w[p] \in Worker /\ LocalOK(w[p]) /\ CallOK(w[p], queue, clock)
      /\ queue' = queue /\ clock' = clock
  BY WakeHere DEF CheckFlow, EndFlow
<1>2. CASE CheckFlow(p)
  <2> DEFINE a == w[p].mc.active
             r1 == [w[p] EXCEPT !.pc = "endFlow", !.e = a,
                                !.mx = Completed(exec[a])]
             r2 == [w[p] EXCEPT !.pc = "save"]
  <2>1. /\ w[p].pc = "checkFlow" /\ exec' = exec
        /\ Put(p, r1) \/ Put(p, r2)
    BY <1>2, Zenon DEF CheckFlow, Goto, At
  <2> HIDE DEF a
  <2>2. /\ r1.pc = "endFlow" /\ r1.msg = w[p].msg /\ r1.job = w[p].job
        /\ r2.pc = "save" /\ r2.msg = w[p].msg /\ r2.job = w[p].job
    BY <1>1 DEF Worker
  <2>3. w[p].msg = NULL /\ (NoRecovery => w[p].job # "recover")
    BY <1>1, <2>1 DEF CallOK
  <2> HIDE DEF r1, r2
  <2> QED
    BY <1>1, <2>1, <2>2, <2>3, FreeWakes, SameNoPause
<1>3. CASE EndFlow(p)
  <2> DEFINE r == [w[p] EXCEPT !.pc = "save", !.mc.active = NULL]
  <2>1. /\ w[p].pc = "endFlow" /\ w[p].e \in Executions
        /\ w[p].mx.st # "paused" /\ Update(w[p].e, w[p].mx) /\ Put(p, r)
    BY <1>1, <1>3 DEF EndFlow, At, LocalOK
  <2>2. r.pc = "save" /\ r.msg = w[p].msg /\ r.e = w[p].e /\ r.job = w[p].job
    BY <1>1 DEF Worker
  <2> HIDE DEF r
  <2> QED
    BY <1>1, <2>1, <2>2, UpdateNoPause, OnWakes DEF PCs
<1> QED
  BY <1>2, <1>3

LEMMA ReconnectWakes ==
  ASSUME Inv, Wakes, NEW p \in Workers,
         Reopen(p) \/ ReconnectTerminate(p) \/ ReconnectClear(p)
  PROVE  Wakes'
<1>1. CASE Reopen(p)
  <2>1. UNCHANGED <<exec, queue, clock, w>>
    BY <1>1 DEF Reopen
  <2> QED
    BY <2>1 DEF Wakes, Coming
<1>2. CASE ReconnectTerminate(p)
  <2> DEFINE r == [Idle EXCEPT !.pc = "clearChannel", !.job = "reconnect"]
  <2>1. /\ w[p].pc = "idle" /\ Put(p, r) /\ queue' = queue /\ clock' = clock
    BY <1>2 DEF ReconnectTerminate, Begin, At
  <2>2. NoPause
    BY <1>2, WakeHere, CompletedRow DEF ReconnectTerminate, NoPause
  <2>3. r.pc = "clearChannel" /\ r.msg = NULL /\ r.job = "reconnect"
    BY DEF Idle
  <2> HIDE DEF r
  <2> QED
    BY <2>1, <2>2, <2>3, BeginWakes
<1>3. CASE ReconnectClear(p)
  <2>1. /\ w[p].pc = "clearChannel" /\ Stop(p)
        /\ exec' = exec /\ queue' = queue /\ clock' = clock
    BY <1>3 DEF ReconnectClear, At
  <2> QED
    BY <2>1, SameNoPause, StopWakes
<1> QED
  BY <1>1, <1>2, <1>3

-----------------------------------------------------------------------------
(* Failures put the message back; a recovery puts its pause back.          *)

LEMMA FailureWakes ==
  ASSUME Inv, Wakes, Rescues, NEW p \in Workers, QueryThrows(p) \/ Crash(p)
  PROVE  Wakes'
<1>1. /\ w[p] \in Worker /\ CallOK(w[p], queue, clock)
      /\ exec' = exec /\ clock' = clock /\ Requeue(p) /\ w[p].pc # "idle"
  BY WakeHere DEF QueryThrows, Crash, At
<1>2. queue \subseteq queue' /\ NoPause
  BY <1>1, SameNoPause DEF Requeue
<1>3. CASE QueryThrows(p)
  <2> DEFINE r == [w[p] EXCEPT !.pc = "unlock", !.via = "throw"]
             back == [w[p] EXCEPT !.pc = "rollback"]
  <2>1. /\ w[p].pc \in {"load", "read", "move"}
        /\ faults < MaxFaults
        /\ Put(p, r) \/ Stop(p) \/ (w[p].job = "recover" /\ Put(p, back))
    BY <1>3 DEF QueryThrows, Goto, Fault
  <2>2. /\ r.pc = "unlock" /\ r.msg = w[p].msg /\ r.e = w[p].e
        /\ r.job = w[p].job
        /\ back.pc = "rollback" /\ back.msg = w[p].msg /\ back.e = w[p].e
        /\ back.job = w[p].job /\ back.mx = w[p].mx
    BY <1>1 DEF Worker
  <2> HIDE DEF r, back
  <2>3. CASE Put(p, r) \/ Stop(p)
    BY <1>1, <1>2, <2>1, <2>2, <2>3, OnWakes, StopWakes DEF PCs
  <2>4. CASE w[p].job = "recover" /\ Put(p, back)
    <3>1. ~Waits([w[p].mx EXCEPT !.st = "paused"], clock)
      <4>1. Over(w[p].mx, clock)
        BY <2>1, <2>4 DEF Rescues
      <4>2. w[p].mx \in ExecRow /\ clock \in Nat
        BY WakeHere, Here
      <4>3. /\ [w[p].mx EXCEPT !.st = "paused"].node = w[p].mx.node
            /\ [w[p].mx EXCEPT !.st = "paused"].due = w[p].mx.due
        BY <4>2 DEF ExecRow
      <4>4. w[p].mx.due \in [Intervals -> Times \cup {NULL}]
        BY <4>2 DEF ExecRow
      <4> QED
        BY <4>1, <4>2, <4>3, <4>4, FlowAssumption DEF Waits, Over, Times
    <3>2. CallOK(back, queue', clock)
      BY <1>1, <2>1, <2>2, <2>4, <3>1 DEF CallOK
    <3>3. \A e \in Executions : ~Carries(w[p], e)
      BY <2>1 DEF Carries
    <3> QED
      BY <1>1, <1>2, <2>4, <3>2, <3>3, PutWakes
  <2> QED
    BY <2>1, <2>3, <2>4
<1>4. CASE Crash(p)
  <2>1. Put(p, Idle)
    BY <1>4 DEF Crash, Stop
  <2>2. CallOK(Idle, queue', clock)
    BY DEF CallOK, Idle
  <2>3. ASSUME NEW e \in Executions, Carries(w[p], e)
        PROVE  \E m \in queue' : m.e = e
    BY <1>1, <2>3 DEF Carries, CallOK, Requeue
  <2> QED
    BY <1>1, <1>2, <2>1, <2>2, <2>3, PutWakes
<1> QED
  BY <1>3, <1>4

LEMMA RecoveryWakes ==
  ASSUME Inv, Wakes, NEW p \in Workers,
         \/ RecoverConv(p) \/ Rollback(p)
         \/ \E e \in Executions : RecoverList(p, e)
  PROVE  Wakes'
<1>1. /\ w[p] \in Worker /\ LocalOK(w[p]) /\ CallOK(w[p], queue, clock)
      /\ queue' = queue /\ clock' = clock
  BY WakeHere DEF RecoverConv, Rollback, RecoverList
<1>2. ~NoRecovery
  <2>1. w[p].pc \in RecoveryPCs \/ "recover" \in Jobs[p]
    BY Zenon DEF RecoverConv, Rollback, RecoverList, Begin, At
  <2> QED
    BY <1>1, <2>1 DEF CallOK, NoRecovery
<1>3. ASSUME NEW e \in Executions, RecoverList(p, e) PROVE Wakes'
  <2> DEFINE r == [Idle EXCEPT !.pc = "recoverConv", !.job = "recover",
                               !.e = e, !.mx = exec[e]]
  <2>1. w[p].pc = "idle" /\ exec' = exec /\ Put(p, r)
    BY <1>3, Zenon DEF RecoverList, Begin, At
  <2>2. r.pc = "recoverConv" /\ r.msg = NULL
    BY DEF Idle
  <2> HIDE DEF r
  <2> QED
    BY <1>1, <1>2, <2>1, <2>2, FreeWakes, SameNoPause
<1>4. CASE RecoverConv(p)
  <2> DEFINE r == [w[p] EXCEPT !.pc = "resume", !.via = "resume", !.mc = conv]
  <2>1. w[p].pc = "recoverConv" /\ exec' = exec /\ Put(p, r)
    BY <1>4 DEF RecoverConv, At
  <2>2. r.pc = "resume" /\ r.msg = w[p].msg /\ r.e = w[p].e /\ r.job = w[p].job
    BY <1>1 DEF Worker
  <2> HIDE DEF r
  <2> QED
    BY <1>1, <2>1, <2>2, OnWakes, SameNoPause DEF PCs
<1>5. CASE Rollback(p)
  <2> DEFINE row == [w[p].mx EXCEPT !.st = "paused"]
  <2>1. /\ w[p].pc = "rollback" /\ w[p].e \in Executions
        /\ Update(w[p].e, row) /\ Put(p, Idle) /\ ~Waits(row, clock)
        /\ w \in [Workers -> Worker] /\ exec \in [Executions -> ExecRow]
    BY <1>1, <1>5, WakeHere DEF Rollback, Stop, At, LocalOK, CallOK
  <2>2. CallOK(Idle, queue', clock)
    BY DEF CallOK, Idle
  <2> HIDE DEF row
  <2>3. ASSUME NEW q \in Workers PROVE CallOK(w'[q], queue', clock')
    BY <1>1, <2>1, <2>2 DEF Put, Wakes
  <2>4. ASSUME NEW e \in Executions, Waits(exec'[e], clock') PROVE Coming(e)'
    <3>1. exec'[e] = exec[e]
      BY <1>1, <2>1, <2>4 DEF Update
    <3>2. Coming(e)
      BY <1>1, <2>4, <3>1 DEF Wakes
    <3>3. \A q \in Workers : Carries(w[q], e) => w'[q] = w[q]
      BY <2>1 DEF Put, Carries
    <3> QED
      BY <1>1, <3>2, <3>3 DEF Coming
  <2> QED
    BY <2>3, <2>4 DEF Wakes
<1> QED
  BY <1>3, <1>4, <1>5

(* While the pause is stored within a clock unit, no tick comes between    *)
(* its publication and the pause.                                          *)
LEMMA TickWakes == ASSUME Inv, Wakes, Prompt, Tick PROVE Wakes'
<1>1. /\ UNCHANGED <<exec, queue, w>> /\ clock' = clock + 1 /\ clock \in Nat
      /\ \A p \in Workers : ~Pausing(p)
  BY FlowAssumption DEF Tick, Inv, TypeOK
<1>2. ASSUME NEW p \in Workers PROVE CallOK(w[p], queue, clock')
  <2>1. CallOK(w[p], queue, clock) /\ ~Pausing(p)
    BY <1>1 DEF Wakes
  <2> DEFINE row == [w[p].mx EXCEPT !.st = "paused"]
  <2>2. row \in ExecRow
    BY Here DEF ExecRow
  <2> HIDE DEF row
  <2>3. ASSUME Waits(row, clock') PROVE Waits(row, clock)
    BY <1>1, <2>2, <2>3, FlowAssumption DEF Waits, ExecRow, Times
  <2> QED
    BY <2>1, <2>3 DEF CallOK, Pausing, row
<1>3. ASSUME NEW e \in Executions, Waits(exec[e], clock')
      PROVE  Waits(exec[e], clock)
  <2>1. exec[e].node \in Intervals /\ exec[e].due[exec[e].node] \in Times
    BY <1>3, FlowAssumption DEF Waits, Inv, TypeOK, ExecRow
  <2>2. exec[e].due[exec[e].node] \in Nat
    BY <2>1, FlowAssumption DEF Times
  <2>3. exec[e].due[exec[e].node] > clock
    BY <1>1, <1>3, <2>2 DEF Waits
  <2> QED
    BY <1>3, <2>3 DEF Waits
<1> QED
  BY <1>1, <1>2, <1>3 DEF Wakes, Coming

LEMMA StepWakes ==
  ASSUME Inv, Wakes, Rescues, NULL \notin Message, NEW p \in Workers, Step(p)
  PROVE  Wakes'
<1>1. CASE Continue(p)
  BY <1>1, CreateWakes, ClaimWakes, EndWakes, ResumeWakes, LoopWakes,
     NodeWakes, ScheduleWakes, PauseWakes, TriggerWakes, FetchFirstWakes,
     ConsumerWakes, RecoveryWakes, ManualWakes, TerminatorWakes, CloseWakes,
     ReconnectWakes DEF Continue
<1>2. CASE Start(p)
  BY <1>2, TriggerWakes, ManualWakes, ReconnectWakes, RecoveryWakes,
     TakeoverBegins DEF Start
<1>3. CASE Consume(p)
  BY <1>3, DeliverWakes DEF Consume
<1>4. CASE QueryThrows(p) \/ Crash(p)
  BY <1>4, FailureWakes
<1> QED
  BY <1>1, <1>2, <1>3, <1>4 DEF Step

-----------------------------------------------------------------------------
(* The due date of an interval.  RecoverStuckFlows resumes a flow whose    *)
(* interval is over and, when a query throws, writes its copy back as a    *)
(* pause.  Dates is inductive together with Inv while nothing has failed,  *)
(* triggers come one at a time and a flow has one interval: until the date *)
(* is stored one call handles the execution, and nobody wakes it; after    *)
(* that every copy carries that date.                                      *)

OneTrigger ==
  \A p, q \in Workers : "trigger" \in Jobs[p] /\ "trigger" \in Jobs[q] => p = q
OneInterval == \A m, n \in Intervals : m = n

HandPCs == NodePCs \cup {"claim", "resume", "recoverConv"}
RescuePCs == {"recoverConv", "resume", "load", "read", "move", "handle"}

Handles(x, e) == x.pc \in HandPCs /\ x.e = e
Listens(x, e) == x.pc \in ReadPCs /\ x.e = e
SawPause(x) == x.pc = "readConv" /\ x.mx.st = "paused"

Undated(x) == \A n \in Intervals : x.due[n] = NULL

DateOK(p, x, t) ==
  /\ x.pc = "idle" => x.e = NULL
  /\ x.pc # "idle" /\ x.job = "trigger" => "trigger" \in Jobs[p]
  /\ x.pc # "rollback"
  /\ x.pc \in ReadPCs => x.job = "resume"
  /\ x.pc = "findPaused" => x.job = "trigger"
  /\ x.pc \in {"listPaused", "endListed"} => x.job = "manual"
  /\ x.pc \in {"lock", "create", "claim"} => x.job \in {"trigger", "manual"}
  /\ x.pc = "resume" => x.job \in {"trigger", "resume", "recover"}
  /\ x.pc = "recoverConv" => x.job = "recover"
  /\ x.job = "recover" /\ x.pc \in RescuePCs => Over(x.mx, t)

(* No message or consumer is ahead of the call that stores the first date. *)
Unplanned(e) ==
  /\ \A p \in Workers : Handles(w[p], e) =>
       /\ w[p].job \in {"trigger", "manual"}
       /\ w[p].pc = "resume" \/ exec[e].st = "running"
  /\ \A p, q \in Workers : Handles(w[p], e) /\ Handles(w[q], e) => p = q
  /\ (\E m \in queue : m.e = e) \/ (\E p \in Workers : Listens(w[p], e)) =>
       /\ exec[e].st = "running"
       /\ \A p \in Workers :
            Handles(w[p], e) => w[p].pc = "pause" /\ ~Undated(w[p].mx)
  /\ \A p \in Workers : Listens(w[p], e) => ~SawPause(w[p])

(* The handler of the interval clears the date in its copy, which the      *)
(* loop's next reading of the row replaces.                                *)
Planned(e) ==
  \A p \in Workers :
    /\ Handles(w[p], e) =>
         /\ \/ w[p].mx.due = exec[e].due
            \/ w[p].pc = "read" /\ Undated(w[p].mx)
         /\ w[p].job = "recover" => Over(exec[e], clock)
    /\ Listens(w[p], e) /\ SawPause(w[p]) => w[p].mx.due = exec[e].due

KnownRows ==
  /\ \A p \in Workers : w[p].e # NULL => exec[w[p].e].st # "none"
  /\ \A m \in queue : exec[m.e].st # "none"

Dates ==
  /\ \A p \in Workers : DateOK(p, w[p], clock)
  /\ KnownRows
  /\ \A e \in Executions : exec[e].st \in Live =>
       /\ Undated(exec[e]) => Unplanned(e)
       /\ ~Undated(exec[e]) => Planned(e)

(* No row is written that is still live after the step.                    *)
NoWrite ==
  \A e \in Executions : exec'[e] = exec[e] \/ exec'[e].st \notin Live

LEMMA SameNoWrite == ASSUME exec' = exec PROVE NoWrite
  BY DEF NoWrite

LEMMA EndNoWrite ==
  ASSUME Inv, NEW e \in Executions, NEW row, row.st \in Terminal, Update(e, row)
  PROVE  NoWrite
  BY DEF Inv, TypeOK, Update, NoWrite, CanTransitionFrom

LEMMA DateHere ==
  ASSUME Inv, Kept, Dates, NEW p \in Workers
  PROVE  /\ w \in [Workers -> Worker] /\ w[p] \in Worker /\ LocalOK(w[p])
         /\ DateOK(p, w[p], clock) /\ clock \in Nat
         /\ w[p].e # NULL => /\ w[p].e \in Executions
                             /\ exec[w[p].e].st # "none"
                             /\ exec'[w[p].e].st # "none"
         /\ exec \in [Executions -> ExecRow]
         /\ \A e \in Executions : exec[e] \in ExecRow
<1>1. w[p].e # NULL => w[p].e \in Executions
  BY DEF Inv, TypeOK, Worker
<1> QED
  BY <1>1, Here, FlowAssumption
     DEF Inv, TypeOK, Kept, RowStep, Dates, KnownRows, Worker

(* The parts of the invariant that a step of p does not concern.           *)
LEMMA DateShape ==
  ASSUME Inv, Kept, Dates, NEW p \in Workers, NEW r, Put(p, r),
         r.e # NULL => exec'[r.e].st # "none", DateOK(p, r, clock),
         clock' = clock,
         \A m \in queue' : m \in queue \/ (m.e = w[p].e /\ m.e # NULL)
  PROVE  /\ w'[p] = r /\ \A q \in Workers : q # p => w'[q] = w[q]
         /\ \A q \in Workers : DateOK(q, w'[q], clock')
         /\ KnownRows'
<1>1. w'[p] = r /\ \A q \in Workers : q # p => w'[q] = w[q]
  BY DEF Put, Inv, TypeOK
<1>2. \A e \in Executions : exec[e].st # "none" => exec'[e].st # "none"
  BY DEF Kept, RowStep
<1>3. \A q \in Workers : w[q].e # NULL => w[q].e \in Executions
  BY DEF Inv, TypeOK, Worker
<1>4. \A m \in queue : m.e \in Executions
  BY DEF Inv, TypeOK, Message
<1>5. \A q \in Workers : DateOK(q, w'[q], clock')
  BY <1>1 DEF Dates
<1>6. KnownRows'
  BY <1>1, <1>2, <1>3, <1>4 DEF Dates, KnownRows
<1> QED
  BY <1>1, <1>5, <1>6

(* A step that takes up no execution and writes no live row.               *)
LEMMA KeepDates ==
  ASSUME Inv, Kept, Dates, NEW p \in Workers, NEW r, Put(p, r), NoWrite,
         queue' \subseteq queue, clock' = clock, DateOK(p, r, clock),
         r.e # NULL => exec'[r.e].st # "none",
         \A e \in Executions :
           /\ Handles(r, e) =>
                /\ Handles(w[p], e) /\ r.job = w[p].job /\ w[p].pc # "pause"
                /\ r.pc = "resume" \/ w[p].pc # "resume"
                /\ \/ Undated(exec[e]) \/ exec[e].st \notin Live
                   \/ r.mx.due = exec[e].due \/ (r.pc = "read" /\ Undated(r.mx))
           /\ Listens(r, e) =>
                /\ Listens(w[p], e) \/ \E m \in queue : m.e = e
                /\ SawPause(r) => exec[e].st = "paused" /\ r.mx = exec[e]
  PROVE  Dates'
<1>1. /\ w'[p] = r /\ \A q \in Workers : q # p => w'[q] = w[q]
      /\ \A q \in Workers : DateOK(q, w'[q], clock')
      /\ KnownRows'
  BY DateShape
<1>2. ASSUME NEW e \in Executions, exec'[e].st \in Live
      PROVE  exec'[e] = exec[e] /\ exec[e].st \in Live
  BY <1>2 DEF NoWrite
<1>3. \A q \in Workers, e \in Executions : Handles(w'[q], e) => Handles(w[q], e)
  BY <1>1
<1>4. ASSUME NEW e \in Executions, exec'[e].st \in Live, Undated(exec'[e])
      PROVE  Unplanned(e)'
  <2>1. exec'[e] = exec[e] /\ Unplanned(e)
    BY <1>2, <1>4 DEF Dates
  <2>2. (\E m \in queue' : m.e = e) \/ (\E q \in Workers : Listens(w'[q], e))
          => (\E m \in queue : m.e = e) \/ (\E q \in Workers : Listens(w[q], e))
    BY <1>1
  <2>3. \A q \in Workers :
          Handles(w'[q], e) => /\ w'[q].job \in {"trigger", "manual"}
                               /\ w'[q].pc = "resume" \/ exec[e].st = "running"
    BY <1>1, <2>1 DEF Unplanned
  <2>4. \A q, s \in Workers : Handles(w'[q], e) /\ Handles(w'[s], e) => q = s
    BY <1>3, <2>1 DEF Unplanned
  <2>5. ASSUME (\E m \in queue' : m.e = e) \/ (\E q \in Workers : Listens(w'[q], e))
        PROVE  /\ exec[e].st = "running"
               /\ \A q \in Workers :
                    Handles(w'[q], e) => w'[q].pc = "pause" /\ ~Undated(w'[q].mx)
    <3>1. /\ exec[e].st = "running"
          /\ \A q \in Workers :
               Handles(w[q], e) => w[q].pc = "pause" /\ ~Undated(w[q].mx)
      BY <2>1, <2>2, <2>5 DEF Unplanned
    <3> QED
      BY <1>1, <3>1
  <2>6. \A q \in Workers : Listens(w'[q], e) => ~SawPause(w'[q])
    <3>1. Listens(r, e) => exec[e].st = "running"
      BY <2>1 DEF Unplanned
    <3> QED
      BY <1>1, <2>1, <3>1 DEF Unplanned
  <2> QED
    BY <2>1, <2>3, <2>4, <2>5, <2>6 DEF Unplanned
<1>5. ASSUME NEW e \in Executions, exec'[e].st \in Live, ~Undated(exec'[e])
      PROVE  Planned(e)'
  <2>1. exec'[e] = exec[e] /\ exec[e].st \in Live /\ Planned(e)
    BY <1>2, <1>5 DEF Dates
  <2> QED
    BY <1>1, <1>5, <2>1 DEF Planned
<1> QED
  BY <1>1, <1>4, <1>5 DEF Dates

(* A paused row is taken up: by the trigger if its interval has no date.   *)
LEMMA TakeDates ==
  ASSUME Inv, Kept, Dates, OneTrigger, NEW p \in Workers, NEW r, Put(p, r),
         UNCHANGED <<exec, queue, clock>>, DateOK(p, r, clock),
         r.e # NULL => exec'[r.e].st # "none",
         r.pc \in {"resume", "recoverConv"},
         w[p].pc \notin HandPCs,
         NEW e \in Executions, r.e = e,
         exec[e].st \in Live /\ Undated(exec[e])
           => exec[e].st = "paused" /\ r.job = "trigger" /\ r.pc = "resume",
         exec[e].st \in Live /\ ~Undated(exec[e])
           => /\ r.mx.due = exec[e].due
              /\ r.job = "recover" => Over(exec[e], clock)
  PROVE  Dates'
<1>1. /\ w'[p] = r /\ \A q \in Workers : q # p => w'[q] = w[q]
      /\ \A q \in Workers : DateOK(q, w'[q], clock')
      /\ KnownRows'
  BY DateShape
<1>2. /\ \A f \in Executions : Handles(r, f) <=> f = e
      /\ \A f \in Executions : ~Listens(r, f)
  BY DEF Handles, Listens, HandPCs, ReadPCs
<1>3. ASSUME NEW f \in Executions, exec[f].st \in Live, Undated(exec[f])
      PROVE  Unplanned(f)'
  <2>1. Unplanned(f)
    BY <1>3 DEF Dates
  <2>2. CASE f # e
    BY <1>1, <1>2, <2>1, <2>2 DEF Unplanned
  <2>3. CASE f = e
    <3>1. exec[e].st = "paused" /\ r.job = "trigger" /\ r.pc = "resume"
      BY <1>3, <2>3
    <3>2. \A q \in Workers : ~Listens(w[q], e)
      BY <2>1, <2>3, <3>1 DEF Unplanned
    <3>3. \A m \in queue : m.e # e
      BY <2>1, <2>3, <3>1 DEF Unplanned
    <3>4. ASSUME NEW q \in Workers, Handles(w[q], e) PROVE q = p
      <4>1. w[q].pc = "resume" /\ w[q].job \in {"trigger", "manual"}
        BY <2>1, <2>3, <3>1, <3>4 DEF Unplanned
      <4>2. DateOK(q, w[q], clock)
        BY DEF Dates
      <4>3. "trigger" \in Jobs[q]
        BY <4>1, <4>2 DEF DateOK
      <4>4. "trigger" \in Jobs[p]
        BY <3>1 DEF DateOK
      <4> QED
        BY <4>3, <4>4 DEF OneTrigger
    <3>5. \A q \in Workers : Handles(w'[q], e) => q = p
      BY <1>1, <3>4
    <3>6. (\A q \in Workers : ~Listens(w'[q], e)) /\ (\A m \in queue' : m.e # e)
      BY <1>1, <1>2, <3>2, <3>3
    <3> QED
      BY <1>1, <2>3, <3>1, <3>5, <3>6 DEF Unplanned
  <2> QED
    BY <2>2, <2>3
<1>4. ASSUME NEW f \in Executions, exec[f].st \in Live, ~Undated(exec[f])
      PROVE  Planned(f)'
  <2>1. Planned(f)
    BY <1>4 DEF Dates
  <2> QED
    BY <1>1, <1>2, <1>4, <2>1 DEF Planned
<1> QED
  BY <1>1, <1>3, <1>4 DEF Dates

(* A handler of e stores its copy as a live row.                           *)
LEMMA StoreDates ==
  ASSUME Inv, Kept, Dates, NEW p \in Workers, NEW r, Put(p, r),
         queue' = queue, clock' = clock, DateOK(p, r, clock),
         r.e # NULL => exec'[r.e].st # "none",
         NEW e \in Executions, w[p].e = e, r.e = e, r.job = w[p].job,
         w[p].pc \in {"resume", "move", "pause"},
         NEW row, Update(e, row), row.st \in Live, row.due = w[p].mx.due,
         \/ /\ w[p].pc # "pause" /\ row.st = "running"
            /\ r.pc \in NodePCs \ {"read", "pause"} /\ r.mx.due = row.due
         \/ r.pc \notin HandPCs \cup ReadPCs
  PROVE  Dates'
<1>1. /\ w'[p] = r /\ \A q \in Workers : q # p => w'[q] = w[q]
      /\ \A q \in Workers : DateOK(q, w'[q], clock')
      /\ KnownRows'
  BY DateShape
<1>2. /\ \A f \in Executions : Handles(w[p], f) <=> f = e
      /\ \A f \in Executions : Handles(r, f) => f = e
      /\ \A f \in Executions : ~Listens(r, f)
  BY DEF Handles, Listens, HandPCs, ReadPCs
<1>3. \A f \in Executions : f # e => exec'[f] = exec[f]
  BY DateHere DEF Update
<1>4. exec'[e] = exec[e] \/ (exec[e].st \in Live /\ exec'[e] = row)
  BY DateHere DEF Update, CanTransitionFrom
<1>5. exec[e].st \in Live => exec'[e] = row
  BY DateHere DEF Update, CanTransitionFrom
<1>6. ASSUME NEW f \in Executions, f # e, exec'[f].st \in Live
      PROVE  /\ Undated(exec'[f]) => Unplanned(f)'
             /\ ~Undated(exec'[f]) => Planned(f)'
  <2>1. /\ exec'[f] = exec[f] /\ ~Handles(r, f) /\ ~Listens(r, f)
        /\ Undated(exec[f]) => Unplanned(f)
        /\ ~Undated(exec[f]) => Planned(f)
    BY <1>2, <1>3, <1>6 DEF Dates
  <2>2. Unplanned(f) => Unplanned(f)'
    BY <1>1, <2>1 DEF Unplanned
  <2>3. Planned(f) => Planned(f)'
    BY <1>1, <2>1 DEF Planned
  <2> QED
    BY <2>1, <2>2, <2>3
<1>7. ASSUME exec[e].st \in Live, Undated(exec[e])
      PROVE  /\ Undated(exec'[e]) => Unplanned(e)'
             /\ ~Undated(exec'[e]) => Planned(e)'
  <2>1. Unplanned(e) /\ exec'[e] = row
    BY <1>5, <1>7 DEF Dates
  <2>2. \A q \in Workers : Handles(w'[q], e) => q = p
    BY <1>1, <1>2, <2>1 DEF Unplanned
  <2>3. w[p].job \in {"trigger", "manual"}
    BY <1>2, <2>1 DEF Unplanned
  <2>4. \A q \in Workers : Listens(w'[q], e) => ~SawPause(w'[q])
    BY <1>1, <1>2, <2>1 DEF Unplanned
  <2>5. Planned(e)'
    BY <1>1, <2>1, <2>2, <2>3, <2>4 DEF Planned, Handles, HandPCs
  <2>6. ASSUME Undated(row) PROVE Unplanned(e)'
    <3>1. Undated(w[p].mx)
      BY <2>6 DEF Undated
    <3>2. /\ \A m \in queue : m.e # e
          /\ \A q \in Workers : ~Listens(w[q], e)
      BY <1>2, <2>1, <3>1 DEF Unplanned
    <3>3. /\ \A m \in queue' : m.e # e
          /\ \A q \in Workers : ~Listens(w'[q], e)
      BY <1>1, <1>2, <3>2
    <3>4. Handles(r, e) => row.st = "running"
      BY DEF Handles
    <3> QED
      BY <1>1, <2>1, <2>2, <2>3, <3>3, <3>4 DEF Unplanned
  <2> QED
    BY <2>1, <2>5, <2>6
<1>8. ASSUME exec[e].st \in Live, ~Undated(exec[e])
      PROVE  ~Undated(exec'[e]) /\ Planned(e)'
  <2>1. Planned(e) /\ exec'[e] = row
    BY <1>5, <1>8 DEF Dates
  <2>2. row.due = exec[e].due
    BY <1>2, <2>1 DEF Planned
  <2>3. ~Undated(exec'[e]) /\ (Over(exec[e], clock) => Over(exec'[e], clock'))
    BY <1>8, <2>1, <2>2 DEF Undated, Over
  <2> QED
    BY <1>1, <1>2, <2>1, <2>2, <2>3 DEF Planned, Handles, HandPCs
<1>9. exec'[e].st \in Live => exec[e].st \in Live
  BY <1>4
<1> QED
  BY <1>1, <1>6, <1>7, <1>8, <1>9 DEF Dates

LEMMA IdleDates ==
  /\ Idle.pc = "idle" /\ Idle.e = NULL /\ Idle.msg = NULL
  /\ \A p, t : DateOK(p, Idle, t)
  /\ \A e \in Executions : ~Handles(Idle, e) /\ ~Listens(Idle, e)
<1>1. Idle.pc = "idle" /\ Idle.e = NULL /\ Idle.msg = NULL
  BY DEF Idle
<1> QED
  BY <1>1 DEF DateOK, ReadPCs, RescuePCs, Handles, Listens, HandPCs

(* A call that is not about an execution yet, or has given its own up.     *)
LEMMA OutDates ==
  ASSUME Inv, Kept, Dates, NEW p \in Workers, NEW r, Put(p, r), NoWrite,
         queue' \subseteq queue, clock' = clock,
         r.pc \notin HandPCs \cup ReadPCs \cup {"idle", "rollback"},
         r.job = "trigger" => "trigger" \in Jobs[p],
         r.pc = "findPaused" => r.job = "trigger",
         r.pc \in {"listPaused", "endListed"} => r.job = "manual",
         r.pc \in {"lock", "create"} => r.job \in {"trigger", "manual"},
         r.e # NULL => exec'[r.e].st # "none"
  PROVE  Dates'
<1>1. DateOK(p, r, clock)
  BY DEF DateOK, HandPCs, ReadPCs, RescuePCs
<1>2. \A e : ~Handles(r, e) /\ ~Listens(r, e)
  BY DEF Handles, Listens
<1> QED
  BY <1>1, <1>2, KeepDates

LEMMA StopDates ==
  ASSUME Inv, Kept, Dates, NEW p \in Workers, Stop(p), NoWrite,
         queue' \subseteq queue, clock' = clock
  PROVE  Dates'
<1>1. Put(p, Idle)
  BY DEF Stop
<1> QED
  BY <1>1, IdleDates, KeepDates

(* A call about w[p].e that leaves the node loop, or is past it.           *)
DonePCs == {"unlock", "check", "save", "endStale", "clear", "endRunning",
            "endPaused", "endEach", "endFlow", "clearChannel"}
OutPCs == DonePCs \cup {"reject", "finish"}

LEMMA LeaveDates ==
  ASSUME Inv, Kept, Dates, NEW p \in Workers, NEW r, Put(p, r), NoWrite,
         queue' \subseteq queue, clock' = clock, w[p].pc # "idle",
         r.pc \in OutPCs, r.e = w[p].e, r.job = w[p].job
  PROVE  Dates'
<1>1. /\ r.pc \notin HandPCs \cup ReadPCs \cup {"idle", "rollback"}
      /\ r.pc \notin {"findPaused", "listPaused", "endListed", "lock", "create"}
  BY DEF OutPCs, DonePCs, HandPCs, ReadPCs
<1> QED
  BY <1>1, DateHere, OutDates DEF DateOK

LEMMA LeaveDatesTo ==
  ASSUME Inv, Kept, Dates, NEW p \in Workers, NEW l \in OutPCs, Goto(p, l),
         NoWrite, queue' \subseteq queue, clock' = clock, w[p].pc # "idle"
  PROVE  Dates'
<1> DEFINE r == [w[p] EXCEPT !.pc = l]
<1>1. Put(p, r) /\ r.pc = l /\ r.e = w[p].e /\ r.job = w[p].job
  BY DateHere DEF Goto, Worker
<1> HIDE DEF r
<1> QED
  BY <1>1, LeaveDates

LEMMA CreateDates ==
  ASSUME Inv, Kept, Dates, NEW p \in Workers, Create(p) PROVE Dates'
<1>0. \E e \in Fresh :
        /\ exec' = [exec EXCEPT ![e] = FirstRow]
        /\ Put(p, [w[p] EXCEPT !.pc = "claim", !.e = e, !.mx = FirstRow])
  BY Zenon DEF Create
<1>1. PICK e \in Fresh :
        /\ exec' = [exec EXCEPT ![e] = FirstRow]
        /\ Put(p, [w[p] EXCEPT !.pc = "claim", !.e = e, !.mx = FirstRow])
  BY <1>0, Zenon
<1> DEFINE r == [w[p] EXCEPT !.pc = "claim", !.e = e, !.mx = FirstRow]
<1>2. /\ w[p] \in Worker /\ DateOK(p, w[p], clock) /\ w[p].pc = "create"
      /\ queue' = queue /\ clock' = clock
      /\ e \in Executions /\ exec[e].st = "none"
      /\ exec'[e] = FirstRow /\ \A f \in Executions : f # e => exec'[f] = exec[f]
  BY <1>1, DateHere DEF Create, At, Fresh, WithStatus
<1>3. r.pc = "claim" /\ r.e = e /\ r.job = w[p].job
  BY <1>2 DEF Worker
<1>4. FirstRow.st = "running" /\ Undated(FirstRow)
  BY DEF FirstRow, NoRow, Undated
<1>5. Put(p, r)
  BY <1>1
<1> HIDE DEF r
<1>6. DateOK(p, r, clock) /\ r.job \in {"trigger", "manual"}
  BY <1>2, <1>3 DEF DateOK, ReadPCs, RescuePCs
<1>7. /\ w'[p] = r /\ \A q \in Workers : q # p => w'[q] = w[q]
      /\ \A q \in Workers : DateOK(q, w'[q], clock')
      /\ KnownRows'
  BY <1>2, <1>3, <1>4, <1>5, <1>6, DateShape
<1>8. /\ \A f \in Executions : Handles(r, f) <=> f = e
      /\ \A f \in Executions : ~Listens(r, f)
      /\ \A f \in Executions : ~Handles(w[p], f)
  BY <1>2, <1>3 DEF Handles, Listens, HandPCs, ReadPCs
<1>9. /\ \A m \in queue : m.e # e
      /\ \A q \in Workers : w[q].e # e
  BY <1>2, FlowAssumption DEF Dates, KnownRows, Executions
<1>10. Unplanned(e)'
  <2>1. \A q \in Workers : Handles(w'[q], e) => q = p
    BY <1>7, <1>9 DEF Handles
  <2>2. \A q \in Workers : ~Listens(w'[q], e)
    <3>1. \A q \in Workers : ~Listens(w[q], e)
      BY <1>9 DEF Listens
    <3> QED
      BY <1>2, <1>7, <1>8, <3>1
  <2> QED
    BY <1>2, <1>4, <1>6, <1>7, <1>9, <2>1, <2>2 DEF Unplanned
<1>11. ASSUME NEW f \in Executions, f # e, exec'[f].st \in Live
       PROVE  /\ Undated(exec'[f]) => Unplanned(f)'
              /\ ~Undated(exec'[f]) => Planned(f)'
  <2>1. /\ exec'[f] = exec[f] /\ ~Handles(r, f) /\ ~Listens(r, f)
        /\ Undated(exec[f]) => Unplanned(f)
        /\ ~Undated(exec[f]) => Planned(f)
    BY <1>2, <1>8, <1>11 DEF Dates
  <2>2. Unplanned(f) => Unplanned(f)'
    BY <1>2, <1>7, <2>1 DEF Unplanned
  <2>3. Planned(f) => Planned(f)'
    BY <1>2, <1>7, <2>1 DEF Planned
  <2> QED
    BY <2>1, <2>2, <2>3
<1> QED
  BY <1>2, <1>4, <1>7, <1>10, <1>11 DEF Dates

(* The message of the first date is published by the call that will store  *)
(* it.                                                                     *)
LEMMA PublishDates ==
  ASSUME Inv, Kept, Dates, NEW p \in Workers, NEW r, Put(p, r), exec' = exec,
         NEW m, queue' = queue \cup {m}, m.e = w[p].e, clock' = clock,
         w[p].pc = "schedule", r.pc \in {"pause", "unlock", "check", "save"},
         r.e = w[p].e, r.job = w[p].job, r.mx = w[p].mx
  PROVE  Dates'
<1> DEFINE e == w[p].e
<1>1. /\ DateOK(p, w[p], clock) /\ e \in Executions /\ exec[e].st # "none"
      /\ w[p].node \in Intervals /\ w[p].mx.due[w[p].node] # NULL
  BY DateHere, FlowAssumption DEF LocalOK, Executions
<1>2. DateOK(p, r, clock)
  BY <1>1 DEF DateOK, ReadPCs, RescuePCs
<1>3. ~Undated(w[p].mx) /\ m.e # NULL
  BY <1>1, FlowAssumption DEF Undated, Executions
<1>4. /\ w'[p] = r /\ \A q \in Workers : q # p => w'[q] = w[q]
      /\ \A q \in Workers : DateOK(q, w'[q], clock')
      /\ KnownRows'
  BY <1>1, <1>2, <1>3, DateShape
<1>5. /\ \A f \in Executions : Handles(w[p], f) <=> f = e
      /\ \A f \in Executions : Handles(r, f) => f = e /\ r.pc = "pause"
      /\ \A f \in Executions : ~Listens(r, f)
  BY DEF Handles, Listens, HandPCs, ReadPCs
<1> HIDE DEF e
<1>6. ASSUME NEW f \in Executions, exec'[f].st \in Live, Undated(exec'[f])
      PROVE  Unplanned(f)'
  <2>1. Unplanned(f) /\ exec'[f] = exec[f]
    BY <1>6 DEF Dates
  <2>2. CASE f # e
    BY <1>4, <1>5, <2>1, <2>2 DEF Unplanned, e
  <2>3. CASE f = e
    <3>1. /\ w[p].job \in {"trigger", "manual"} /\ exec[e].st = "running"
          /\ \A q \in Workers : Handles(w[q], e) => q = p
      BY <1>1, <1>5, <2>1, <2>3 DEF Unplanned
    <3>2. \A q \in Workers : Handles(w'[q], e) => q = p
      BY <1>4, <3>1
    <3>3. \A q \in Workers : Listens(w'[q], e) => ~SawPause(w'[q])
      BY <1>4, <1>5, <2>1, <2>3 DEF Unplanned
    <3> QED
      BY <1>3, <1>4, <1>5, <2>1, <2>3, <3>1, <3>2, <3>3 DEF Unplanned
  <2> QED
    BY <2>2, <2>3
<1>7. ASSUME NEW f \in Executions, exec'[f].st \in Live, ~Undated(exec'[f])
      PROVE  Planned(f)'
  <2>1. Planned(f) /\ exec'[f] = exec[f]
    BY <1>7 DEF Dates
  <2>2. Handles(r, f) => w[p].mx.due = exec[f].due
    BY <1>5, <2>1 DEF Planned
  <2> QED
    BY <1>4, <1>5, <2>1, <2>2 DEF Planned
<1> QED
  BY <1>4, <1>6, <1>7 DEF Dates

LEMMA OverStays ==
  ASSUME NEW x \in ExecRow, NEW t \in Nat, Over(x, t) PROVE Over(x, t + 1)
<1>1. ASSUME NEW n \in Intervals, x.due[n] # NULL PROVE x.due[n] <= t + 1
  <2>1. x.due[n] \in Nat /\ x.due[n] <= t
    BY <1>1, FlowAssumption DEF ExecRow, Times, Over
  <2> QED
    BY <2>1
<1> QED
  BY <1>1 DEF Over

LEMMA TickDates == ASSUME Inv, Kept, Dates, Tick PROVE Dates'
<1>1. UNCHANGED <<exec, queue, w>> /\ clock' = clock + 1 /\ clock \in Nat
  BY FlowAssumption DEF Tick, Inv, TypeOK
<1>2. \A x \in ExecRow : Over(x, clock) => Over(x, clock')
  BY <1>1, OverStays
<1>3. \A p \in Workers : w[p].mx \in ExecRow
  BY Here
<1>4. \A e \in Executions : exec[e] \in ExecRow
  BY DEF Inv, TypeOK
<1>5. ASSUME NEW p \in Workers PROVE DateOK(p, w[p], clock')
  BY <1>2, <1>3 DEF Dates, DateOK
<1>6. \A e \in Executions : /\ Unplanned(e) => Unplanned(e)'
                            /\ Planned(e) => Planned(e)'
  BY <1>1, <1>2, <1>4 DEF Unplanned, Planned
<1> QED
  BY <1>1, <1>5, <1>6 DEF Dates, KnownRows

-----------------------------------------------------------------------------
(* The node loop.                                                          *)

LEMMA LoopOnDates ==
  ASSUME Inv, Kept, Dates, NEW p \in Workers, NEW r, Put(p, r), NoWrite,
         queue' = queue, clock' = clock,
         w[p].pc \in {"claim", "handle", "schedule"}, r.pc \in NodePCs,
         w[p].pc = "schedule" => r.pc = "pause",
         r.e = w[p].e, r.job = w[p].job,
         \/ r.mx.due = w[p].mx.due
         \/ r.pc = "read" /\ Undated(r.mx)
         \/ r.pc = "schedule" /\ Undated(w[p].mx)
  PROVE  Dates'
<1>1. DateOK(p, w[p], clock)
  BY DateHere
<1>2. ASSUME r.job = "recover", r.pc \in RescuePCs PROVE Over(r.mx, clock)
  <2>1. w[p].pc = "handle"
    BY <1>1, <1>2 DEF DateOK, RescuePCs
  <2>2. Over(w[p].mx, clock)
    BY <1>1, <1>2, <2>1 DEF DateOK, RescuePCs
  <2>3. r.mx.due = w[p].mx.due \/ Undated(r.mx)
    BY <1>2 DEF RescuePCs
  <2> QED
    BY <2>2, <2>3 DEF Over, Undated
<1>3. DateOK(p, r, clock)
  BY <1>1, <1>2 DEF DateOK, ReadPCs, RescuePCs
<1>4. ASSUME NEW e \in Executions, Handles(r, e)
      PROVE  /\ Handles(w[p], e)
             /\ \/ Undated(exec[e]) \/ exec[e].st \notin Live
                \/ r.mx.due = exec[e].due \/ (r.pc = "read" /\ Undated(r.mx))
  <2>1. Handles(w[p], e)
    BY <1>4 DEF Handles, HandPCs
  <2>2. ASSUME exec[e].st \in Live, ~Undated(exec[e])
        PROVE  w[p].mx.due = exec[e].due
    BY <2>1, <2>2 DEF Dates, Planned
  <2>3. ASSUME exec[e].st \in Live, ~Undated(exec[e])
        PROVE  ~Undated(w[p].mx)
    BY <2>2, <2>3 DEF Undated
  <2> QED
    BY <2>1, <2>2, <2>3
<1>5. \A e : ~Listens(r, e)
  BY DEF Listens, ReadPCs
<1> QED
  BY <1>3, <1>4, <1>5, DateHere, KeepDates

LEMMA ClaimDates ==
  ASSUME Inv, Kept, Dates, NEW p \in Workers,
         Acquire(p) \/ FlowMissing(p) \/ Claim(p)
  PROVE  Dates'
<1>1. /\ w[p] \in Worker /\ DateOK(p, w[p], clock) /\ NoWrite
      /\ queue' = queue /\ clock' = clock
      /\ w[p].e # NULL => exec'[w[p].e].st # "none"
  BY DateHere, SameNoWrite DEF Acquire, FlowMissing, Claim
<1>2. CASE Acquire(p)
  <2> DEFINE r == [w[p] EXCEPT !.pc = "create"]
  <2>1. w[p].pc = "lock" /\ w[p].job \in {"trigger", "manual"}
    BY <1>1, <1>2 DEF Acquire, At, DateOK
  <2>2. r.pc = "create" /\ r.job = w[p].job /\ r.e = w[p].e
    BY <1>1 DEF Worker
  <2>3. Put(p, r) \/ Goto(p, Return(p))
    BY <1>2 DEF Acquire, Goto
  <2>4. Return(p) \in OutPCs
    BY DEF Return, OutPCs, DonePCs
  <2> HIDE DEF r
  <2>5. CASE Put(p, r)
    <3>1. r.pc \notin HandPCs \cup ReadPCs
      BY <2>2 DEF HandPCs, ReadPCs
    <3> QED
      BY <1>1, <2>1, <2>2, <2>5, <3>1, OutDates DEF DateOK
  <2> QED
    BY <1>1, <2>1, <2>3, <2>4, <2>5, LeaveDatesTo
<1>3. CASE FlowMissing(p)
  <2> DEFINE r == [w[p] EXCEPT !.pc = "unlock", !.via = "throw"]
  <2>1. /\ Put(p, r) /\ r.pc = "unlock" /\ r.e = w[p].e
        /\ r.job = w[p].job /\ w[p].pc = "create"
    BY <1>1, <1>3 DEF FlowMissing, At, Worker
  <2> HIDE DEF r
  <2> QED
    BY <1>1, <2>1, LeaveDates DEF OutPCs, DonePCs
<1>4. CASE Claim(p)
  <2> DEFINE r1 == [w[p] EXCEPT !.pc = "load", !.node = StartNode,
                                !.mc.active = w[p].e]
             r2 == [w[p] EXCEPT !.pc = "reject", !.mx = Failed(w[p].mx)]
  <2>1. w[p].pc = "claim" /\ (Put(p, r1) \/ Put(p, r2))
    BY <1>4 DEF Claim, At
  <2>2. /\ r1.pc = "load" /\ r1.e = w[p].e /\ r1.job = w[p].job
        /\ r1.mx = w[p].mx
        /\ r2.pc = "reject" /\ r2.e = w[p].e /\ r2.job = w[p].job
    BY <1>1 DEF Worker
  <2> HIDE DEF r1, r2
  <2>3. CASE Put(p, r1)
    BY <1>1, <2>1, <2>2, <2>3, LoopOnDates
  <2>4. CASE Put(p, r2)
    BY <1>1, <2>1, <2>2, <2>4, LeaveDates DEF OutPCs
  <2> QED
    BY <2>1, <2>3, <2>4
<1> QED
  BY <1>2, <1>3, <1>4

LEMMA EndDates ==
  ASSUME Inv, Kept, Dates, NEW p \in Workers,
         Reject(p) \/ Unlock(p) \/ StoreEnd(p)
  PROVE  Dates'
<1>1. /\ w[p] \in Worker /\ LocalOK(w[p])
      /\ queue' = queue /\ clock' = clock
  BY DateHere DEF Reject, Unlock, StoreEnd
<1>2. CASE Reject(p)
  <2>1. /\ w[p].pc = "reject" /\ w[p].e \in Executions
        /\ w[p].mx.st \in Terminal /\ Update(w[p].e, w[p].mx) /\ Goto(p, "unlock")
    BY <1>1, <1>2 DEF Reject, At, LocalOK
  <2> QED
    BY <1>1, <2>1, EndNoWrite, LeaveDatesTo DEF OutPCs, DonePCs
<1>3. CASE Unlock(p)
  <2>1. w[p].pc = "unlock" /\ NoWrite /\ (Stop(p) \/ Goto(p, Return(p)))
    BY <1>3, SameNoWrite DEF Unlock, At
  <2>2. Return(p) \in OutPCs
    BY DEF Return, OutPCs, DonePCs
  <2> QED
    BY <1>1, <2>1, <2>2, StopDates, LeaveDatesTo
<1>4. CASE StoreEnd(p)
  <2> DEFINE r == [w[p] EXCEPT !.pc = Exit(p), !.mc.active = NULL]
  <2>1. /\ w[p].pc = "finish" /\ w[p].e \in Executions
        /\ w[p].mx.st \in Terminal /\ Update(w[p].e, w[p].mx) /\ Put(p, r)
    BY <1>1, <1>4 DEF StoreEnd, At, LocalOK
  <2>2. r.pc = Exit(p) /\ r.e = w[p].e /\ r.job = w[p].job
    BY <1>1 DEF Worker
  <2>3. r.pc \in OutPCs
    BY <2>2, ExitPC DEF OutPCs, DonePCs
  <2> HIDE DEF r
  <2> QED
    BY <1>1, <2>1, <2>2, <2>3, EndNoWrite, LeaveDates
<1> QED
  BY <1>2, <1>3, <1>4

LEMMA ResumeDates ==
  ASSUME Inv, Kept, Dates, NEW p \in Workers, ResumeFlow(p) PROVE Dates'
<1> DEFINE row == [w[p].mx EXCEPT !.st = "running"]
           r == [w[p] EXCEPT !.pc = "load", !.mx = row, !.node = row.node]
<1>1. /\ w[p] \in Worker /\ LocalOK(w[p]) /\ DateOK(p, w[p], clock)
      /\ queue' = queue /\ clock' = clock /\ w[p].pc = "resume"
      /\ Put(p, r) /\ Update(w[p].e, row)
  BY DateHere DEF ResumeFlow, At
<1>2. row.st = "running" /\ row.due = w[p].mx.due /\ w[p].e \in Executions
  BY <1>1, Here DEF LocalOK, ExecRow
<1>3. r.pc = "load" /\ r.e = w[p].e /\ r.job = w[p].job /\ r.mx = row
  BY <1>1 DEF Worker
<1> HIDE DEF row, r
<1>4. DateOK(p, r, clock)
  BY <1>1, <1>2, <1>3 DEF DateOK, ReadPCs, RescuePCs, Over
<1> QED
  BY <1>1, <1>2, <1>3, <1>4, DateHere, StoreDates

(* What a call that runs for a recovery reads is over.                     *)
LEMMA RescueReads ==
  ASSUME Inv, Kept, Dates, NEW p \in Workers, NEW e \in Executions,
         Handles(w[p], e), exec[e].st \in Live
  PROVE  w[p].job = "recover" => Over(exec[e], clock)
  BY DEF Dates, Unplanned, Planned

LEMMA LoopDates ==
  ASSUME Inv, Kept, Dates, NEW p \in Workers, Read(p) \/ Move(p)
  PROVE  Dates'
<1>1. /\ w[p] \in Worker /\ LocalOK(w[p]) /\ DateOK(p, w[p], clock)
      /\ queue' = queue /\ clock' = clock /\ w[p].pc \in {"load", "read", "move"}
      /\ w[p].e \in Executions /\ exec[w[p].e] \in ExecRow
  BY DateHere DEF Read, Move, At, LocalOK
<1>2. CASE Read(p)
  <2> DEFINE r1 == [w[p] EXCEPT !.pc = Exit(p), !.mc.active = NULL]
             x == [exec[w[p].e] EXCEPT !.node = w[p].node]
             r2 == [w[p] EXCEPT !.pc = "move", !.mx = x]
  <2>1. /\ NoWrite /\ w[p].pc \in {"load", "read"}
        /\ Put(p, r1) \/ (exec[w[p].e].st = "running" /\ Put(p, r2))
    BY <1>2, SameNoWrite DEF Read
  <2>2. x.due = exec[w[p].e].due
    BY <1>1 DEF ExecRow
  <2> HIDE DEF x
  <2>3. /\ r1.pc = Exit(p) /\ r1.e = w[p].e /\ r1.job = w[p].job
        /\ r2.pc = "move" /\ r2.e = w[p].e /\ r2.job = w[p].job /\ r2.mx = x
    BY <1>1 DEF Worker
  <2>4. r1.pc \in OutPCs
    BY <2>3, ExitPC DEF OutPCs, DonePCs
  <2> HIDE DEF r1, r2
  <2>5. CASE Put(p, r1)
    BY <1>1, <2>1, <2>3, <2>4, <2>5, LeaveDates
  <2>6. CASE exec[w[p].e].st = "running" /\ Put(p, r2)
    <3>1. Handles(w[p], w[p].e)
      BY <2>1 DEF Handles, HandPCs
    <3>2. w[p].job = "recover" => Over(exec[w[p].e], clock)
      BY <1>1, <2>6, <3>1, RescueReads
    <3>3. DateOK(p, r2, clock)
      BY <1>1, <2>2, <2>3, <3>2 DEF DateOK, ReadPCs, RescuePCs, Over
    <3>4. /\ \A e \in Executions : Handles(r2, e) =>
               Handles(w[p], e) /\ r2.mx.due = exec[e].due
          /\ \A e : ~Listens(r2, e)
      BY <2>2, <2>3, <3>1 DEF Handles, Listens, ReadPCs
    <3> QED
      BY <1>1, <2>1, <2>3, <2>6, <3>3, <3>4, DateHere, KeepDates
  <2> QED
    BY <2>1, <2>5, <2>6
<1>3. CASE Move(p)
  <2> DEFINE r == [w[p] EXCEPT !.pc = "handle"]
  <2>1. /\ w[p].pc = "move" /\ Put(p, r)
        /\ Update(w[p].e, w[p].mx) /\ w[p].mx.st = "running"
    BY <1>1, <1>3 DEF Move, Goto, At, LocalOK
  <2>2. /\ r.pc = "handle" /\ r.e = w[p].e /\ r.job = w[p].job /\ r.mx = w[p].mx
    BY <1>1 DEF Worker
  <2> HIDE DEF r
  <2>3. DateOK(p, r, clock)
    BY <1>1, <2>1, <2>2 DEF DateOK, ReadPCs, RescuePCs
  <2> QED
    BY <1>1, <2>1, <2>2, <2>3, DateHere, StoreDates
<1> QED
  BY <1>2, <1>3

LEMMA PauseDates ==
  ASSUME Inv, Kept, Dates, NEW p \in Workers, Pause(p) PROVE Dates'
<1> DEFINE row == [w[p].mx EXCEPT !.st = "paused"]
           r == [w[p] EXCEPT !.pc = Exit(p), !.mx.st = "paused"]
<1>1. /\ w[p] \in Worker /\ DateOK(p, w[p], clock) /\ w[p].pc = "pause"
      /\ w[p].e \in Executions /\ w[p].mx \in ExecRow
      /\ clock' = clock /\ queue' = queue /\ Put(p, r) /\ Update(w[p].e, row)
  BY DateHere, Here DEF Pause, At, LocalOK
<1>2. /\ r.pc \in {"unlock", "check", "save"} /\ r.e = w[p].e
      /\ r.job = w[p].job
  BY <1>1, ExitPC DEF Worker
<1>3. row.st = "paused" /\ row.due = w[p].mx.due
  BY <1>1 DEF ExecRow
<1> HIDE DEF r, row
<1>4. DateOK(p, r, clock) /\ r.pc \notin HandPCs \cup ReadPCs
  BY <1>1, <1>2 DEF DateOK, ReadPCs, RescuePCs, HandPCs
<1> QED
  BY <1>1, <1>2, <1>3, <1>4, DateHere, StoreDates

LEMMA HandledDates ==
  ASSUME Inv, Kept, Dates, NEW p \in Workers, w[p].pc = "handle",
         UNCHANGED <<exec, queue, clock>>,
         \/ \E row, c : /\ Advance(p, row, c)
                        /\ row.due = w[p].mx.due \/ Undated(row)
         \/ FailNode(p)
  PROVE  Dates'
<1>1. w[p] \in Worker /\ NoWrite
  BY DateHere, SameNoWrite
<1>2. ASSUME NEW row, NEW c, Advance(p, row, c),
             row.due = w[p].mx.due \/ Undated(row)
      PROVE  Dates'
  <2> DEFINE n == Target[w[p].node]
             r1 == [w[p] EXCEPT !.late = Ran(p), !.mc = c, !.node = n,
                                !.pc = "finish", !.mx = Completed(row)]
             r2 == [w[p] EXCEPT !.late = Ran(p), !.mc = c, !.node = n,
                                !.pc = "read", !.mx = row]
  <2>1. Put(p, r1) \/ Put(p, r2)
    <3>1. CASE n = NULL
      BY <1>2, <3>1 DEF Advance
    <3>2. CASE n # NULL
      BY <1>2, <3>2 DEF Advance
    <3> QED
      BY <3>1, <3>2
  <2> HIDE DEF n
  <2>2. /\ r1.pc = "finish" /\ r1.e = w[p].e /\ r1.job = w[p].job
        /\ r2.pc = "read" /\ r2.e = w[p].e /\ r2.job = w[p].job /\ r2.mx = row
    BY <1>1 DEF Worker
  <2> HIDE DEF r1, r2
  <2>3. CASE Put(p, r1)
    BY <1>1, <2>2, <2>3, LeaveDates DEF OutPCs
  <2>4. CASE Put(p, r2)
    BY <1>1, <1>2, <2>2, <2>4, LoopOnDates
  <2> QED
    BY <2>1, <2>3, <2>4
<1>3. CASE FailNode(p)
  <2> DEFINE r == [w[p] EXCEPT !.late = Ran(p), !.pc = "finish",
                               !.mx = Failed(w[p].mx)]
  <2>1. Put(p, r) /\ r.pc = "finish" /\ r.e = w[p].e /\ r.job = w[p].job
    BY <1>1, <1>3 DEF FailNode, Worker
  <2> HIDE DEF r
  <2> QED
    BY <1>1, <2>1, LeaveDates DEF OutPCs
<1> QED
  BY <1>2, <1>3

LEMMA ParkedDates ==
  ASSUME Inv, Kept, Dates, NEW p \in Workers, w[p].pc = "handle",
         UNCHANGED <<exec, queue, clock>>,
         NEW label \in {"schedule", "pause"}, NEW row, ParkAt(p, label, row),
         row.due = w[p].mx.due \/ (label = "schedule" /\ Undated(w[p].mx))
  PROVE  Dates'
<1> DEFINE r == [w[p] EXCEPT !.late = Ran(p), !.pc = label, !.mx = row]
<1>1. w[p] \in Worker /\ NoWrite /\ Put(p, r)
  BY DateHere, SameNoWrite DEF ParkAt
<1>2. r.pc = label /\ r.e = w[p].e /\ r.job = w[p].job /\ r.mx = row
  BY <1>1 DEF Worker
<1> HIDE DEF r
<1> QED
  BY <1>1, <1>2, LoopOnDates

LEMMA NodeDates ==
  ASSUME Inv, Kept, Dates, OneInterval, NEW p \in Workers,
         \/ RunMessage(p) \/ RunInput(p) \/ RunInterval(p)
         \/ RunTransfer(p) \/ RunEnd(p)
  PROVE  Dates'
<1>1. /\ w[p].pc = "handle" /\ UNCHANGED <<exec, queue, clock>>
      /\ w[p].mx \in ExecRow /\ w[p].node \in Nodes
  <2>1. w[p].pc = "handle" /\ UNCHANGED <<exec, queue, clock>>
    BY DEF RunMessage, RunInput, RunInterval, RunTransfer, RunEnd, OnNode, At
  <2> QED
    BY <2>1, Here DEF LocalOK
<1>2. CASE RunMessage(p) \/ RunTransfer(p) \/ RunEnd(p)
  <2>1. FailNode(p) \/ \E c : Advance(p, w[p].mx, c)
    BY <1>2 DEF RunMessage, RunTransfer, RunEnd
  <2> QED
    BY <1>1, <2>1, HandledDates
<1>3. CASE RunInput(p)
  <2> DEFINE n == w[p].node
             x == w[p].mx
             asks == [x EXCEPT !.asked = @ \cup {n}]
             heard == [x EXCEPT !.asked = @ \ {n}]
  <2>1. asks.due = x.due /\ heard.due = x.due
    BY <1>1 DEF ExecRow
  <2>2. \/ Advance(p, heard, w[p].mc)
        \/ FailNode(p)
        \/ ParkAt(p, "pause", x)
        \/ ParkAt(p, "pause", asks)
    BY <1>3 DEF RunInput
  <2> HIDE DEF n, asks, heard
  <2> QED
    BY <1>1, <2>1, <2>2, HandledDates, ParkedDates
<1>4. CASE RunInterval(p)
  <2> DEFINE n == w[p].node
             x == w[p].mx
             waits == [x EXCEPT !.due[n] = clock + Delay]
             over == [x EXCEPT !.due[n] = NULL]
  <2>1. n \in Intervals /\ \A m \in Intervals : m = n
    BY <1>1, <1>4 DEF RunInterval, OnNode, Intervals, OneInterval
  <2>2. Undated(over)
    BY <1>1, <2>1 DEF Undated, ExecRow
  <2>3. x.due[n] = NULL => Undated(x)
    BY <2>1 DEF Undated
  <2>4. \/ Advance(p, over, w[p].mc)
        \/ ParkAt(p, "schedule", x)
        \/ x.due[n] = NULL /\ ParkAt(p, "schedule", waits)
    BY <1>4 DEF RunInterval
  <2> HIDE DEF n, waits, over
  <2> QED
    BY <1>1, <2>2, <2>3, <2>4, HandledDates, ParkedDates
<1> QED
  BY <1>2, <1>3, <1>4

LEMMA ScheduleDates ==
  ASSUME Inv, Kept, Dates, NEW p \in Workers, Schedule(p) PROVE Dates'
<1>1. /\ w[p] \in Worker /\ NoWrite /\ exec' = exec
      /\ w[p].pc = "schedule" /\ clock' = clock
  BY DateHere, SameNoWrite DEF Schedule, At
<1> DEFINE r(l) == [w[p] EXCEPT !.pc = l]
<1>2. PICK l \in {"pause", "unlock", "check", "save"} :
        Put(p, r(l)) /\ (queue' = queue \/ Publish(p))
  <2>1. Exit(p) \in {"unlock", "check", "save"}
    BY ExitPC
  <2> QED
    BY <2>1 DEF Schedule, Goto
<1>3. /\ r(l).pc = l /\ r(l).e = w[p].e /\ r(l).job = w[p].job
      /\ r(l).mx = w[p].mx
  BY <1>1 DEF Worker
<1> HIDE DEF r
<1>4. CASE queue' = queue
  <2>1. CASE l = "pause"
    BY <1>1, <1>2, <1>3, <1>4, <2>1, LoopOnDates
  <2>2. CASE l # "pause"
    BY <1>1, <1>2, <1>3, <1>4, <2>2, LeaveDates DEF OutPCs, DonePCs
  <2> QED
    BY <2>1, <2>2
<1>5. CASE Publish(p)
  <2>1. PICK ttl \in NormalizeDelay(w[p].mx.due[w[p].node] - clock) :
          queue' = queue \cup {[e |-> w[p].e, at |-> clock + ttl]}
    BY <1>5 DEF Publish
  <2> DEFINE m == [e |-> w[p].e, at |-> clock + ttl]
  <2>2. m.e = w[p].e /\ queue' = queue \cup {m}
    BY <2>1
  <2> HIDE DEF m
  <2> QED
    BY <1>1, <1>2, <1>3, <2>2, PublishDates
<1> QED
  BY <1>2, <1>4, <1>5

-----------------------------------------------------------------------------
(* The calls that take up a paused execution.                              *)

LEMMA FindDates ==
  ASSUME Inv, Kept, Dates, OneTrigger, NEW p \in Workers, FindPaused(p)
  PROVE  Dates'
<1>0. UNCHANGED <<exec, queue, clock>> /\ w[p].pc = "findPaused"
  BY Zenon DEF FindPaused, At
<1>1. /\ w[p] \in Worker /\ DateOK(p, w[p], clock) /\ NoWrite
      /\ w[p].e # NULL => exec'[w[p].e].st # "none"
  BY <1>0, DateHere, SameNoWrite
<1>2. w[p].job = "trigger"
  BY <1>0, <1>1 DEF DateOK
<1> DEFINE r1(e) == [w[p] EXCEPT !.pc = "resume", !.via = "resume",
                                 !.e = e, !.mx = exec[e]]
           r2 == [w[p] EXCEPT !.pc = "lock", !.via = "execute"]
<1>3. \/ Stop(p)
      \/ \E e \in Latest(WithStatus("paused")) : Put(p, r1(e))
      \/ Put(p, r2)
  BY Zenon DEF FindPaused
<1>4. /\ r2.pc = "lock" /\ r2.e = w[p].e /\ r2.job = w[p].job
      /\ \A e : /\ r1(e).pc = "resume" /\ r1(e).job = w[p].job
                /\ r1(e).e = e /\ r1(e).mx = exec[e]
  BY <1>1 DEF Worker
<1> HIDE DEF r1, r2
<1>5. CASE Put(p, r2)
  <2>1. r2.pc \notin HandPCs \cup ReadPCs
    BY <1>4 DEF HandPCs, ReadPCs
  <2> QED
    BY <1>0, <1>1, <1>2, <1>4, <1>5, <2>1, OutDates DEF DateOK
<1>6. ASSUME NEW e \in Latest(WithStatus("paused")), Put(p, r1(e)) PROVE Dates'
  <2>1. e \in Executions /\ exec[e].st = "paused"
    BY DEF Latest, WithStatus
  <2>2. DateOK(p, r1(e), clock)
    BY <1>0, <1>1, <1>2, <1>4 DEF DateOK, ReadPCs, RescuePCs
  <2>3. w[p].pc \notin HandPCs
    BY <1>0 DEF HandPCs
  <2> QED
    BY <1>0, <1>2, <1>4, <1>6, <2>1, <2>2, <2>3, TakeDates
<1> QED
  BY <1>0, <1>1, <1>3, <1>5, <1>6, StopDates

LEMMA DeliverDates ==
  ASSUME Inv, Kept, Dates, NEW p \in Workers, NEW m \in queue, Deliver(p, m)
  PROVE  Dates'
<1> DEFINE r == [Idle EXCEPT !.pc = "readBoth", !.job = "resume", !.e = m.e,
                             !.msg = m]
<1>1. /\ Put(p, r) /\ queue' \subseteq queue /\ exec' = exec /\ clock' = clock
  BY DEF Deliver
<1>2. r.pc = "readBoth" /\ r.job = "resume" /\ r.e = m.e
  BY DEF Idle
<1> HIDE DEF r
<1>3. exec'[m.e].st # "none" /\ NoWrite
  BY <1>1, SameNoWrite DEF Dates, KnownRows
<1>4. DateOK(p, r, clock)
  BY <1>2 DEF DateOK, ReadPCs, RescuePCs
<1>5. \A e \in Executions : /\ ~Handles(r, e) /\ ~SawPause(r)
                            /\ Listens(r, e) => m.e = e
  BY <1>2 DEF Handles, Listens, HandPCs, SawPause
<1> QED
  BY <1>1, <1>2, <1>3, <1>4, <1>5, KeepDates

LEMMA FetchFirstDates ==
  ASSUME Inv, Kept, Dates, NEW p \in Workers, FetchFirst(p) PROVE Dates'
<1> DEFINE r1 == [w[p] EXCEPT !.pc = "readConv", !.mx = exec[w[p].e]]
           r2 == [w[p] EXCEPT !.pc = "readExec", !.mc = conv]
<1>1. /\ w[p] \in Worker /\ DateOK(p, w[p], clock) /\ NoWrite
      /\ queue' = queue /\ clock' = clock /\ exec' = exec
      /\ w[p].pc = "readBoth" /\ (Put(p, r1) \/ Put(p, r2))
  BY DateHere, SameNoWrite DEF FetchFirst, At
<1>2. /\ r1.pc = "readConv" /\ r1.e = w[p].e /\ r1.job = w[p].job
      /\ r1.mx = exec[w[p].e]
      /\ r2.pc = "readExec" /\ r2.e = w[p].e /\ r2.job = w[p].job
  BY <1>1 DEF Worker
<1> HIDE DEF r1, r2
<1>3. DateOK(p, r1, clock) /\ DateOK(p, r2, clock)
  BY <1>1, <1>2 DEF DateOK, ReadPCs, RescuePCs
<1>4. \A e \in Executions :
        /\ ~Handles(r1, e) /\ ~Handles(r2, e) /\ ~SawPause(r2)
        /\ Listens(r1, e) => Listens(w[p], e) /\ r1.mx = exec[e]
        /\ Listens(r2, e) => Listens(w[p], e)
        /\ SawPause(r1) /\ Listens(r1, e) => exec[e].st = "paused"
  BY <1>1, <1>2 DEF Handles, Listens, HandPCs, ReadPCs, SawPause
<1> QED
  BY <1>1, <1>2, <1>3, <1>4, DateHere, KeepDates

(* The consumer that decides has read a pause, so the date is stored.      *)
LEMMA DecideDates ==
  ASSUME Inv, Kept, Dates, OneTrigger, NEW p \in Workers,
         UNCHANGED <<exec, queue, clock>>, NEW row, NEW c, Decide(p, row, c),
         \/ w[p].pc = "readConv" /\ row = w[p].mx
         \/ w[p].pc = "readExec" /\ row = exec[w[p].e]
  PROVE  Dates'
<1> DEFINE r1 == [w[p] EXCEPT !.pc = "endStale", !.mx = Completed(row)]
           r2 == [w[p] EXCEPT !.pc = "resume", !.via = "resume", !.mx = row,
                              !.mc = c]
           e == w[p].e
<1>1. /\ w[p] \in Worker /\ DateOK(p, w[p], clock) /\ NoWrite
      /\ e \in Executions
  BY DateHere, SameNoWrite DEF LocalOK
<1>2. /\ r1.pc = "endStale" /\ r1.e = e /\ r1.job = w[p].job
      /\ r2.pc = "resume" /\ r2.e = e /\ r2.job = w[p].job /\ r2.mx = row
  BY <1>1 DEF Worker
<1>3. Stop(p) \/ Put(p, r1) \/ (row.st = "paused" /\ Put(p, r2))
  BY DEF Decide
<1> HIDE DEF r1, r2
<1>4. CASE row.st = "paused" /\ Put(p, r2)
  <2>1. Listens(w[p], e) /\ w[p].job = "resume" /\ w[p].pc \notin HandPCs
    BY <1>1 DEF Listens, ReadPCs, HandPCs, DateOK
  <2>2. ~(exec[e].st \in Live /\ Undated(exec[e]))
    BY <1>1, <1>4, <2>1 DEF Dates, Unplanned, SawPause
  <2>3. exec[e].st \in Live /\ ~Undated(exec[e]) => row.due = exec[e].due
    BY <1>1, <1>4, <2>1 DEF Dates, Planned, SawPause
  <2>4. DateOK(p, r2, clock)
    BY <1>1, <1>2, <2>1 DEF DateOK, ReadPCs, RescuePCs
  <2>5. r2.e # NULL => exec'[r2.e].st # "none"
    BY <1>2, DateHere
  <2> HIDE DEF e
  <2> QED
    BY <1>1, <1>2, <1>4, <2>1, <2>2, <2>3, <2>4, <2>5, TakeDates
<1>5. CASE Put(p, r1)
  BY <1>1, <1>2, <1>5, LeaveDates DEF OutPCs, DonePCs
<1> QED
  BY <1>1, <1>3, <1>4, <1>5, StopDates

LEMMA ConsumerDates ==
  ASSUME Inv, Kept, Dates, OneTrigger, NEW p \in Workers,
         FetchSecond(p) \/ EndStale(p) \/ Clear(p)
  PROVE  Dates'
<1>1. CASE FetchSecond(p)
  <2>1. UNCHANGED <<exec, queue, clock>>
    BY <1>1 DEF FetchSecond
  <2>2. \/ w[p].pc = "readConv" /\ Decide(p, w[p].mx, conv)
        \/ w[p].pc = "readExec" /\ Decide(p, exec[w[p].e], w[p].mc)
    BY <1>1 DEF FetchSecond, At
  <2> QED
    BY <2>1, <2>2, DecideDates
<1>2. CASE EndStale(p)
  <2>1. /\ queue' = queue /\ clock' = clock /\ w[p].pc = "endStale"
        /\ Goto(p, "clear") /\ Update(w[p].e, w[p].mx)
        /\ w[p].e \in Executions /\ w[p].mx.st \in Terminal
    BY <1>2, DateHere DEF EndStale, At, LocalOK
  <2> QED
    BY <2>1, EndNoWrite, LeaveDatesTo DEF OutPCs, DonePCs
<1>3. CASE Clear(p)
  <2>1. Stop(p) /\ queue' = queue /\ clock' = clock /\ exec' = exec
    BY <1>3 DEF Clear
  <2> QED
    BY <2>1, SameNoWrite, StopDates
<1> QED
  BY <1>1, <1>2, <1>3

(* A recovery lists the execution whose interval is over.                  *)
LEMMA RecoverDates ==
  ASSUME Inv, Kept, Dates, OneTrigger, OneInterval, NEW p \in Workers,
         \/ RecoverConv(p) \/ Rollback(p)
         \/ \E e \in Executions : RecoverList(p, e)
  PROVE  Dates'
<1>1. w[p] \in Worker /\ DateOK(p, w[p], clock)
  BY DateHere
<1>2. ~Rollback(p)
  BY <1>1 DEF Rollback, At, DateOK
<1>3. CASE RecoverConv(p)
  <2> DEFINE r == [w[p] EXCEPT !.pc = "resume", !.via = "resume", !.mc = conv]
  <2>1. /\ w[p].pc = "recoverConv" /\ Put(p, r) /\ NoWrite
        /\ UNCHANGED <<exec, queue, clock>>
    BY <1>3, SameNoWrite DEF RecoverConv, At
  <2>2. r.pc = "resume" /\ r.e = w[p].e /\ r.job = w[p].job /\ r.mx = w[p].mx
    BY <1>1 DEF Worker
  <2> HIDE DEF r
  <2>3. DateOK(p, r, clock)
    BY <1>1, <2>1, <2>2 DEF DateOK, ReadPCs, RescuePCs
  <2>4. ASSUME NEW e \in Executions, Handles(r, e)
        PROVE  /\ Handles(w[p], e)
               /\ \/ Undated(exec[e]) \/ exec[e].st \notin Live
                  \/ r.mx.due = exec[e].due
    <3>1. Handles(w[p], e)
      BY <2>1, <2>2, <2>4 DEF Handles, HandPCs
    <3> QED
      BY <2>1, <2>2, <3>1 DEF Dates, Planned
  <2>5. \A e : ~Listens(r, e)
    BY <2>2 DEF Listens, ReadPCs
  <2> QED
    BY <2>1, <2>2, <2>3, <2>4, <2>5, DateHere, KeepDates
<1>4. ASSUME NEW e \in Executions, RecoverList(p, e) PROVE Dates'
  <2> DEFINE r == [Idle EXCEPT !.pc = "recoverConv", !.job = "recover",
                               !.e = e, !.mx = exec[e]]
  <2>1. /\ w[p].pc = "idle" /\ Put(p, r) /\ UNCHANGED <<exec, queue, clock>>
        /\ exec[e].st = "paused"
        /\ \E n \in Intervals : exec[e].due[n] # NULL /\ exec[e].due[n] <= clock
    BY <1>4 DEF RecoverList, Begin, At, WithStatus
  <2>2. r.pc = "recoverConv" /\ r.job = "recover" /\ r.e = e /\ r.mx = exec[e]
    BY DEF Idle
  <2> HIDE DEF r
  <2>3. ~Undated(exec[e]) /\ Over(exec[e], clock)
    BY <2>1 DEF Undated, Over, OneInterval
  <2>4. DateOK(p, r, clock)
    BY <2>2, <2>3 DEF DateOK, ReadPCs, RescuePCs
  <2>5. w[p].pc \notin HandPCs
    BY <2>1 DEF HandPCs
  <2> QED
    BY <2>1, <2>2, <2>3, <2>4, <2>5, TakeDates
<1> QED
  BY <1>2, <1>3, <1>4

-----------------------------------------------------------------------------
(* The calls that take up no execution.                                    *)

LEMMA TriggerDates ==
  ASSUME Inv, Kept, Dates, NEW p \in Workers,
         TriggerLoad(p) \/ Check(p) \/ Save(p)
  PROVE  Dates'
<1>0. UNCHANGED <<exec, queue, clock>>
  BY Zenon DEF TriggerLoad, Check, Save
<1>1. NoWrite /\ queue' \subseteq queue /\ clock' = clock
  BY <1>0, SameNoWrite
<1>2. CASE TriggerLoad(p)
  <2> DEFINE r == [Idle EXCEPT !.pc = "findPaused", !.job = "trigger",
                               !.mc = conv, !.user = TRUE]
  <2>1. "trigger" \in Jobs[p] /\ Put(p, r)
    BY <1>2 DEF TriggerLoad, Begin
  <2>2. r.pc = "findPaused" /\ r.job = "trigger" /\ r.e = NULL
    BY DEF Idle
  <2> HIDE DEF r
  <2> QED
    BY <1>1, <2>1, <2>2, OutDates DEF HandPCs, ReadPCs
<1>3. CASE Check(p)
  <2>1. w[p].pc = "check" /\ (Stop(p) \/ Goto(p, "save"))
    BY <1>3 DEF Check, At
  <2> QED
    BY <1>1, <2>1, StopDates, LeaveDatesTo DEF OutPCs, DonePCs
<1>4. CASE Save(p)
  <2>1. w[p].pc = "save" /\ (Stop(p) \/ Goto(p, "endRunning"))
    BY <1>4 DEF Save, At
  <2> QED
    BY <1>1, <2>1, StopDates, LeaveDatesTo DEF OutPCs, DonePCs
<1> QED
  BY <1>2, <1>3, <1>4

LEMMA EndOneDates ==
  ASSUME Inv, Kept, Dates, NEW p \in Workers, EndOne(p), queue' = queue,
         clock' = clock, w[p].pc \in {"endListed", "endEach"}
  PROVE  Dates'
<1>1. /\ w[p] \in Worker /\ DateOK(p, w[p], clock)
      /\ w[p].e # NULL => exec'[w[p].e].st # "none"
  BY DateHere
<1> DEFINE r(e) == [w[p] EXCEPT !.todo = @ \ {e}]
<1>2. PICK e \in w[p].todo : Update(e, Completed(exec[e])) /\ Put(p, r(e))
  BY Zenon DEF EndOne
<1>3. e \in Executions /\ exec[e] \in ExecRow
  BY <1>1, <1>2, Here DEF Worker
<1>4. NoWrite
  BY <1>2, <1>3, CompletedRow, EndNoWrite
<1>5. r(e).pc = w[p].pc /\ r(e).e = w[p].e /\ r(e).job = w[p].job
  BY <1>1 DEF Worker
<1> HIDE DEF r
<1>6. CASE w[p].pc = "endListed"
  BY <1>1, <1>2, <1>4, <1>5, <1>6, OutDates DEF DateOK, HandPCs, ReadPCs
<1>7. CASE w[p].pc = "endEach"
  BY <1>2, <1>4, <1>5, <1>7, LeaveDates DEF OutPCs, DonePCs
<1> QED
  BY <1>6, <1>7

LEMMA ManualDates ==
  ASSUME Inv, Kept, Dates, NEW p \in Workers,
         ManualLoad(p) \/ ManualList(p) \/ ManualEnd(p)
  PROVE  Dates'
<1>1. /\ w[p] \in Worker /\ DateOK(p, w[p], clock)
      /\ queue' = queue /\ clock' = clock
      /\ w[p].e # NULL => exec'[w[p].e].st # "none"
  BY DateHere DEF ManualLoad, ManualList, ManualEnd
<1>2. CASE ManualLoad(p)
  <2> DEFINE r == [Idle EXCEPT !.pc = "listPaused", !.job = "manual",
                               !.mc = conv]
  <2>1. Put(p, r) /\ NoWrite
    BY <1>2, SameNoWrite DEF ManualLoad
  <2>2. r.pc = "listPaused" /\ r.job = "manual" /\ r.e = NULL
    BY DEF Idle
  <2> HIDE DEF r
  <2> QED
    BY <1>1, <2>1, <2>2, OutDates DEF HandPCs, ReadPCs
<1>3. CASE ManualList(p)
  <2> DEFINE S == {e \in WithStatus("paused") : exec[e].node \notin Intervals}
             r == [w[p] EXCEPT !.pc = "endListed", !.todo = S]
  <2>1. w[p].pc = "listPaused" /\ Put(p, r) /\ NoWrite
    BY <1>3, SameNoWrite DEF ManualList, At
  <2> HIDE DEF S
  <2>2. r.pc = "endListed" /\ r.job = w[p].job /\ r.e = w[p].e
    BY <1>1 DEF Worker
  <2>3. w[p].job = "manual"
    BY <1>1, <2>1 DEF DateOK
  <2> HIDE DEF r
  <2> QED
    BY <1>1, <2>1, <2>2, <2>3, OutDates DEF HandPCs, ReadPCs
<1>4. CASE ManualEnd(p)
  <2> DEFINE r == [w[p] EXCEPT !.pc = "lock", !.via = "execute",
                               !.mc.active = NULL]
  <2>1. w[p].pc = "endListed"
    BY <1>4 DEF ManualEnd, At
  <2>2. EndOne(p) \/ (Put(p, r) /\ exec' = exec)
    BY <1>4, Zenon DEF ManualEnd
  <2>3. r.pc = "lock" /\ r.job = w[p].job /\ r.e = w[p].e
    BY <1>1 DEF Worker
  <2>4. w[p].job = "manual"
    BY <1>1, <2>1 DEF DateOK
  <2> HIDE DEF r
  <2>5. CASE EndOne(p)
    BY <1>1, <2>1, <2>5, EndOneDates
  <2>6. CASE Put(p, r) /\ exec' = exec
    BY <1>1, <2>3, <2>4, <2>6, SameNoWrite, OutDates DEF HandPCs, ReadPCs
  <2> QED
    BY <2>2, <2>5, <2>6
<1> QED
  BY <1>2, <1>3, <1>4

LEMMA TakeoverDates ==
  ASSUME Inv, Kept, Dates, NEW p \in Workers,
         \/ \E u \in Users : Assign(p, u)
         \/ \E u \in Users, t \in BOOLEAN : ReplyLoad(p, u, t)
         \/ \E u \in Users \cup {NULL} : TransferLoad(p, u)
         \/ EndConversation(p, "close", "closed")
         \/ EndConversation(p, "expire", "expired")
  PROVE  Dates'
<1>1. UNCHANGED <<exec, queue, clock>>
  BY TakeoverShape, Zenon
<1>2. PICK r : BeginsAs(r) /\ Put(p, r)
  BY TakeoverShape, Zenon
<1>3. NoWrite
  BY <1>1, SameNoWrite
<1> QED
  BY <1>1, <1>2, <1>3, OutDates DEF BeginsAs, HandPCs, ReadPCs

LEMMA TerminatorDates ==
  ASSUME Inv, Kept, Dates, NEW p \in Workers,
         FindRunning(p) \/ FindAllPaused(p) \/ TerminateEach(p)
  PROVE  Dates'
<1>1. w[p] \in Worker /\ queue' = queue /\ clock' = clock
  BY DateHere DEF FindRunning, FindAllPaused, TerminateEach
<1> DEFINE r(l, S) == [w[p] EXCEPT !.pc = l, !.todo = S]
<1>2. \A l, S : /\ r(l, S).pc = l /\ r(l, S).e = w[p].e
                /\ r(l, S).job = w[p].job
  BY <1>1 DEF Worker
<1>3. CASE FindRunning(p)
  <2>1. /\ w[p].pc = "endRunning" /\ exec' = exec
        /\ Put(p, r("endPaused", Latest(WithStatus("running"))))
    BY <1>3, Zenon DEF FindRunning, At
  <2> HIDE DEF r
  <2> QED
    BY <1>1, <1>2, <2>1, LeaveDates, SameNoWrite DEF OutPCs, DonePCs
<1>4. CASE FindAllPaused(p)
  <2>1. /\ w[p].pc = "endPaused" /\ exec' = exec
        /\ Put(p, r("endEach", w[p].todo \cup WithStatus("paused")))
    BY <1>4, Zenon DEF FindAllPaused, At
  <2> HIDE DEF r
  <2> QED
    BY <1>1, <1>2, <2>1, LeaveDates, SameNoWrite DEF OutPCs, DonePCs
<1>5. CASE TerminateEach(p)
  <2>1. /\ w[p].pc = "endEach"
        /\ EndOne(p) \/ (Goto(p, "clear") /\ exec' = exec)
    BY <1>5, Zenon DEF TerminateEach, At
  <2> QED
    BY <1>1, <2>1, EndOneDates, LeaveDatesTo, SameNoWrite DEF OutPCs, DonePCs
<1> QED
  BY <1>3, <1>4, <1>5

LEMMA CloseDates ==
  ASSUME Inv, Kept, Dates, NEW p \in Workers, CheckFlow(p) \/ EndFlow(p)
  PROVE  Dates'
<1>1. /\ w[p] \in Worker /\ LocalOK(w[p]) /\ DateOK(p, w[p], clock)
      /\ queue' = queue /\ clock' = clock
  BY DateHere DEF CheckFlow, EndFlow
<1>2. CASE CheckFlow(p)
  <2> DEFINE a == w[p].mc.active
             r1 == [w[p] EXCEPT !.pc = "endFlow", !.e = a,
                                !.mx = Completed(exec[a])]
             r2 == [w[p] EXCEPT !.pc = "save"]
  <2>1. /\ w[p].pc = "checkFlow" /\ exec' = exec
        /\ (exec[a].st \in Live /\ Put(p, r1)) \/ Put(p, r2)
    BY <1>2, Zenon DEF CheckFlow, Goto, At
  <2>2. exec[a].st \in Live => exec'[a].st # "none"
    BY <2>1
  <2> HIDE DEF a
  <2>3. /\ r1.pc = "endFlow" /\ r1.job = w[p].job /\ r1.e = a
        /\ r2.pc = "save" /\ r2.job = w[p].job /\ r2.e = w[p].e
    BY <1>1 DEF Worker
  <2>4. w[p].job = "trigger" => "trigger" \in Jobs[p]
    BY <1>1, <2>1 DEF DateOK
  <2> HIDE DEF r1, r2
  <2>5. CASE exec[a].st \in Live /\ Put(p, r1)
    BY <1>1, <2>1, <2>2, <2>3, <2>4, <2>5, SameNoWrite, OutDates
       DEF HandPCs, ReadPCs
  <2>6. CASE Put(p, r2)
    BY <1>1, <2>1, <2>3, <2>6, SameNoWrite, LeaveDates DEF OutPCs, DonePCs
  <2> QED
    BY <2>1, <2>5, <2>6
<1>3. CASE EndFlow(p)
  <2> DEFINE r == [w[p] EXCEPT !.pc = "save", !.mc.active = NULL]
  <2>1. /\ w[p].pc = "endFlow" /\ w[p].e \in Executions
        /\ w[p].mx.st \in Terminal /\ Update(w[p].e, w[p].mx) /\ Put(p, r)
    BY <1>1, <1>3 DEF EndFlow, At, LocalOK
  <2>2. r.pc = "save" /\ r.e = w[p].e /\ r.job = w[p].job
    BY <1>1 DEF Worker
  <2> HIDE DEF r
  <2> QED
    BY <1>1, <2>1, <2>2, EndNoWrite, LeaveDates DEF OutPCs, DonePCs
<1> QED
  BY <1>2, <1>3

LEMMA ReconnectDates ==
  ASSUME Inv, Kept, Dates, NEW p \in Workers,
         Reopen(p) \/ ReconnectTerminate(p) \/ ReconnectClear(p)
  PROVE  Dates'
<1>1. CASE Reopen(p)
  <2>1. UNCHANGED <<exec, queue, clock, w>>
    BY <1>1 DEF Reopen
  <2> QED
    BY <2>1 DEF Dates, KnownRows, Unplanned, Planned
<1>2. CASE ReconnectTerminate(p)
  <2> DEFINE r == [Idle EXCEPT !.pc = "clearChannel", !.job = "reconnect"]
  <2>1. Put(p, r) /\ queue' = queue /\ clock' = clock
    BY <1>2 DEF ReconnectTerminate
  <2>2. NoWrite
    BY <1>2, Here, CompletedRow DEF ReconnectTerminate, NoWrite
  <2>3. r.pc = "clearChannel" /\ r.job = "reconnect" /\ r.e = NULL
    BY DEF Idle
  <2> HIDE DEF r
  <2> QED
    BY <2>1, <2>2, <2>3, OutDates DEF HandPCs, ReadPCs
<1>3. CASE ReconnectClear(p)
  <2>1. Stop(p) /\ exec' = exec /\ queue' = queue /\ clock' = clock
    BY <1>3 DEF ReconnectClear
  <2> QED
    BY <2>1, SameNoWrite, StopDates
<1> QED
  BY <1>1, <1>2, <1>3

LEMMA StepDates ==
  ASSUME Inv, Kept, Dates, OneTrigger, OneInterval, NEW p \in Workers,
         Continue(p) \/ Start(p) \/ Consume(p)
  PROVE  Dates'
<1>1. CASE Continue(p)
  BY <1>1, CreateDates, ClaimDates, EndDates, ResumeDates, LoopDates,
     NodeDates, ScheduleDates, PauseDates, FindDates, TriggerDates,
     FetchFirstDates, ConsumerDates, RecoverDates, ManualDates,
     TerminatorDates, CloseDates, ReconnectDates DEF Continue
<1>2. CASE Start(p)
  BY <1>2, TriggerDates, ManualDates, ReconnectDates, RecoverDates,
     TakeoverDates DEF Start
<1>3. CASE Consume(p)
  BY <1>3, DeliverDates DEF Consume
<1> QED
  BY <1>1, <1>2, <1>3

LEMMA SameFaults ==
  ASSUME NEW p \in Workers, Continue(p) \/ Start(p) \/ Consume(p)
  PROVE  faults' = faults
<1>1. CASE Continue(p)
  BY <1>1, Zenon DEF Continue, Acquire, Create, FlowMissing, Claim, Reject,
     Unlock, ResumeFlow, Read, Move, RunMessage, RunInput, RunInterval,
     RunTransfer, RunEnd, Schedule, Pause, StoreEnd, FindPaused, Check, Save,
     FetchFirst, FetchSecond, EndStale, Clear, RecoverConv, Rollback,
     ManualList, ManualEnd, FindRunning, FindAllPaused, TerminateEach,
     CheckFlow, EndFlow, ReconnectClear
<1>2. CASE Start(p)
  BY <1>2, Zenon DEF Start, TriggerLoad, ManualLoad, Reopen,
     ReconnectTerminate, RecoverList, Assign, TransferLoad, ReplyLoad,
     EndConversation
<1>3. CASE Consume(p)
  BY <1>3, Zenon DEF Consume, Deliver
<1> QED
  BY <1>1, <1>2, <1>3

InitialDates == faults = 0 => Dates

LEMMA NextDates ==
  ASSUME OneTrigger, OneInterval, Inv, InitialDates, [Next]_vars
  PROVE  InitialDates'
<1>1. faults \in Nat /\ Kept
  BY NextKept DEF Inv, TypeOK
<1>2. CASE \E p \in Workers : QueryThrows(p) \/ Crash(p)
  BY <1>1, <1>2 DEF QueryThrows, Crash, Fault, InitialDates
<1>3. ASSUME NEW p \in Workers, Continue(p) \/ Start(p) \/ Consume(p)
      PROVE  InitialDates'
  <2>1. faults' = faults
    BY <1>3, SameFaults
  <2> QED
    BY <1>1, <1>3, <2>1, StepDates DEF InitialDates
<1>4. CASE Tick
  <2>1. faults' = faults
    BY <1>4 DEF Tick
  <2> QED
    BY <1>1, <1>4, <2>1, TickDates DEF InitialDates
<1>5. CASE LockExpires \/ UNCHANGED vars
  <2>1. UNCHANGED <<exec, queue, clock, faults, w>>
    BY <1>5 DEF LockExpires, vars
  <2> QED
    BY <2>1 DEF InitialDates, Dates, KnownRows, Unplanned, Planned
<1> QED
  BY <1>2, <1>3, <1>4, <1>5 DEF Next, Step

LEMMA InitDates == Init => InitialDates
<1> SUFFICES ASSUME Init PROVE Dates
  BY DEF InitialDates
<1>1. /\ \A p \in Workers : w[p] = Idle
      /\ queue = {} /\ \A e \in Executions : exec[e].st = "none"
  BY DEF Init, NoRow
<1> QED
  BY <1>1, IdleDates DEF Dates, KnownRows

(* A flow that waits at an interval not yet over has a message on its way  *)
(* to wake it, through every interleaving, crash and publish failure,      *)
(* while pauses are stored promptly and either no recovery runs, or flows  *)
(* have one interval, a conversation's triggers come one at a time and at  *)
(* most one thing fails.                                                   *)
THEOREM SleepersWake ==
  ASSUME Prompt, NULL \notin Message,
         NoRecovery \/ (OneInterval /\ OneTrigger /\ MaxFaults <= 1)
  PROVE  Spec => []WaitingIsScheduled
<1> DEFINE Known == NoRecovery \/ InitialDates
           WakeInv == Wakes /\ Known
<1>1. Init => WakeInv
  <2> SUFFICES ASSUME Init PROVE Wakes /\ InitialDates
    OBVIOUS
  <2>1. \A e \in Executions : ~Waits(exec[e], clock)
    BY DEF Init, Waits, NoRow
  <2>2. CallOK(Idle, queue, clock)
    BY DEF CallOK, Idle
  <2> QED
    BY <2>1, <2>2, InitDates DEF Init, Wakes
<1>2. Inv /\ WakeInv /\ [Next]_vars => WakeInv'
  <2> SUFFICES ASSUME Inv, Wakes, Known, [Next]_vars PROVE Wakes' /\ Known'
    OBVIOUS
  <2>1. Known'
    BY NextDates DEF NoRecovery
  <2>2. Rescues
    <3>1. CASE NoRecovery
      BY <3>1 DEF Wakes, CallOK, Rescues
    <3>2. CASE ~NoRecovery
      <4>1. faults < MaxFaults => Dates
        BY <3>2, FlowAssumption DEF InitialDates, Inv, TypeOK
      <4> QED
        BY <4>1 DEF Dates, DateOK, RescuePCs, Rescues
    <3> QED
      BY <3>1, <3>2
  <2>3. CASE \E p \in Workers : Step(p)
    BY <2>1, <2>2, <2>3, StepWakes
  <2>4. CASE LockExpires \/ UNCHANGED vars
    <3>1. UNCHANGED <<exec, queue, clock, w>>
      BY <2>4 DEF LockExpires, vars
    <3> QED
      BY <2>1, <3>1 DEF Wakes, Coming
  <2>5. CASE Tick
    BY <2>1, <2>5, TickWakes
  <2> QED
    BY <2>3, <2>4, <2>5 DEF Next
<1>3. WakeInv => WaitingIsScheduled
  BY DEF Wakes, Waits, Coming, Carries, WaitingIsScheduled, ResumePending
<1> QED
  BY InvHolds, <1>1, <1>2, <1>3, PTL DEF Spec

-----------------------------------------------------------------------------
(* Two resumes of one execution.  Links is inductive together with Inv     *)
(* while the conversation's triggers are handled one at a time, nobody     *)
(* calls RecoverStuckFlows, and either nothing fails or no flow asks a     *)
(* question after an interval: a message that a crash delivers twice finds *)
(* the execution paused at the question otherwise, and the consumer        *)
(* resumes it without an answer.                                           *)

Calm == MaxFaults = 0

(* The nodes a flow reaches from an interval, itself included.             *)
Closed(S) == \A n \in S : Target[n] \in S \cup {NULL}
Afterwards ==
  {n \in Nodes : \A S \in SUBSET Nodes :
                   Intervals \subseteq S /\ Closed(S) => n \in S}
QuestionsFirst == \A n \in Afterwards : Kind[n] # "input"

OwnPCs == NodePCs \cup {"claim", "resume", "finish"}

(* A call that writes the row of e as its own; it is alone unless it is a  *)
(* consumer whose message may have been delivered twice.                   *)
Owns(x, e) == x.pc \in OwnPCs /\ x.e = e
Alone(x) == Calm \/ x.job # "resume"

(* A consumer that may still take up e, or give its message back.          *)
Brings(x, e) == x.job = "resume" /\ x.e = e /\ (Calm => x.pc \in ReadPCs)
Consumes(x, e) ==
  x.job = "resume" /\ x.e = e /\ (Calm => x.pc \in ReadPCs \cup OwnPCs)

LinkOK(p, x) ==
  /\ x.pc = "idle" => x.e = NULL /\ x.msg = NULL
  /\ x.pc # "idle" =>
       /\ x.job # "recover"
       /\ x.job = "trigger" => "trigger" \in Jobs[p]
       /\ x.job = "resume" => x.pc \notin BeforeExec \cup {"claim", "reject"}
  /\ x.pc \notin RecoveryPCs
  /\ x.msg # NULL => x.job = "resume" /\ x.msg.e = x.e
  /\ x.pc \in ReadPCs => x.job = "resume"
  /\ x.pc = "findPaused" => x.job = "trigger"
  /\ x.pc = "resume" => x.job \in {"trigger", "resume"}
  /\ x.pc \in StagePCs => x.mx.node = x.node
  /\ x.pc = "pause" => Kind[x.node] \in {"input", "interval"}
  /\ ~Calm /\ x.job = "resume" =>
       /\ x.pc = "resume" \/ SawPause(x) => x.mx.node \in Intervals
       /\ x.pc \in NodePCs => x.node \in Afterwards

CallsLinked ==
  \A p \in Workers : /\ LinkOK(p, w[p])
                     /\ w[p].e # NULL => exec[w[p].e].st # "none"
MessagesLinked == \A m \in queue : exec[m.e].st # "none"

OneOwner ==
  \A p, q \in Workers, e \in Executions :
    Owns(w[p], e) /\ Owns(w[q], e) /\ Alone(w[p]) => p = q

(* A lone owner has published for e only when it is about to pause there,  *)
(* and no consumer has seen an earlier pause.                              *)
Quiet(e) ==
  (\A m \in queue : m.e # e) /\ (\A q \in Workers : ~Brings(w[q], e))
OwnerUnwoken ==
  \A p \in Workers, e \in Executions :
    Owns(w[p], e) /\ Alone(w[p]) =>
      /\ (w[p].pc = "pause" /\ w[p].node \in Intervals) \/ Quiet(e)
      /\ \A q \in Workers : Brings(w[q], e) => ~SawPause(w[q])

OneMessage ==
  Calm =>
    /\ \A m, n \in queue : m.e = n.e => m = n
    /\ \A p \in Workers, m \in queue : ~Brings(w[p], m.e)
    /\ \A p, q \in Workers, e \in Executions :
         Brings(w[p], e) /\ Brings(w[q], e) => p = q

OwnerRuns ==
  \A p \in Workers, e \in Executions :
    Owns(w[p], e) /\ Alone(w[p]) /\ w[p].pc # "resume" => exec[e].st # "paused"

(* A pause a message or a consumer refers to is the pause of an interval.  *)
WokenAtInterval ==
  \A e \in Executions :
    /\ exec[e].st = "paused"
    /\ (\E m \in queue : m.e = e) \/ (\E p \in Workers : Consumes(w[p], e))
    => exec[e].node \in Intervals

Links ==
  /\ CallsLinked /\ MessagesLinked /\ OneOwner /\ OwnerUnwoken
  /\ OneMessage /\ OwnerRuns /\ WokenAtInterval

(* What a step of p shows: it takes up no execution, and leaves the calls  *)
(* of others, the queue and the pauses as they are.                        *)
LEMMA KeepLinks ==
  ASSUME Inv, Kept, Links, NEW p \in Workers, NEW r, Put(p, r), NoPause,
         queue' = queue, LinkOK(p, r), r.e # NULL => exec'[r.e].st # "none",
         \A e \in Executions :
           /\ Owns(r, e) =>
                /\ Owns(w[p], e) /\ r.job = w[p].job /\ w[p].pc # "pause"
                /\ r.pc = "resume" \/ w[p].pc # "resume"
                     \/ exec'[e].st # "paused"
           /\ Brings(r, e) => Brings(w[p], e)
           /\ Brings(r, e) /\ SawPause(r) => exec[e].st = "paused"
  PROVE  Links'
<1>1. w'[p] = r /\ \A q \in Workers : q # p => w'[q] = w[q]
  BY DEF Put, Inv, TypeOK
<1>2. \A e \in Executions :
        /\ exec[e].st # "none" => exec'[e].st # "none"
        /\ exec'[e].st = "paused" => exec'[e] = exec[e]
  BY DEF Kept, RowStep, NoPause
<1>3. \A q \in Workers : w[q].e # NULL => w[q].e \in Executions
  BY DEF Inv, TypeOK, Worker
<1>4. \A m \in queue : m.e \in Executions
  BY DEF Inv, TypeOK, Message
<1>5. \A e \in Executions : Owns(r, e) /\ Alone(r) => Alone(w[p])
  BY DEF Alone
<1>6. \A e \in Executions : Consumes(r, e) => Consumes(w[p], e)
  BY DEF Consumes, Brings, Owns
<1>7. CallsLinked'
  BY <1>1, <1>2, <1>3 DEF Links, CallsLinked
<1>8. MessagesLinked'
  BY <1>2, <1>4 DEF Links, MessagesLinked
<1>9. OneOwner'
  BY <1>1, <1>5 DEF Links, OneOwner
<1>10. \A e \in Executions : Quiet(e) => Quiet(e)'
  BY <1>1 DEF Quiet
<1>11. ASSUME NEW q \in Workers, NEW e \in Executions,
              Owns(w'[q], e), Alone(w'[q])
       PROVE  /\ (w'[q].pc = "pause" /\ w'[q].node \in Intervals) \/ Quiet(e)'
              /\ \A s \in Workers : Brings(w'[s], e) => ~SawPause(w'[s])
  <2>1. Owns(w[q], e) /\ Alone(w[q])
    BY <1>1, <1>5, <1>11
  <2>2. /\ (w[q].pc = "pause" /\ w[q].node \in Intervals) \/ Quiet(e)
        /\ \A s \in Workers : Brings(w[s], e) => ~SawPause(w[s])
    BY <2>1 DEF Links, OwnerUnwoken
  <2>3. (w'[q].pc = "pause" /\ w'[q].node \in Intervals) \/ Quiet(e)'
    BY <1>1, <1>10, <1>11, <2>2
  <2>4. ASSUME Brings(r, e), SawPause(r) PROVE FALSE
    <3>1. exec[e].st = "paused" /\ Brings(w[p], e)
      BY <2>4
    <3>2. w[q].pc = "pause"
      BY <2>2, <3>1 DEF Quiet
    <3> QED
      BY <2>1, <3>1, <3>2 DEF Links, OwnerRuns
  <2> QED
    BY <1>1, <2>2, <2>3, <2>4
<1>12. OwnerUnwoken'
  BY <1>11 DEF OwnerUnwoken
<1>13. OneMessage'
  <2> SUFFICES ASSUME Calm PROVE OneMessage'
    BY DEF OneMessage
  <2>1. \A s \in Workers, e \in Executions : Brings(w'[s], e) => Brings(w[s], e)
    BY <1>1
  <2> QED
    BY <1>4, <2>1 DEF Links, OneMessage
<1>14. OwnerRuns'
  BY <1>1, <1>2, <1>5 DEF Links, OwnerRuns
<1>15. WokenAtInterval'
  <2>1. \A s \in Workers, e \in Executions :
          Consumes(w'[s], e) => Consumes(w[s], e)
    BY <1>1, <1>6
  <2> QED
    BY <1>2, <2>1 DEF Links, WokenAtInterval
<1> QED
  BY <1>7, <1>8, <1>9, <1>12, <1>13, <1>14, <1>15 DEF Links

(* A call that is not about an execution yet, or has given its own up.     *)
LEMMA OutLinks ==
  ASSUME Inv, Kept, Links, NEW p \in Workers, NEW r, Put(p, r), NoPause,
         queue' = queue,
         r.pc \notin OwnPCs \cup ReadPCs \cup RecoveryPCs \cup {"idle"},
         r.job \notin {"resume", "recover"},
         r.job = "trigger" => "trigger" \in Jobs[p],
         r.pc = "findPaused" => r.job = "trigger",
         r.msg = NULL, r.e # NULL => exec'[r.e].st # "none"
  PROVE  Links'
<1>1. LinkOK(p, r)
  BY DEF LinkOK, OwnPCs, ReadPCs
<1>2. \A e : ~Owns(r, e) /\ ~Brings(r, e)
  BY DEF Owns, Brings
<1> QED
  BY <1>1, <1>2, KeepLinks

LEMMA StopLinks ==
  ASSUME Inv, Kept, Links, NEW p \in Workers, Stop(p), NoPause, queue' = queue
  PROVE  Links'
<1>1. Put(p, Idle) /\ Idle.pc = "idle" /\ Idle.e = NULL /\ Idle.msg = NULL
  BY DEF Stop, Idle
<1>2. LinkOK(p, Idle)
  BY <1>1 DEF LinkOK, ReadPCs, SawPause
<1>3. \A e \in Executions : ~Owns(Idle, e) /\ ~Brings(Idle, e)
  BY <1>1, FlowAssumption DEF Owns, Brings, OwnPCs, Executions
<1> QED
  BY <1>1, <1>2, <1>3, KeepLinks

LEMMA LinkHere ==
  ASSUME Inv, Kept, Links, NEW p \in Workers
  PROVE  /\ w \in [Workers -> Worker] /\ w[p] \in Worker /\ LocalOK(w[p])
         /\ LinkOK(p, w[p])
         /\ w[p].e # NULL => exec[w[p].e].st # "none" /\ exec'[w[p].e].st # "none"
         /\ exec \in [Executions -> ExecRow]
  BY Here DEF Inv, TypeOK, Kept, RowStep, Links, CallsLinked, Worker

LEMMA LeaveLinks ==
  ASSUME Inv, Kept, Links, NEW p \in Workers, NEW r, Put(p, r), NoPause,
         queue' = queue, w[p].pc # "idle", r.pc \in DonePCs,
         r.e = w[p].e, r.job = w[p].job, r.msg = w[p].msg
  PROVE  Links'
<1>1. LinkOK(p, r)
  BY LinkHere DEF LinkOK, DonePCs, ReadPCs, SawPause
<1>2. \A e : ~Owns(r, e) /\ ~SawPause(r) /\ (Brings(r, e) => Brings(w[p], e))
  BY DEF Owns, Brings, SawPause, OwnPCs, DonePCs, ReadPCs
<1> QED
  BY <1>1, <1>2, LinkHere, KeepLinks

LEMMA LeaveTo ==
  ASSUME Inv, Kept, Links, NEW p \in Workers, NEW l \in DonePCs, Goto(p, l),
         NoPause, queue' = queue, w[p].pc # "idle"
  PROVE  Links'
<1> DEFINE r == [w[p] EXCEPT !.pc = l]
<1>1. /\ Put(p, r) /\ r.pc = l /\ r.e = w[p].e /\ r.job = w[p].job
      /\ r.msg = w[p].msg
  BY LinkHere DEF Goto, Worker
<1> HIDE DEF r
<1> QED
  BY <1>1, LeaveLinks

(* A call that goes on in the node loop.                                   *)
LEMMA LoopOn ==
  ASSUME Inv, Kept, Links, NEW p \in Workers, NEW r, Put(p, r), NoPause,
         queue' = queue, w[p].pc \in OwnPCs \ {"resume", "pause"},
         r.pc \in NodePCs \cup {"finish"},
         r.e = w[p].e, r.job = w[p].job, r.msg = w[p].msg,
         r.pc \in StagePCs => r.mx.node = r.node,
         r.pc = "pause" => Kind[r.node] \in {"input", "interval"},
         ~Calm /\ r.job = "resume" /\ r.pc \in NodePCs => r.node \in Afterwards
  PROVE  Links'
<1>1. LinkOK(p, r)
  BY LinkHere DEF LinkOK, ReadPCs, SawPause, OwnPCs
<1>2. \A e : /\ ~SawPause(r) /\ (Brings(r, e) => Brings(w[p], e))
             /\ Owns(r, e) => Owns(w[p], e)
  BY DEF Owns, Brings, SawPause, OwnPCs, ReadPCs
<1> QED
  BY <1>1, <1>2, LinkHere, KeepLinks

LEMMA ClaimLinks ==
  ASSUME Inv, Kept, Links, NEW p \in Workers,
         Acquire(p) \/ FlowMissing(p) \/ Claim(p)
  PROVE  Links'
<1>1. /\ w[p] \in Worker /\ LinkOK(p, w[p]) /\ queue' = queue /\ NoPause
      /\ w[p].e # NULL => exec'[w[p].e].st # "none"
  BY LinkHere, SameNoPause DEF Acquire, FlowMissing, Claim
<1>2. CASE Acquire(p)
  <2> DEFINE r == [w[p] EXCEPT !.pc = "create"]
  <2>1. /\ w[p].pc = "lock" /\ w[p].msg = NULL
        /\ w[p].job \notin {"resume", "recover"}
    BY <1>1, <1>2 DEF Acquire, At, LinkOK
  <2>2. r.pc = "create" /\ r.msg = w[p].msg /\ r.job = w[p].job /\ r.e = w[p].e
    BY <1>1 DEF Worker
  <2>3. Put(p, r) \/ Goto(p, Return(p))
    BY <1>2 DEF Acquire, Goto
  <2>4. Return(p) \in DonePCs
    BY DEF Return, DonePCs
  <2> HIDE DEF r
  <2>5. CASE Put(p, r)
    <3>1. r.pc \notin OwnPCs \cup ReadPCs
      BY <2>2 DEF OwnPCs, ReadPCs
    <3> QED
      BY <1>1, <2>1, <2>2, <2>5, <3>1, OutLinks DEF LinkOK
  <2> QED
    BY <1>1, <2>1, <2>3, <2>4, <2>5, LeaveTo
<1>3. CASE FlowMissing(p)
  <2> DEFINE r == [w[p] EXCEPT !.pc = "unlock", !.via = "throw"]
  <2>1. /\ Put(p, r) /\ r.pc = "unlock" /\ r.msg = w[p].msg /\ r.e = w[p].e
        /\ r.job = w[p].job /\ w[p].pc = "create"
    BY <1>1, <1>3 DEF FlowMissing, At, Worker
  <2> HIDE DEF r
  <2> QED
    BY <1>1, <2>1, LeaveLinks DEF DonePCs
<1>4. CASE Claim(p)
  <2> DEFINE r1 == [w[p] EXCEPT !.pc = "load", !.node = StartNode,
                                !.mc.active = w[p].e]
             r2 == [w[p] EXCEPT !.pc = "reject", !.mx = Failed(w[p].mx)]
  <2>1. w[p].pc = "claim" /\ (Put(p, r1) \/ Put(p, r2))
    BY <1>4 DEF Claim, At
  <2>2. /\ r1.pc = "load" /\ r1.msg = w[p].msg /\ r1.e = w[p].e /\ r1.job = w[p].job
        /\ r2.pc = "reject" /\ r2.msg = w[p].msg /\ r2.e = w[p].e
        /\ r2.job = w[p].job
    BY <1>1 DEF Worker
  <2>3. w[p].msg = NULL /\ w[p].job \notin {"resume", "recover"}
    BY <1>1, <2>1 DEF LinkOK
  <2> HIDE DEF r1, r2
  <2>4. CASE Put(p, r1)
    BY <1>1, <2>1, <2>2, <2>3, <2>4, LoopOn DEF OwnPCs
  <2>5. CASE Put(p, r2)
    <3>1. r2.pc \notin OwnPCs \cup ReadPCs
      BY <2>2 DEF OwnPCs, ReadPCs
    <3> QED
      BY <1>1, <2>1, <2>2, <2>3, <2>5, <3>1, OutLinks DEF LinkOK
  <2> QED
    BY <2>1, <2>4, <2>5
<1> QED
  BY <1>2, <1>3, <1>4

LEMMA EndLinks ==
  ASSUME Inv, Kept, Links, NEW p \in Workers,
         Reject(p) \/ Unlock(p) \/ StoreEnd(p)
  PROVE  Links'
<1>1. w[p] \in Worker /\ LocalOK(w[p]) /\ queue' = queue
  BY LinkHere DEF Reject, Unlock, StoreEnd
<1>2. CASE Reject(p)
  <2>1. /\ w[p].pc = "reject" /\ w[p].e \in Executions
        /\ w[p].mx.st # "paused" /\ Update(w[p].e, w[p].mx) /\ Goto(p, "unlock")
    BY <1>1, <1>2 DEF Reject, At, LocalOK
  <2> QED
    BY <1>1, <2>1, UpdateNoPause, LeaveTo DEF DonePCs
<1>3. CASE Unlock(p)
  <2>1. w[p].pc = "unlock" /\ NoPause /\ (Stop(p) \/ Goto(p, Return(p)))
    BY <1>3, SameNoPause DEF Unlock, At
  <2>2. Return(p) \in DonePCs
    BY DEF Return, DonePCs
  <2> QED
    BY <1>1, <2>1, <2>2, StopLinks, LeaveTo
<1>4. CASE StoreEnd(p)
  <2> DEFINE r == [w[p] EXCEPT !.pc = Exit(p), !.mc.active = NULL]
  <2>1. /\ w[p].pc = "finish" /\ w[p].e \in Executions
        /\ w[p].mx.st # "paused" /\ Update(w[p].e, w[p].mx) /\ Put(p, r)
    BY <1>1, <1>4 DEF StoreEnd, At, LocalOK
  <2>2. /\ r.pc = Exit(p) /\ r.msg = w[p].msg /\ r.e = w[p].e /\ r.job = w[p].job
    BY <1>1 DEF Worker
  <2>3. r.pc \in DonePCs
    BY <2>2, ExitPC DEF DonePCs
  <2> HIDE DEF r
  <2> QED
    BY <1>1, <2>1, <2>2, <2>3, UpdateNoPause, LeaveLinks
<1> QED
  BY <1>2, <1>3, <1>4

LEMMA AfterInterval ==
  /\ \A n \in Intervals : n \in Afterwards
  /\ \A n \in Afterwards : Target[n] # NULL => Target[n] \in Afterwards
<1>1. \A n \in Intervals : n \in Afterwards
  BY DEF Afterwards, Intervals
<1>2. ASSUME NEW n \in Afterwards, Target[n] # NULL
      PROVE  Target[n] \in Afterwards
  <2>1. n \in Nodes /\ Target[n] \in Nodes
    BY <1>2, FlowAssumption DEF Afterwards
  <2>2. ASSUME NEW S \in SUBSET Nodes, Intervals \subseteq S, Closed(S)
        PROVE  Target[n] \in S
    <3>1. n \in S
      BY <2>2 DEF Afterwards
    <3> QED
      BY <1>2, <2>2, <3>1 DEF Closed
  <2> QED
    BY <2>1, <2>2 DEF Afterwards
<1> QED
  BY <1>1, <1>2

(* A resumed execution is no longer paused, whatever its row was.          *)
LEMMA ResumeLinks ==
  ASSUME Inv, Kept, Links, NEW p \in Workers, ResumeFlow(p) PROVE Links'
<1> DEFINE row == [w[p].mx EXCEPT !.st = "running"]
           r == [w[p] EXCEPT !.pc = "load", !.mx = row, !.node = row.node]
<1>1. /\ w[p] \in Worker /\ LocalOK(w[p]) /\ LinkOK(p, w[p])
      /\ queue' = queue /\ w[p].pc = "resume"
      /\ Put(p, r) /\ Update(w[p].e, row)
  BY LinkHere DEF ResumeFlow, At
<1>2. row.st = "running" /\ row.node = w[p].mx.node /\ w[p].e \in Executions
  BY <1>1, Here DEF LocalOK, ExecRow
<1>3. /\ r.pc = "load" /\ r.msg = w[p].msg /\ r.e = w[p].e /\ r.job = w[p].job
      /\ r.node = row.node
  BY <1>1 DEF Worker
<1> HIDE DEF row, r
<1>4. NoPause /\ exec'[w[p].e].st # "paused"
  BY <1>1, <1>2, UpdateNoPause DEF NoPause
<1>5. LinkOK(p, r)
  BY <1>1, <1>2, <1>3, AfterInterval DEF LinkOK, ReadPCs, SawPause
<1>6. \A e : /\ Owns(r, e) => Owns(w[p], e) /\ e = w[p].e
             /\ Brings(r, e) => Brings(w[p], e)
             /\ ~SawPause(r)
  BY <1>1, <1>3 DEF Owns, Brings, SawPause, OwnPCs, ReadPCs
<1> QED
  BY <1>1, <1>3, <1>4, <1>5, <1>6, LinkHere, KeepLinks

LEMMA LoopLinks ==
  ASSUME Inv, Kept, Links, NEW p \in Workers, Read(p) \/ Move(p)
  PROVE  Links'
<1>1. /\ w[p] \in Worker /\ LocalOK(w[p]) /\ LinkOK(p, w[p])
      /\ queue' = queue /\ w[p].pc \in {"load", "read", "move"}
  BY LinkHere DEF Read, Move, At
<1>2. CASE Read(p)
  <2> DEFINE r1 == [w[p] EXCEPT !.pc = Exit(p), !.mc.active = NULL]
             x == [exec[w[p].e] EXCEPT !.node = w[p].node]
             r2 == [w[p] EXCEPT !.pc = "move", !.mx = x]
  <2>1. (Put(p, r1) \/ Put(p, r2)) /\ NoPause /\ w[p].pc \in {"load", "read"}
    BY <1>2, SameNoPause DEF Read
  <2>2. x.node = w[p].node
    BY <1>1, <2>1, Here DEF LocalOK, ExecRow
  <2> HIDE DEF x
  <2>3. /\ r1.pc = Exit(p) /\ r1.msg = w[p].msg /\ r1.e = w[p].e
        /\ r1.job = w[p].job
        /\ r2.pc = "move" /\ r2.msg = w[p].msg /\ r2.e = w[p].e
        /\ r2.job = w[p].job /\ r2.mx = x /\ r2.node = w[p].node
    BY <1>1 DEF Worker
  <2>4. r1.pc \in DonePCs
    BY <2>3, ExitPC DEF DonePCs
  <2> HIDE DEF r1, r2
  <2>5. CASE Put(p, r1)
    BY <1>1, <2>1, <2>3, <2>4, <2>5, LeaveLinks
  <2>6. CASE Put(p, r2)
    BY <1>1, <2>1, <2>2, <2>3, <2>6, LoopOn DEF LinkOK, OwnPCs
  <2> QED
    BY <2>1, <2>5, <2>6
<1>3. CASE Move(p)
  <2> DEFINE r == [w[p] EXCEPT !.pc = "handle"]
  <2>1. /\ w[p].pc = "move" /\ w[p].e \in Executions /\ Put(p, r)
        /\ Update(w[p].e, w[p].mx) /\ w[p].mx.st # "paused"
    BY <1>1, <1>3 DEF Move, Goto, At, LocalOK
  <2>2. /\ r.pc = "handle" /\ r.msg = w[p].msg /\ r.e = w[p].e
        /\ r.job = w[p].job /\ r.mx = w[p].mx /\ r.node = w[p].node
    BY <1>1 DEF Worker
  <2> HIDE DEF r
  <2>3. NoPause
    BY <2>1, UpdateNoPause
  <2> QED
    BY <1>1, <2>1, <2>2, <2>3, LoopOn DEF LinkOK, OwnPCs
<1> QED
  BY <1>2, <1>3

LEMMA HandledLinks ==
  ASSUME Inv, Kept, Links, NEW p \in Workers, w[p].pc = "handle",
         UNCHANGED <<exec, queue>>,
         (\E row, c : Advance(p, row, c)) \/ FailNode(p)
  PROVE  Links'
<1>1. w[p] \in Worker /\ LinkOK(p, w[p]) /\ LocalOK(w[p]) /\ NoPause
  BY LinkHere, SameNoPause
<1>2. ASSUME NEW row, NEW c, Advance(p, row, c) PROVE Links'
  <2> DEFINE n == Target[w[p].node]
             l == IF n = NULL THEN "finish" ELSE "read"
             x == IF n = NULL THEN Completed(row) ELSE row
             r == [w[p] EXCEPT !.late = Ran(p), !.mc = c, !.node = n,
                               !.pc = l, !.mx = x]
  <2>1. Put(p, r)
    BY <1>2, Zenon DEF Advance
  <2>2. l \in {"finish", "read"} /\ (l = "read" => n # NULL)
    OBVIOUS
  <2>3. w[p].node \in Afterwards /\ n # NULL => n \in Afterwards
    BY AfterInterval
  <2> HIDE DEF n, l, x
  <2>4. /\ Put(p, r) /\ r.pc = l /\ r.msg = w[p].msg
        /\ r.e = w[p].e /\ r.job = w[p].job /\ r.node = n
    BY <1>1, <2>1, <2>2 DEF Worker
  <2> HIDE DEF r
  <2> QED
    BY <1>1, <2>2, <2>3, <2>4, LoopOn DEF LinkOK, OwnPCs
<1>3. CASE FailNode(p)
  <2> DEFINE r == [w[p] EXCEPT !.late = Ran(p), !.pc = "finish",
                               !.mx = Failed(w[p].mx)]
  <2>1. /\ Put(p, r) /\ r.pc = "finish" /\ r.msg = w[p].msg
        /\ r.e = w[p].e /\ r.job = w[p].job
    BY <1>1, <1>3 DEF FailNode, Worker
  <2> HIDE DEF r
  <2> QED
    BY <1>1, <2>1, LoopOn DEF OwnPCs
<1> QED
  BY <1>2, <1>3

LEMMA ParkedLinks ==
  ASSUME Inv, Kept, Links, NEW p \in Workers, w[p].pc = "handle",
         UNCHANGED <<exec, queue>>,
         NEW label \in {"schedule", "pause"}, NEW row, ParkAt(p, label, row),
         row.node = w[p].mx.node, Kind[w[p].node] \in {"input", "interval"}
  PROVE  Links'
<1> DEFINE r == [w[p] EXCEPT !.late = Ran(p), !.pc = label, !.mx = row]
<1>1. w[p] \in Worker /\ LinkOK(p, w[p]) /\ NoPause /\ Put(p, r)
  BY LinkHere, SameNoPause DEF ParkAt
<1>2. /\ r.pc = label /\ r.msg = w[p].msg /\ r.e = w[p].e
      /\ r.job = w[p].job /\ r.mx = row /\ r.node = w[p].node
  BY <1>1 DEF Worker
<1> HIDE DEF r
<1> QED
  BY <1>1, <1>2, LoopOn DEF LinkOK, OwnPCs

LEMMA NodeLinks ==
  ASSUME Inv, Kept, Links, NEW p \in Workers,
         \/ RunMessage(p) \/ RunInput(p) \/ RunInterval(p)
         \/ RunTransfer(p) \/ RunEnd(p)
  PROVE  Links'
<1>1. /\ w[p].pc = "handle" /\ UNCHANGED <<exec, queue>>
      /\ w[p].mx \in ExecRow /\ w[p].node \in Nodes
  <2>1. w[p].pc = "handle" /\ UNCHANGED <<exec, queue>>
    BY DEF RunMessage, RunInput, RunInterval, RunTransfer, RunEnd, OnNode, At
  <2> QED
    BY <2>1, Here DEF LocalOK
<1>2. CASE RunMessage(p) \/ RunTransfer(p) \/ RunEnd(p)
  BY <1>1, <1>2, HandledLinks DEF RunMessage, RunTransfer, RunEnd
<1>3. CASE RunInput(p)
  <2> DEFINE n == w[p].node
             x == w[p].mx
             asks == [x EXCEPT !.asked = @ \cup {n}]
  <2>1. Kind[n] = "input"
    BY <1>3 DEF RunInput, OnNode
  <2>2. asks.node = x.node
    BY <1>1 DEF ExecRow
  <2>3. \/ \E row, c : Advance(p, row, c)
        \/ FailNode(p)
        \/ ParkAt(p, "pause", x)
        \/ ParkAt(p, "pause", asks)
    BY <1>3 DEF RunInput
  <2> HIDE DEF n, x, asks
  <2> QED
    BY <1>1, <2>1, <2>2, <2>3, HandledLinks, ParkedLinks DEF n, x
<1>4. CASE RunInterval(p)
  <2> DEFINE n == w[p].node
             x == w[p].mx
             waits == [x EXCEPT !.due[n] = clock + Delay]
  <2>1. waits.node = x.node /\ Kind[n] = "interval"
    BY <1>1, <1>4 DEF ExecRow, RunInterval, OnNode
  <2>2. \/ \E row, c : Advance(p, row, c)
        \/ ParkAt(p, "schedule", x)
        \/ ParkAt(p, "schedule", waits)
    BY <1>4 DEF RunInterval
  <2> HIDE DEF waits
  <2> QED
    BY <1>1, <2>1, <2>2, HandledLinks, ParkedLinks
<1> QED
  BY <1>2, <1>3, <1>4

-----------------------------------------------------------------------------
(* The steps that publish, pause and take up an execution.                 *)

LEMMA Shape ==
  ASSUME Inv, Kept, Links, NEW p \in Workers, NEW r, Put(p, r)
  PROVE  /\ w'[p] = r /\ \A q \in Workers : q # p => w'[q] = w[q]
         /\ \A q \in Workers : w[q].e # NULL => w[q].e \in Executions
         /\ \A m \in queue : m.e \in Executions /\ exec[m.e].st # "none"
         /\ \A e \in Executions : exec[e].st # "none" => exec'[e].st # "none"
         /\ (LinkOK(p, r) /\ (r.e # NULL => exec'[r.e].st # "none")
               => CallsLinked')
<1>1. w'[p] = r /\ \A q \in Workers : q # p => w'[q] = w[q]
  BY DEF Put, Inv, TypeOK
<1>2. \A e \in Executions : exec[e].st # "none" => exec'[e].st # "none"
  BY DEF Kept, RowStep
<1>3. \A q \in Workers : w[q].e # NULL => w[q].e \in Executions
  BY DEF Inv, TypeOK, Worker
<1>4. \A m \in queue : m.e \in Executions /\ exec[m.e].st # "none"
  BY DEF Inv, TypeOK, Message, Links, MessagesLinked
<1>5. LinkOK(p, r) /\ (r.e # NULL => exec'[r.e].st # "none") => CallsLinked'
  BY <1>1, <1>2, <1>3 DEF Links, CallsLinked
<1> QED
  BY <1>1, <1>2, <1>3, <1>4, <1>5

(* The message of an interval is published by the owner of its execution,  *)
(* who has nothing waiting for it, or by a consumer.                       *)
LEMMA PublishLinks ==
  ASSUME Inv, Kept, Links, NEW p \in Workers, NEW r, Put(p, r), exec' = exec,
         NEW m, queue' = queue \cup {m}, m.e = w[p].e,
         w[p].pc = "schedule", r.pc \in {"pause", "unlock", "check", "save"},
         r.e = w[p].e, r.job = w[p].job, r.msg = w[p].msg, r.mx = w[p].mx,
         r.node = w[p].node
  PROVE  Links'
<1> DEFINE e0 == w[p].e
<1>1. /\ LocalOK(w[p]) /\ LinkOK(p, w[p]) /\ e0 \in Executions
      /\ exec[e0].st # "none" /\ w[p].node \in Intervals
  BY LinkHere, FlowAssumption DEF LocalOK, Executions
<1>2. Owns(w[p], e0)
  BY DEF Owns, OwnPCs
<1>3. LinkOK(p, r)
  BY <1>1 DEF LinkOK, ReadPCs, SawPause, Intervals
<1>4. /\ w'[p] = r /\ \A q \in Workers : q # p => w'[q] = w[q]
      /\ \A n \in queue : n.e \in Executions /\ exec[n.e].st # "none"
      /\ CallsLinked'
  BY <1>1, <1>3, Shape
<1>5. \A e \in Executions :
        /\ Owns(r, e) => Owns(w[p], e) /\ e = e0 /\ r.pc = "pause"
        /\ Owns(w[p], e) => e = e0
        /\ Alone(r) <=> Alone(w[p])
        /\ Brings(r, e) => Brings(w[p], e) /\ ~Calm
        /\ Consumes(r, e) => Consumes(w[p], e)
        /\ ~SawPause(r)
  BY DEF Owns, Alone, Brings, Consumes, SawPause, OwnPCs, ReadPCs
<1>6. Alone(w[p]) => Quiet(e0) /\ exec[e0].st # "paused"
  BY <1>1, <1>2 DEF Links, OwnerUnwoken, OwnerRuns
<1>7. ASSUME NEW q \in Workers, q # p, NEW e \in Executions, Owns(w[q], e)
      PROVE  Alone(w[q]) \/ Alone(w[p]) => e # e0
  BY <1>2, <1>7 DEF Links, OneOwner
<1> HIDE DEF e0
<1>8. MessagesLinked'
  BY <1>1, <1>4 DEF MessagesLinked, e0
<1>9. OneOwner'
  BY <1>4, <1>5 DEF Links, OneOwner
<1>10. OwnerUnwoken'
  <2> SUFFICES ASSUME NEW q \in Workers, NEW e \in Executions,
                      Owns(w'[q], e), Alone(w'[q])
               PROVE  /\ \/ w'[q].pc = "pause" /\ w'[q].node \in Intervals
                         \/ Quiet(e)'
                      /\ \A s \in Workers : Brings(w'[s], e) => ~SawPause(w'[s])
    BY DEF OwnerUnwoken
  <2>1. Owns(w[q], e) /\ Alone(w[q])
    BY <1>4, <1>5
  <2>2. /\ (w[q].pc = "pause" /\ w[q].node \in Intervals) \/ Quiet(e)
        /\ \A s \in Workers : Brings(w[s], e) => ~SawPause(w[s])
    BY <2>1 DEF Links, OwnerUnwoken
  <2>3. \A s \in Workers : Brings(w'[s], e) => ~SawPause(w'[s])
    BY <1>4, <1>5, <2>2
  <2>4. CASE q = p
    BY <1>1, <1>4, <1>5, <2>3, <2>4
  <2>5. CASE q # p
    <3>1. w'[q] = w[q] /\ e # e0
      BY <1>4, <1>7, <2>1, <2>5
    <3>2. Quiet(e) => Quiet(e)'
      BY <1>4, <1>5, <3>1 DEF Quiet, e0
    <3> QED
      BY <2>2, <2>3, <3>1, <3>2
  <2> QED
    BY <2>4, <2>5
<1>11. OneMessage'
  <2> SUFFICES ASSUME Calm PROVE OneMessage'
    BY DEF OneMessage
  <2>1. Quiet(e0)
    BY <1>6 DEF Alone
  <2>2. \A s \in Workers, e \in Executions :
          Brings(w'[s], e) => Brings(w[s], e) /\ s # p
    BY <1>4, <1>5
  <2> QED
    BY <1>1, <1>4, <2>1, <2>2 DEF Links, OneMessage, Quiet, e0
<1>12. OwnerRuns'
  BY <1>4, <1>5 DEF Links, OwnerRuns
<1>13. WokenAtInterval'
  <2>1. \A s \in Workers, e \in Executions :
          Consumes(w'[s], e) => Consumes(w[s], e)
    BY <1>4, <1>5
  <2>2. exec[e0].st = "paused" => Consumes(w[p], e0)
    BY <1>6 DEF Alone, Consumes, e0
  <2> QED
    BY <1>1, <2>1, <2>2 DEF Links, WokenAtInterval, e0
<1> QED
  BY <1>4, <1>8, <1>9, <1>10, <1>11, <1>12, <1>13 DEF Links

LEMMA ScheduleLinks ==
  ASSUME Inv, Kept, Links, NEW p \in Workers, Schedule(p) PROVE Links'
<1> DEFINE r(l) == [w[p] EXCEPT !.pc = l]
<1>1. /\ w[p] \in Worker /\ LinkOK(p, w[p]) /\ LocalOK(w[p])
      /\ exec' = exec /\ w[p].pc = "schedule" /\ NoPause
  BY LinkHere, SameNoPause DEF Schedule, At
<1>2. \A l : /\ r(l).pc = l /\ r(l).msg = w[p].msg /\ r(l).e = w[p].e
             /\ r(l).job = w[p].job /\ r(l).mx = w[p].mx /\ r(l).node = w[p].node
  BY <1>1 DEF Worker
<1>3. PICK l \in {"pause", "unlock", "check", "save"} : Put(p, r(l))
  <2>1. Put(p, r("pause")) \/ Put(p, r(Exit(p)))
    BY DEF Schedule, Goto
  <2> QED
    BY <2>1, ExitPC
<1>4. queue' = queue \/ Publish(p)
  BY DEF Schedule
<1> HIDE DEF r
<1>5. CASE queue' = queue
  <2>1. CASE l = "pause"
    <3>1. Kind[w[p].node] = "interval"
      BY <1>1 DEF LocalOK, Intervals
    <3> QED
      BY <1>1, <1>2, <1>3, <1>5, <2>1, <3>1, LoopOn DEF LinkOK, OwnPCs
  <2>2. CASE l # "pause"
    BY <1>1, <1>2, <1>3, <1>5, <2>2, LeaveLinks DEF DonePCs
  <2> QED
    BY <2>1, <2>2
<1>6. CASE Publish(p)
  <2>1. PICK ttl \in NormalizeDelay(w[p].mx.due[w[p].node] - clock) :
          queue' = queue \cup {[e |-> w[p].e, at |-> clock + ttl]}
    BY <1>6 DEF Publish
  <2> DEFINE m == [e |-> w[p].e, at |-> clock + ttl]
  <2>2. m.e = w[p].e /\ queue' = queue \cup {m}
    BY <2>1
  <2> HIDE DEF m
  <2> QED
    BY <1>1, <1>2, <1>3, <2>2, PublishLinks
<1> QED
  BY <1>4, <1>5, <1>6

(* The pause of a call that a message or a consumer waits for is one of an *)
(* interval: a lone caller has then published for it, and a consumer that  *)
(* is not alone runs no question.                                          *)
LEMMA PauseLinks ==
  ASSUME Inv, Kept, Links, Calm \/ QuestionsFirst, NEW p \in Workers, Pause(p)
  PROVE  Links'
<1> DEFINE e0 == w[p].e
           row == [w[p].mx EXCEPT !.st = "paused"]
           r == [w[p] EXCEPT !.pc = Exit(p), !.mx.st = "paused"]
<1>1. /\ w[p] \in Worker /\ LocalOK(w[p]) /\ LinkOK(p, w[p])
      /\ w[p].pc = "pause" /\ w[p].mx \in ExecRow /\ e0 \in Executions
      /\ queue' = queue /\ Put(p, r) /\ Update(e0, row)
      /\ e0 # NULL /\ exec \in [Executions -> ExecRow]
  BY LinkHere, Here, FlowAssumption DEF Pause, At, LocalOK, Executions
<1>2. /\ r.pc \in {"unlock", "check", "save"} /\ r.msg = w[p].msg
      /\ r.e = w[p].e /\ r.job = w[p].job
  BY <1>1, ExitPC DEF Worker
<1>3. row.node = w[p].node /\ w[p].node \in Nodes
  BY <1>1 DEF ExecRow, LinkOK, LocalOK
<1>4. \/ exec' = exec
      \/ /\ exec'[e0].node = w[p].node
         /\ \A e \in Executions : e # e0 => exec'[e] = exec[e]
  BY <1>1, <1>3 DEF Update
<1> HIDE DEF r, row
<1>5. CASE exec' = exec
  BY <1>1, <1>2, <1>5, SameNoPause, LeaveLinks DEF DonePCs
<1>6. CASE /\ exec'[e0].node = w[p].node
           /\ \A e \in Executions : e # e0 => exec'[e] = exec[e]
  <2>1. LinkOK(p, r)
    BY <1>1, <1>2 DEF LinkOK, ReadPCs, SawPause
  <2>2. /\ w'[p] = r /\ \A q \in Workers : q # p => w'[q] = w[q]
        /\ \A n \in queue : n.e \in Executions /\ exec[n.e].st # "none"
        /\ \A e \in Executions : exec[e].st # "none" => exec'[e].st # "none"
        /\ CallsLinked'
    BY <1>1, <1>2, <2>1, LinkHere, Shape
  <2>3. \A e \in Executions :
          /\ ~Owns(r, e) /\ ~SawPause(r)
          /\ Brings(r, e) => Brings(w[p], e) /\ ~Calm
          /\ Consumes(r, e) => Consumes(w[p], e) /\ ~Alone(w[p])
    BY <1>2 DEF Owns, Alone, Brings, Consumes, SawPause, OwnPCs, ReadPCs
  <2>4. Owns(w[p], e0)
    BY <1>1 DEF Owns, OwnPCs
  <2>5. ASSUME NEW q \in Workers, q # p, Owns(w[q], e0)
        PROVE  ~Alone(w[q]) /\ ~Alone(w[p])
    BY <1>1, <2>4, <2>5 DEF Links, OneOwner
  <2> HIDE DEF e0
  <2>6. MessagesLinked'
    BY <1>1, <2>2 DEF MessagesLinked
  <2>7. OneOwner'
    BY <2>2, <2>3 DEF Links, OneOwner
  <2>8. OwnerUnwoken'
    <3>1. \A e \in Executions : Quiet(e) => Quiet(e)'
      BY <1>1, <2>2, <2>3 DEF Quiet
    <3> QED
      BY <2>2, <2>3, <3>1 DEF Links, OwnerUnwoken
  <2>9. OneMessage'
    <3> SUFFICES ASSUME Calm PROVE OneMessage'
      BY DEF OneMessage
    <3>1. \A s \in Workers, e \in Executions : Brings(w'[s], e) => Brings(w[s], e)
      BY <2>2, <2>3
    <3> QED
      BY <1>1, <2>2, <3>1 DEF Links, OneMessage
  <2>10. OwnerRuns'
    BY <1>6, <2>2, <2>3, <2>5 DEF Links, OwnerRuns
  <2>11. WokenAtInterval'
    <3>1. \A s \in Workers, e \in Executions :
            Consumes(w'[s], e) => Consumes(w[s], e) /\ (s = p => ~Alone(w[p]))
      BY <2>2, <2>3
    <3>2. ASSUME NEW e \in Executions, e # e0, exec'[e].st = "paused",
                 (\E m \in queue' : m.e = e)
                   \/ (\E s \in Workers : Consumes(w'[s], e))
          PROVE  exec'[e].node \in Intervals
      BY <1>1, <1>6, <3>1, <3>2 DEF Links, WokenAtInterval
    <3>3. ASSUME (\E m \in queue' : m.e = e0)
                   \/ (\E s \in Workers : Consumes(w'[s], e0))
          PROVE  w[p].node \in Intervals
      <4>1. CASE Alone(w[p])
        <5>1. w[p].node \in Intervals \/ Quiet(e0)
          BY <1>1, <2>4, <4>1 DEF Links, OwnerUnwoken
        <5>2. ASSUME NEW s \in Workers, Consumes(w'[s], e0) PROVE ~Quiet(e0)
          <6>1. s # p /\ Consumes(w[s], e0)
            BY <3>1, <4>1, <5>2, <1>1
          <6>2. ~Owns(w[s], e0)
            BY <2>5, <4>1, <6>1
          <6>3. Brings(w[s], e0)
            BY <6>1, <6>2 DEF Consumes, Brings, Owns
          <6> QED
            BY <6>3 DEF Quiet
        <5>3. (\E m \in queue' : m.e = e0) => ~Quiet(e0)
          BY <1>1 DEF Quiet
        <5> QED
          BY <3>3, <5>1, <5>2, <5>3
      <4>2. CASE ~Alone(w[p])
        <5>1. w[p].node \in Afterwards /\ Kind[w[p].node] # "input"
          BY <1>1, <4>2 DEF Alone, LinkOK, QuestionsFirst
        <5> QED
          BY <1>1, <1>3, <5>1 DEF LinkOK, Intervals
      <4> QED
        BY <4>1, <4>2
    <3> QED
      BY <1>6, <3>2, <3>3 DEF WokenAtInterval
  <2> QED
    BY <2>2, <2>6, <2>7, <2>8, <2>9, <2>10, <2>11 DEF Links
<1> QED
  BY <1>4, <1>5, <1>6

(* A call takes up e, which nobody else runs and, when it is to be alone,  *)
(* nobody else was asked to run.                                           *)
LEMMA TakeLinks ==
  ASSUME Inv, Kept, Links, NEW p \in Workers, NEW r, Put(p, r), NoPause,
         queue' = queue, NEW e \in Executions, r.e = e, LinkOK(p, r),
         exec'[e].st # "none", r.pc \in {"claim", "resume"},
         r.pc = "claim" => exec'[e].st # "paused",
         \A q \in Workers :
           q # p /\ Owns(w[q], e) => ~Alone(w[q]) /\ ~Alone(r),
         Alone(r) => /\ \A m \in queue : m.e # e
                     /\ \A q \in Workers : q # p => ~Brings(w[q], e),
         r.job = "resume" => Consumes(w[p], e) /\ Brings(w[p], e)
  PROVE  Links'
<1>1. /\ w'[p] = r /\ \A q \in Workers : q # p => w'[q] = w[q]
      /\ \A n \in queue : n.e \in Executions /\ exec[n.e].st # "none"
      /\ \A f \in Executions : exec[f].st # "none" => exec'[f].st # "none"
      /\ CallsLinked'
  BY Shape
<1>2. \A f \in Executions :
        /\ Owns(r, f) => f = e
        /\ ~SawPause(r)
        /\ Brings(r, f) => f = e /\ Brings(w[p], f) /\ ~Calm /\ ~Alone(r)
        /\ Consumes(r, f) => Consumes(w[p], f)
  BY DEF Owns, Alone, Brings, Consumes, SawPause, OwnPCs, ReadPCs
<1>3. \A f \in Executions : exec'[f].st = "paused" => exec'[f] = exec[f]
  BY DEF NoPause
<1>4. MessagesLinked'
  BY <1>1 DEF MessagesLinked
<1>5. OneOwner'
  BY <1>1, <1>2 DEF Links, OneOwner
<1>6. OwnerUnwoken'
  <2> SUFFICES ASSUME NEW q \in Workers, NEW f \in Executions,
                      Owns(w'[q], f), Alone(w'[q])
               PROVE  /\ \/ w'[q].pc = "pause" /\ w'[q].node \in Intervals
                         \/ Quiet(f)'
                      /\ \A s \in Workers : Brings(w'[s], f) => ~SawPause(w'[s])
    BY DEF OwnerUnwoken
  <2>1. CASE q = p
    <3>1. f = e /\ Alone(r)
      BY <1>1, <1>2, <2>1
    <3>2. \A s \in Workers : ~Brings(w'[s], e)
      BY <1>1, <1>2, <3>1
    <3> QED
      BY <3>1, <3>2 DEF Quiet
  <2>2. CASE q # p
    <3>1. w'[q] = w[q] /\ f # e
      BY <1>1, <2>2
    <3>2. Quiet(f) => Quiet(f)'
      BY <1>1, <1>2, <3>1 DEF Quiet
    <3> QED
      BY <1>1, <1>2, <3>1, <3>2 DEF Links, OwnerUnwoken
  <2> QED
    BY <2>1, <2>2
<1>7. OneMessage'
  <2> SUFFICES ASSUME Calm PROVE OneMessage'
    BY DEF OneMessage
  <2>1. \A s \in Workers, f \in Executions : Brings(w'[s], f) => Brings(w[s], f)
    BY <1>1, <1>2
  <2> QED
    BY <1>1, <2>1 DEF Links, OneMessage
<1>8. OwnerRuns'
  <2> SUFFICES ASSUME NEW q \in Workers, NEW f \in Executions, Owns(w'[q], f),
                      Alone(w'[q]), w'[q].pc # "resume"
               PROVE  exec'[f].st # "paused"
    BY DEF OwnerRuns
  <2>1. CASE q = p
    BY <1>1, <1>2, <2>1
  <2>2. CASE q # p
    BY <1>1, <1>3, <2>2 DEF Links, OwnerRuns
  <2> QED
    BY <2>1, <2>2
<1>9. WokenAtInterval'
  <2>1. \A s \in Workers, f \in Executions : Consumes(w'[s], f) => Consumes(w[s], f)
    BY <1>1, <1>2
  <2> QED
    BY <1>3, <2>1 DEF Links, WokenAtInterval
<1> QED
  BY <1>1, <1>4, <1>5, <1>6, <1>7, <1>8, <1>9 DEF Links

LEMMA CreateLinks ==
  ASSUME Inv, Kept, Links, NEW p \in Workers, Create(p) PROVE Links'
<1>0. \E e \in Fresh :
        /\ exec' = [exec EXCEPT ![e] = FirstRow]
        /\ Put(p, [w[p] EXCEPT !.pc = "claim", !.e = e, !.mx = FirstRow])
  BY Zenon DEF Create
<1>1. PICK e \in Fresh :
        /\ exec' = [exec EXCEPT ![e] = FirstRow]
        /\ Put(p, [w[p] EXCEPT !.pc = "claim", !.e = e, !.mx = FirstRow])
  BY <1>0, Zenon
<1> DEFINE r == [w[p] EXCEPT !.pc = "claim", !.e = e, !.mx = FirstRow]
<1>2. /\ w[p].pc = "create" /\ queue' = queue /\ w[p] \in Worker
      /\ LinkOK(p, w[p]) /\ exec \in [Executions -> ExecRow]
  BY LinkHere DEF Create, At
<1>3. e \in Executions /\ e # NULL /\ exec[e].st = "none"
  BY FlowAssumption DEF Fresh, WithStatus, Executions
<1>4. /\ Put(p, r) /\ r.pc = "claim" /\ r.e = e /\ r.job = w[p].job
      /\ r.msg = w[p].msg
  BY <1>1, <1>2 DEF Worker
<1> HIDE DEF r
<1>5. w[p].msg = NULL /\ w[p].job \notin {"resume", "recover"}
  BY <1>2 DEF LinkOK
<1>6. NoPause /\ exec'[e].st = "running"
  BY <1>1, <1>2, <1>3 DEF NoPause, FirstRow, NoRow
<1>7. LinkOK(p, r)
  BY <1>2, <1>4, <1>5 DEF LinkOK, ReadPCs, SawPause
<1>8. \A q \in Workers : w[q].e # e
  BY <1>3 DEF Links, CallsLinked
<1>9. \A m \in queue : m.e # e
  BY <1>3 DEF Links, MessagesLinked
<1>10. \A q \in Workers : ~Owns(w[q], e) /\ ~Brings(w[q], e)
  BY <1>8, Zenon DEF Owns, Brings
<1> QED
  BY <1>2, <1>3, <1>4, <1>5, <1>6, <1>7, <1>9, <1>10, TakeLinks

(* A trigger takes up a question, which no message or consumer refers to.  *)
LEMMA FindLinks ==
  ASSUME Inv, Kept, Links, OneTrigger, NEW p \in Workers, FindPaused(p)
  PROVE  Links'
<1> DEFINE r1(e) == [w[p] EXCEPT !.pc = "resume", !.via = "resume",
                                 !.e = e, !.mx = exec[e]]
           r2 == [w[p] EXCEPT !.pc = "lock", !.via = "execute"]
<1>1. w[p].pc = "findPaused" /\ exec' = exec /\ queue' = queue
  BY Zenon DEF FindPaused, At
<1>2. w[p] \in Worker /\ LinkOK(p, w[p]) /\ NoPause
  BY <1>1, LinkHere, SameNoPause
<1>3. /\ w[p].job = "trigger" /\ "trigger" \in Jobs[p] /\ w[p].msg = NULL
      /\ w[p].job \notin {"resume", "recover"}
  BY <1>1, <1>2 DEF LinkOK
<1>4. \/ Stop(p)
      \/ \E e \in Latest(WithStatus("paused")) :
           exec[e].node \notin Intervals /\ Put(p, r1(e))
      \/ Put(p, r2)
  BY Zenon DEF FindPaused
<1>5. /\ r2.pc = "lock" /\ r2.msg = w[p].msg /\ r2.job = w[p].job
      /\ r2.e = w[p].e
      /\ \A e : /\ r1(e).pc = "resume" /\ r1(e).msg = w[p].msg
                /\ r1(e).job = w[p].job /\ r1(e).e = e
  BY <1>2 DEF Worker
<1> HIDE DEF r1, r2
<1>6. CASE Put(p, r2)
  <2>1. r2.pc \notin OwnPCs \cup ReadPCs
    BY <1>5 DEF OwnPCs, ReadPCs
  <2> QED
    BY <1>1, <1>2, <1>3, <1>5, <1>6, <2>1, OutLinks, LinkHere
<1>7. ASSUME NEW e \in Latest(WithStatus("paused")),
             exec[e].node \notin Intervals, Put(p, r1(e))
      PROVE  Links'
  <2>1. e \in Executions /\ exec[e].st = "paused"
    BY DEF Latest, WithStatus
  <2>2. LinkOK(p, r1(e))
    BY <1>3, <1>5 DEF LinkOK, ReadPCs, SawPause
  <2>3. /\ \A m \in queue : m.e # e
        /\ \A q \in Workers : ~Consumes(w[q], e)
    BY <1>7, <2>1 DEF Links, WokenAtInterval
  <2>4. \A q \in Workers : ~Brings(w[q], e)
    BY <2>3, Zenon DEF Brings, Consumes
  <2>5. ASSUME NEW q \in Workers, q # p PROVE ~Owns(w[q], e)
    <3> SUFFICES ASSUME Owns(w[q], e) PROVE FALSE
      OBVIOUS
    <3>1. w[q].job # "resume"
      BY <2>3 DEF Owns, Consumes
    <3>2. w[q].pc = "resume"
      BY <2>1, <3>1 DEF Links, OwnerRuns, Alone
    <3>3. w[q].job = "trigger" /\ "trigger" \in Jobs[q]
      BY <3>1, <3>2 DEF Links, CallsLinked, LinkOK
    <3> QED
      BY <1>3, <2>5, <3>3 DEF OneTrigger
  <2> QED
    BY <1>1, <1>2, <1>3, <1>5, <1>7, <2>1, <2>2, <2>3, <2>4, <2>5, TakeLinks
<1> QED
  BY <1>1, <1>2, <1>4, <1>6, <1>7, StopLinks

LEMMA TriggerLinks ==
  ASSUME Inv, Kept, Links, NEW p \in Workers,
         TriggerLoad(p) \/ Check(p) \/ Save(p)
  PROVE  Links'
<1>0. UNCHANGED <<exec, queue>>
  BY Zenon DEF TriggerLoad, Check, Save
<1>1. w[p] \in Worker /\ LinkOK(p, w[p]) /\ NoPause /\ queue' = queue
  BY <1>0, LinkHere, SameNoPause
<1>2. CASE TriggerLoad(p)
  <2> DEFINE r == [Idle EXCEPT !.pc = "findPaused", !.job = "trigger",
                               !.mc = conv, !.user = TRUE]
  <2>1. "trigger" \in Jobs[p] /\ Put(p, r)
    BY <1>2 DEF TriggerLoad, Begin
  <2>2. r.pc = "findPaused" /\ r.msg = NULL /\ r.job = "trigger" /\ r.e = NULL
    BY DEF Idle
  <2> HIDE DEF r
  <2> QED
    BY <1>1, <2>1, <2>2, OutLinks DEF OwnPCs, ReadPCs
<1>3. CASE Check(p)
  <2>1. w[p].pc = "check" /\ (Stop(p) \/ Goto(p, "save"))
    BY <1>3 DEF Check, At
  <2> QED
    BY <1>1, <2>1, StopLinks, LeaveTo DEF DonePCs
<1>4. CASE Save(p)
  <2>1. w[p].pc = "save" /\ (Stop(p) \/ Goto(p, "endRunning"))
    BY <1>4 DEF Save, At
  <2> QED
    BY <1>1, <2>1, StopLinks, LeaveTo DEF DonePCs
<1> QED
  BY <1>2, <1>3, <1>4

(* The delivered message passes from the queue to its consumer.            *)
LEMMA DeliverLinks ==
  ASSUME Inv, Kept, Links, NEW p \in Workers, NEW m \in queue, Deliver(p, m)
  PROVE  Links'
<1> DEFINE r == [Idle EXCEPT !.pc = "readBoth", !.job = "resume", !.e = m.e,
                             !.msg = m]
<1>1. /\ w[p].pc = "idle" /\ Put(p, r) /\ queue' = queue \ {m} /\ exec' = exec
  BY DEF Deliver, Begin, At
<1>2. r.pc = "readBoth" /\ r.job = "resume" /\ r.e = m.e /\ r.msg = m
  BY DEF Idle
<1> HIDE DEF r
<1>3. LinkOK(p, r)
  BY <1>2 DEF LinkOK, SawPause
<1>4. m.e \in Executions /\ exec[m.e].st # "none"
  BY DEF Links, MessagesLinked, Inv, TypeOK, Message
<1>5. /\ w'[p] = r /\ \A q \in Workers : q # p => w'[q] = w[q]
      /\ \A n \in queue : n.e \in Executions /\ exec[n.e].st # "none"
      /\ CallsLinked'
  BY <1>1, <1>2, <1>3, <1>4, Shape
<1>6. \A e \in Executions :
        /\ ~Owns(r, e) /\ ~SawPause(r)
        /\ Brings(r, e) => e = m.e
        /\ Consumes(r, e) => e = m.e
  BY <1>2 DEF Owns, Brings, Consumes, SawPause, OwnPCs
<1>7. MessagesLinked'
  BY <1>1, <1>5 DEF MessagesLinked
<1>8. OneOwner'
  BY <1>5, <1>6 DEF Links, OneOwner
<1>9. OwnerUnwoken'
  <2>1. \A e \in Executions : Quiet(e) => Quiet(e)'
    BY <1>1, <1>5, <1>6 DEF Quiet
  <2> QED
    BY <1>5, <1>6, <2>1 DEF Links, OwnerUnwoken
<1>10. OneMessage'
  <2> SUFFICES ASSUME Calm PROVE OneMessage'
    BY DEF OneMessage
  <2>1. /\ \A n \in queue' : n \in queue /\ n.e # m.e
        /\ \A s \in Workers : ~Brings(w[s], m.e)
    BY <1>1 DEF Links, OneMessage
  <2> QED
    BY <1>5, <1>6, <2>1 DEF Links, OneMessage
<1>11. OwnerRuns'
  BY <1>1, <1>5, <1>6 DEF Links, OwnerRuns
<1>12. WokenAtInterval'
  BY <1>1, <1>5, <1>6 DEF Links, WokenAtInterval
<1> QED
  BY <1>5, <1>7, <1>8, <1>9, <1>10, <1>11, <1>12 DEF Links

(* Nobody runs an execution alone while it is paused, unless to resume it. *)
LEMMA FetchFirstLinks ==
  ASSUME Inv, Kept, Links, NEW p \in Workers, FetchFirst(p) PROVE Links'
<1> DEFINE r1 == [w[p] EXCEPT !.pc = "readConv", !.mx = exec[w[p].e]]
           r2 == [w[p] EXCEPT !.pc = "readExec", !.mc = conv]
<1>1. /\ w[p] \in Worker /\ LinkOK(p, w[p]) /\ LocalOK(w[p]) /\ NoPause
      /\ queue' = queue /\ exec' = exec
      /\ w[p].pc = "readBoth" /\ (Put(p, r1) \/ Put(p, r2))
  BY LinkHere, SameNoPause DEF FetchFirst, At
<1>2. /\ r1.pc = "readConv" /\ r1.msg = w[p].msg /\ r1.e = w[p].e
      /\ r1.job = w[p].job /\ r1.mx = exec[w[p].e]
      /\ r2.pc = "readExec" /\ r2.msg = w[p].msg /\ r2.e = w[p].e
      /\ r2.job = w[p].job
  BY <1>1 DEF Worker
<1> HIDE DEF r1, r2
<1>3. w[p].job = "resume" /\ w[p].e \in Executions
  BY <1>1 DEF LinkOK, LocalOK, ReadPCs
<1>4. exec[w[p].e].st = "paused" => exec[w[p].e].node \in Intervals
  BY <1>1, <1>3 DEF Links, WokenAtInterval, Consumes, ReadPCs
<1>5. LinkOK(p, r1) /\ LinkOK(p, r2)
  BY <1>1, <1>2, <1>3, <1>4 DEF LinkOK, SawPause, ReadPCs
<1>6. \A e : /\ ~Owns(r1, e) /\ ~Owns(r2, e) /\ ~SawPause(r2)
             /\ Brings(r1, e) \/ Brings(r2, e) => Brings(w[p], e)
             /\ Brings(r1, e) /\ SawPause(r1) => exec[e].st = "paused"
  BY <1>1, <1>2 DEF Owns, Brings, SawPause, OwnPCs, ReadPCs
<1>7. CASE Put(p, r1)
  BY <1>1, <1>2, <1>5, <1>6, <1>7, LinkHere, KeepLinks
<1>8. CASE Put(p, r2)
  BY <1>1, <1>2, <1>5, <1>6, <1>8, LinkHere, KeepLinks
<1> QED
  BY <1>1, <1>7, <1>8

LEMMA DecideLinks ==
  ASSUME Inv, Kept, Links, NEW p \in Workers, UNCHANGED <<exec, queue>>,
         NEW row, NEW c, Decide(p, row, c),
         \/ w[p].pc = "readConv" /\ row = w[p].mx
         \/ w[p].pc = "readExec" /\ row = exec[w[p].e]
  PROVE  Links'
<1> DEFINE e0 == w[p].e
           r1 == [w[p] EXCEPT !.pc = "endStale", !.mx = Completed(row)]
           r2 == [w[p] EXCEPT !.pc = "resume", !.via = "resume", !.mx = row,
                              !.mc = c]
<1>1. /\ w[p] \in Worker /\ LinkOK(p, w[p]) /\ LocalOK(w[p]) /\ NoPause
      /\ queue' = queue /\ w[p].e # NULL => exec'[w[p].e].st # "none"
  BY LinkHere, SameNoPause
<1>2. /\ r1.pc = "endStale" /\ r1.msg = w[p].msg /\ r1.e = w[p].e
      /\ r1.job = w[p].job
      /\ r2.pc = "resume" /\ r2.msg = w[p].msg /\ r2.e = w[p].e
      /\ r2.job = w[p].job /\ r2.mx = row
  BY <1>1 DEF Worker
<1>3. Stop(p) \/ Put(p, r1) \/ (row.st = "paused" /\ Put(p, r2))
  BY DEF Decide
<1> HIDE DEF r1, r2
<1>4. CASE Put(p, r1)
  BY <1>1, <1>2, <1>4, LeaveLinks DEF DonePCs
<1>5. CASE row.st = "paused" /\ Put(p, r2)
  <2>1. /\ w[p].job = "resume" /\ e0 \in Executions /\ e0 # NULL
        /\ w[p].pc # "idle"
    BY <1>1, FlowAssumption DEF LinkOK, LocalOK, ReadPCs, Executions
  <2>2. Consumes(w[p], e0) /\ Brings(w[p], e0)
    BY <2>1 DEF Consumes, Brings, ReadPCs
  <2>3. exec[e0].st = "paused" => exec[e0].node \in Intervals
    BY <2>1, <2>2 DEF Links, WokenAtInterval
  <2>4. ~Calm => row.node \in Intervals
    BY <1>1, <1>5, <2>1, <2>3 DEF LinkOK, SawPause
  <2>5. LinkOK(p, r2)
    BY <1>1, <1>2, <2>1, <2>4 DEF LinkOK, SawPause, ReadPCs
  <2>6. ASSUME NEW q \in Workers, Owns(w[q], e0), Alone(w[q]) PROVE FALSE
    <3>1. w[q].pc = "pause" /\ ~SawPause(w[p])
      BY <2>1, <2>2, <2>6 DEF Links, OwnerUnwoken, Quiet
    <3>2. exec[e0].st # "paused"
      BY <2>1, <2>6, <3>1 DEF Links, OwnerRuns
    <3> QED
      BY <1>5, <3>1, <3>2 DEF SawPause
  <2>7. Alone(r2) => Calm
    BY <1>2, <2>1 DEF Alone
  <2>8. Calm => /\ \A m \in queue : m.e # e0
                /\ \A q \in Workers : q # p => ~Brings(w[q], e0)
    BY <2>1, <2>2 DEF Links, OneMessage
  <2>9. \A q \in Workers : q # p /\ Owns(w[q], e0) => ~Alone(w[q]) /\ ~Alone(r2)
    BY <2>6, <2>7 DEF Alone
  <2> HIDE DEF e0
  <2>10. r2.e = e0 /\ exec'[e0].st # "none"
    BY <1>1, <1>2, <2>1 DEF e0
  <2> QED
    BY <1>1, <1>2, <1>5, <2>1, <2>2, <2>5, <2>7, <2>8, <2>9, <2>10, TakeLinks
<1> QED
  BY <1>1, <1>3, <1>4, <1>5, StopLinks

LEMMA ConsumerLinks ==
  ASSUME Inv, Kept, Links, NEW p \in Workers,
         FetchSecond(p) \/ EndStale(p) \/ Clear(p)
  PROVE  Links'
<1>1. CASE FetchSecond(p)
  <2>1. UNCHANGED <<exec, queue>>
    BY <1>1 DEF FetchSecond
  <2>2. \/ w[p].pc = "readConv" /\ Decide(p, w[p].mx, conv)
        \/ w[p].pc = "readExec" /\ Decide(p, exec[w[p].e], w[p].mc)
    BY <1>1 DEF FetchSecond, At
  <2> QED
    BY <2>1, <2>2, DecideLinks
<1>2. CASE EndStale(p)
  <2>1. /\ w[p].pc = "endStale" /\ Goto(p, "clear") /\ queue' = queue
        /\ Update(w[p].e, w[p].mx) /\ w[p].e \in Executions
        /\ w[p].mx.st # "paused"
    BY <1>2, LinkHere DEF EndStale, At, LocalOK
  <2> QED
    BY <2>1, UpdateNoPause, LeaveTo DEF DonePCs
<1>3. CASE Clear(p)
  BY <1>3, SameNoPause, StopLinks DEF Clear
<1> QED
  BY <1>1, <1>2, <1>3

-----------------------------------------------------------------------------
(* Calls that are not about a flow's run, failures, and the theorem.       *)

LEMMA EndOneLinks ==
  ASSUME Inv, Kept, Links, NEW p \in Workers, EndOne(p), queue' = queue,
         w[p].pc \in {"endListed", "endEach"}
  PROVE  Links'
<1>1. /\ w[p] \in Worker /\ LinkOK(p, w[p])
      /\ w[p].e # NULL => exec'[w[p].e].st # "none"
  BY LinkHere
<1> DEFINE r(e) == [w[p] EXCEPT !.todo = @ \ {e}]
<1>2. PICK e \in w[p].todo : Update(e, Completed(exec[e])) /\ Put(p, r(e))
  BY Zenon DEF EndOne
<1>3. e \in Executions /\ exec[e] \in ExecRow
  BY <1>1, <1>2, Here DEF Worker
<1>4. NoPause
  BY <1>2, <1>3, CompletedRow, UpdateNoPause
<1>5. /\ r(e).pc = w[p].pc /\ r(e).msg = w[p].msg /\ r(e).e = w[p].e
      /\ r(e).job = w[p].job
  BY <1>1 DEF Worker
<1> HIDE DEF r
<1>6. CASE w[p].pc = "endListed"
  <2>1. /\ w[p].msg = NULL /\ w[p].job \notin {"resume", "recover"}
        /\ w[p].job = "trigger" => "trigger" \in Jobs[p]
    BY <1>1, <1>6 DEF LinkOK
  <2> QED
    BY <1>1, <1>2, <1>4, <1>5, <1>6, <2>1, OutLinks DEF OwnPCs, ReadPCs
<1>7. CASE w[p].pc = "endEach"
  BY <1>2, <1>4, <1>5, <1>7, LeaveLinks DEF DonePCs
<1> QED
  BY <1>6, <1>7

LEMMA ManualLinks ==
  ASSUME Inv, Kept, Links, NEW p \in Workers,
         ManualLoad(p) \/ ManualList(p) \/ ManualEnd(p)
  PROVE  Links'
<1>1. /\ w[p] \in Worker /\ LinkOK(p, w[p]) /\ queue' = queue
      /\ w[p].e # NULL => exec'[w[p].e].st # "none"
  BY LinkHere DEF ManualLoad, ManualList, ManualEnd
<1>2. CASE ManualLoad(p)
  <2> DEFINE r == [Idle EXCEPT !.pc = "listPaused", !.job = "manual",
                               !.mc = conv]
  <2>1. Put(p, r) /\ NoPause
    BY <1>2, SameNoPause DEF ManualLoad
  <2>2. r.pc = "listPaused" /\ r.msg = NULL /\ r.job = "manual" /\ r.e = NULL
    BY DEF Idle
  <2> HIDE DEF r
  <2> QED
    BY <1>1, <2>1, <2>2, OutLinks DEF OwnPCs, ReadPCs
<1>3. CASE ManualList(p)
  <2> DEFINE S == {e \in WithStatus("paused") : exec[e].node \notin Intervals}
             r == [w[p] EXCEPT !.pc = "endListed", !.todo = S]
  <2>1. w[p].pc = "listPaused" /\ Put(p, r) /\ NoPause
    BY <1>3, SameNoPause DEF ManualList, At
  <2> HIDE DEF S
  <2>2. r.pc = "endListed" /\ r.msg = w[p].msg /\ r.job = w[p].job /\ r.e = w[p].e
    BY <1>1 DEF Worker
  <2>3. /\ w[p].msg = NULL /\ w[p].job \notin {"resume", "recover"}
        /\ w[p].job = "trigger" => "trigger" \in Jobs[p]
    BY <1>1, <2>1 DEF LinkOK
  <2> HIDE DEF r
  <2> QED
    BY <1>1, <2>1, <2>2, <2>3, OutLinks DEF OwnPCs, ReadPCs
<1>4. CASE ManualEnd(p)
  <2> DEFINE r == [w[p] EXCEPT !.pc = "lock", !.via = "execute",
                               !.mc.active = NULL]
  <2>1. w[p].pc = "endListed"
    BY <1>4 DEF ManualEnd, At
  <2>2. EndOne(p) \/ (Put(p, r) /\ exec' = exec)
    BY <1>4, Zenon DEF ManualEnd
  <2>3. r.pc = "lock" /\ r.msg = w[p].msg /\ r.job = w[p].job /\ r.e = w[p].e
    BY <1>1 DEF Worker
  <2>4. /\ w[p].msg = NULL /\ w[p].job \notin {"resume", "recover"}
        /\ w[p].job = "trigger" => "trigger" \in Jobs[p]
    BY <1>1, <2>1 DEF LinkOK
  <2> HIDE DEF r
  <2>5. CASE Put(p, r) /\ exec' = exec
    BY <1>1, <2>3, <2>4, <2>5, SameNoPause, OutLinks DEF OwnPCs, ReadPCs
  <2> QED
    BY <1>1, <2>1, <2>2, <2>5, EndOneLinks
<1> QED
  BY <1>2, <1>3, <1>4

LEMMA TakeoverLinks ==
  ASSUME Inv, Kept, Links, NEW p \in Workers,
         \/ \E u \in Users : Assign(p, u)
         \/ \E u \in Users, t \in BOOLEAN : ReplyLoad(p, u, t)
         \/ \E u \in Users \cup {NULL} : TransferLoad(p, u)
         \/ EndConversation(p, "close", "closed")
         \/ EndConversation(p, "expire", "expired")
  PROVE  Links'
<1>1. w[p].pc = "idle" /\ UNCHANGED <<exec, queue, clock>>
  BY TakeoverShape, Zenon
<1>2. PICK r : BeginsAs(r) /\ Put(p, r)
  BY TakeoverShape, Zenon
<1>3. NoPause
  BY <1>1, SameNoPause
<1> QED
  BY <1>1, <1>2, <1>3, OutLinks DEF BeginsAs, OwnPCs, ReadPCs

LEMMA TerminatorLinks ==
  ASSUME Inv, Kept, Links, NEW p \in Workers,
         FindRunning(p) \/ FindAllPaused(p) \/ TerminateEach(p)
  PROVE  Links'
<1>1. w[p] \in Worker /\ queue' = queue
  BY LinkHere DEF FindRunning, FindAllPaused, TerminateEach
<1> DEFINE r(l, S) == [w[p] EXCEPT !.pc = l, !.todo = S]
<1>2. \A l, S : /\ r(l, S).pc = l /\ r(l, S).msg = w[p].msg
                /\ r(l, S).e = w[p].e /\ r(l, S).job = w[p].job
  BY <1>1 DEF Worker
<1>3. CASE FindRunning(p)
  <2>1. /\ w[p].pc = "endRunning" /\ exec' = exec
        /\ Put(p, r("endPaused", Latest(WithStatus("running"))))
    BY <1>3, Zenon DEF FindRunning, At
  <2> HIDE DEF r
  <2> QED
    BY <1>1, <1>2, <2>1, LeaveLinks, SameNoPause DEF DonePCs
<1>4. CASE FindAllPaused(p)
  <2>1. /\ w[p].pc = "endPaused" /\ exec' = exec
        /\ Put(p, r("endEach", w[p].todo \cup WithStatus("paused")))
    BY <1>4, Zenon DEF FindAllPaused, At
  <2> HIDE DEF r
  <2> QED
    BY <1>1, <1>2, <2>1, LeaveLinks, SameNoPause DEF DonePCs
<1>5. CASE TerminateEach(p)
  <2>1. /\ w[p].pc = "endEach"
        /\ EndOne(p) \/ (Goto(p, "clear") /\ exec' = exec)
    BY <1>5, Zenon DEF TerminateEach, At
  <2> QED
    BY <1>1, <2>1, EndOneLinks, LeaveTo, SameNoPause DEF DonePCs
<1> QED
  BY <1>3, <1>4, <1>5

(* FlowStatusChecker names the execution the conversation points to.       *)
LEMMA CloseLinks ==
  ASSUME Inv, Kept, Links, NEW p \in Workers, CheckFlow(p) \/ EndFlow(p)
  PROVE  Links'
<1>1. /\ w[p] \in Worker /\ LocalOK(w[p]) /\ LinkOK(p, w[p]) /\ queue' = queue
  BY LinkHere DEF CheckFlow, EndFlow
<1>2. CASE CheckFlow(p)
  <2> DEFINE a == w[p].mc.active
             r1 == [w[p] EXCEPT !.pc = "endFlow", !.e = a,
                                !.mx = Completed(exec[a])]
             r2 == [w[p] EXCEPT !.pc = "save"]
  <2>1. /\ w[p].pc = "checkFlow" /\ exec' = exec
        /\ (exec[a].st \in Live /\ Put(p, r1)) \/ Put(p, r2)
    BY <1>2, Zenon DEF CheckFlow, Goto, At
  <2>2. exec[a].st \in Live => exec'[a].st # "none"
    BY <2>1
  <2> HIDE DEF a
  <2>3. /\ r1.pc = "endFlow" /\ r1.msg = w[p].msg /\ r1.job = w[p].job /\ r1.e = a
        /\ r2.pc = "save" /\ r2.msg = w[p].msg /\ r2.job = w[p].job
        /\ r2.e = w[p].e
    BY <1>1 DEF Worker
  <2>4. /\ w[p].msg = NULL /\ w[p].job \notin {"resume", "recover"}
        /\ w[p].job = "trigger" => "trigger" \in Jobs[p]
    BY <1>1, <2>1 DEF LinkOK
  <2> HIDE DEF r1, r2
  <2>5. CASE exec[a].st \in Live /\ Put(p, r1)
    BY <1>1, <2>1, <2>2, <2>3, <2>4, <2>5, SameNoPause, OutLinks
       DEF OwnPCs, ReadPCs
  <2>6. CASE Put(p, r2)
    BY <1>1, <2>1, <2>3, <2>6, SameNoPause, LeaveLinks DEF DonePCs
  <2> QED
    BY <2>1, <2>5, <2>6
<1>3. CASE EndFlow(p)
  <2> DEFINE r == [w[p] EXCEPT !.pc = "save", !.mc.active = NULL]
  <2>1. /\ w[p].pc = "endFlow" /\ w[p].e \in Executions
        /\ w[p].mx.st # "paused" /\ Update(w[p].e, w[p].mx) /\ Put(p, r)
    BY <1>1, <1>3 DEF EndFlow, At, LocalOK
  <2>2. r.pc = "save" /\ r.msg = w[p].msg /\ r.e = w[p].e /\ r.job = w[p].job
    BY <1>1 DEF Worker
  <2> HIDE DEF r
  <2> QED
    BY <1>1, <2>1, <2>2, UpdateNoPause, LeaveLinks DEF DonePCs
<1> QED
  BY <1>2, <1>3

LEMMA ReconnectLinks ==
  ASSUME Inv, Kept, Links, NEW p \in Workers,
         Reopen(p) \/ ReconnectTerminate(p) \/ ReconnectClear(p)
  PROVE  Links'
<1>1. CASE Reopen(p)
  <2>1. UNCHANGED <<exec, queue, w>>
    BY <1>1 DEF Reopen
  <2> QED
    BY <2>1 DEF Links, CallsLinked, MessagesLinked, OneOwner, OwnerUnwoken,
                Quiet, OneMessage, OwnerRuns, WokenAtInterval
<1>2. CASE ReconnectTerminate(p)
  <2> DEFINE r == [Idle EXCEPT !.pc = "clearChannel", !.job = "reconnect"]
  <2>1. Put(p, r) /\ queue' = queue
    BY <1>2 DEF ReconnectTerminate
  <2>2. NoPause
    BY <1>2, Here, CompletedRow DEF ReconnectTerminate, NoPause
  <2>3. r.pc = "clearChannel" /\ r.msg = NULL /\ r.job = "reconnect" /\ r.e = NULL
    BY DEF Idle
  <2> HIDE DEF r
  <2> QED
    BY <2>1, <2>2, <2>3, OutLinks DEF OwnPCs, ReadPCs
<1>3. CASE ReconnectClear(p)
  <2>1. Stop(p) /\ exec' = exec /\ queue' = queue
    BY <1>3 DEF ReconnectClear
  <2> QED
    BY <2>1, SameNoPause, StopLinks
<1> QED
  BY <1>1, <1>2, <1>3

(* A consumer that fails gives its message back: whoever runs the          *)
(* execution alone is about to pause at the interval it is for.            *)
LEMMA GiveBackLinks ==
  ASSUME Inv, Kept, Links, ~Calm, NEW p \in Workers, NEW r, Put(p, r),
         exec' = exec, w[p].pc # "idle", w[p].msg # NULL,
         queue' = queue \cup {w[p].msg}, LinkOK(p, r),
         r.e # NULL => exec'[r.e].st # "none", ~SawPause(r),
         \A e \in Executions :
           /\ ~Owns(r, e)
           /\ Brings(r, e) => Brings(w[p], e)
  PROVE  Links'
<1> DEFINE m == w[p].msg
           e0 == w[p].e
<1>1. /\ w[p].job = "resume" /\ m.e = e0 /\ m \in Message
      /\ e0 \in Executions
  BY LinkHere DEF LinkOK, Worker, Message
<1>2. exec[e0].st # "none" /\ Brings(w[p], e0)
  BY <1>1, LinkHere, FlowAssumption DEF Brings, Executions
<1>3. /\ w'[p] = r /\ \A q \in Workers : q # p => w'[q] = w[q]
      /\ \A n \in queue : n.e \in Executions /\ exec[n.e].st # "none"
      /\ CallsLinked'
  BY Shape
<1>4. queue' = queue \cup {m}
  OBVIOUS
<1>5. \A e : Brings(w[p], e) <=> e = e0
  BY <1>1 DEF Brings
<1>6. \A s \in Workers, e \in Executions : Consumes(w'[s], e) => Consumes(w[s], e)
  BY <1>3 DEF Consumes, Brings
<1>7. Consumes(w[p], e0)
  BY <1>1 DEF Consumes
<1> HIDE DEF m, e0
<1>8. MessagesLinked'
  BY <1>1, <1>2, <1>3, <1>4 DEF MessagesLinked
<1>9. OneOwner'
  BY <1>3 DEF Links, OneOwner
<1>10. OwnerUnwoken'
  <2> SUFFICES ASSUME NEW q \in Workers, NEW e \in Executions,
                      Owns(w'[q], e), Alone(w'[q])
               PROVE  /\ \/ w'[q].pc = "pause" /\ w'[q].node \in Intervals
                         \/ Quiet(e)'
                      /\ \A s \in Workers : Brings(w'[s], e) => ~SawPause(w'[s])
    BY DEF OwnerUnwoken
  <2>1. q # p /\ w'[q] = w[q]
    BY <1>3
  <2>2. Quiet(e) => e # e0
    BY <1>2 DEF Quiet
  <2>3. Quiet(e) => Quiet(e)'
    BY <1>1, <1>3, <1>4, <2>2 DEF Quiet
  <2> QED
    BY <1>3, <2>1, <2>3 DEF Links, OwnerUnwoken
<1>11. OneMessage'
  BY DEF OneMessage
<1>12. OwnerRuns'
  BY <1>3 DEF Links, OwnerRuns
<1>13. WokenAtInterval'
  BY <1>1, <1>4, <1>6, <1>7 DEF Links, WokenAtInterval
<1> QED
  BY <1>3, <1>8, <1>9, <1>10, <1>11, <1>12, <1>13 DEF Links

LEMMA FailureLinks ==
  ASSUME Inv, Kept, Links, NEW p \in Workers, QueryThrows(p) \/ Crash(p)
  PROVE  Links'
<1> DEFINE r == [w[p] EXCEPT !.pc = "unlock", !.via = "throw"]
<1>1. /\ w[p] \in Worker /\ LinkOK(p, w[p]) /\ NoPause
      /\ exec' = exec /\ Requeue(p) /\ w[p].pc # "idle" /\ Fault
      /\ w[p].e # NULL => exec'[w[p].e].st # "none"
  BY LinkHere, SameNoPause DEF QueryThrows, Crash, At
<1>2. ~Calm
  BY <1>1, FlowAssumption DEF Fault, Calm, Inv, TypeOK
<1>3. Put(p, r) \/ Stop(p)
  BY <1>1 DEF QueryThrows, Crash, LinkOK
<1>4. r.pc = "unlock" /\ r.msg = w[p].msg /\ r.e = w[p].e /\ r.job = w[p].job
  BY <1>1 DEF Worker
<1> HIDE DEF r
<1>5. CASE w[p].msg = NULL
  BY <1>1, <1>3, <1>4, <1>5, StopLinks, LeaveLinks DEF Requeue, DonePCs
<1>6. CASE w[p].msg # NULL
  <2>1. queue' = queue \cup {w[p].msg}
    BY <1>1, <1>6 DEF Requeue
  <2>2. CASE Put(p, r)
    <3>1. LinkOK(p, r) /\ ~SawPause(r)
      BY <1>1, <1>4 DEF LinkOK, SawPause, ReadPCs
    <3>2. \A e : ~Owns(r, e) /\ (Brings(r, e) => Brings(w[p], e))
      BY <1>2, <1>4 DEF Owns, Brings, OwnPCs
    <3> QED
      BY <1>1, <1>2, <1>4, <1>6, <2>1, <2>2, <3>1, <3>2, GiveBackLinks
  <2>3. CASE Stop(p)
    <3>1. Put(p, Idle) /\ Idle.pc = "idle" /\ Idle.e = NULL /\ Idle.msg = NULL
      BY <2>3 DEF Stop, Idle
    <3>2. LinkOK(p, Idle) /\ ~SawPause(Idle)
      BY <3>1 DEF LinkOK, ReadPCs, SawPause
    <3>3. \A e \in Executions : ~Owns(Idle, e) /\ ~Brings(Idle, e)
      BY <3>1, FlowAssumption DEF Owns, Brings, OwnPCs, Executions
    <3> QED
      BY <1>1, <1>2, <1>6, <2>1, <3>1, <3>2, <3>3, GiveBackLinks
  <2> QED
    BY <1>3, <2>2, <2>3
<1> QED
  BY <1>5, <1>6

LEMMA RecoveryLinks ==
  ASSUME Inv, Kept, Links, NEW p \in Workers, "recover" \notin Jobs[p],
         \/ RecoverConv(p) \/ Rollback(p)
         \/ \E e \in Executions : RecoverList(p, e)
  PROVE  Links'
<1>1. w[p].pc \notin RecoveryPCs
  BY LinkHere DEF LinkOK
<1>2. w[p].pc \in RecoveryPCs \/ "recover" \in Jobs[p]
  BY Zenon DEF RecoverConv, Rollback, RecoverList, Begin, At
<1> QED
  BY <1>1, <1>2

LEMMA StepLinks ==
  ASSUME Inv, Kept, Links, OneTrigger, Calm \/ QuestionsFirst,
         NEW p \in Workers, "recover" \notin Jobs[p], Step(p)
  PROVE  Links'
<1>1. CASE Continue(p)
  BY <1>1, CreateLinks, ClaimLinks, EndLinks, ResumeLinks, LoopLinks,
     NodeLinks, ScheduleLinks, PauseLinks, FindLinks, TriggerLinks,
     FetchFirstLinks, ConsumerLinks, RecoveryLinks, ManualLinks,
     TerminatorLinks, CloseLinks, ReconnectLinks DEF Continue
<1>2. CASE Start(p)
  BY <1>2, TriggerLinks, ManualLinks, ReconnectLinks, RecoveryLinks,
     TakeoverLinks DEF Start
<1>3. CASE Consume(p)
  BY <1>3, DeliverLinks DEF Consume
<1>4. CASE QueryThrows(p) \/ Crash(p)
  BY <1>4, FailureLinks
<1> QED
  BY <1>1, <1>2, <1>3, <1>4 DEF Step

(* A customer's message and the delayed message never both resume an       *)
(* execution: while triggers of the conversation come one at a time and no *)
(* recovery runs, and either nothing fails or no question follows an       *)
(* interval.                                                               *)
THEOREM ResumedOnce ==
  ASSUME OneTrigger, NoRecovery, MaxFaults = 0 \/ QuestionsFirst
  PROVE  Spec => []NoDoubleResume
<1>1. Init => Links
  <2> SUFFICES ASSUME Init PROVE Links
    OBVIOUS
  <2>1. /\ \A p \in Workers : w[p] = Idle
        /\ queue = {} /\ \A e \in Executions : exec[e].st = "none"
    BY DEF Init, NoRow
  <2>2. Idle.pc = "idle" /\ Idle.e = NULL /\ Idle.msg = NULL
    BY DEF Idle
  <2>3. \A p : LinkOK(p, Idle)
    BY <2>2 DEF LinkOK, ReadPCs, SawPause
  <2>4. \A e \in Executions : ~Owns(Idle, e) /\ ~Brings(Idle, e)
    BY <2>2, FlowAssumption DEF Owns, Brings, OwnPCs, Executions
  <2> QED
    BY <2>1, <2>2, <2>3, <2>4
       DEF Links, CallsLinked, MessagesLinked, OneOwner, OwnerUnwoken,
           OneMessage, OwnerRuns, WokenAtInterval
<1>2. Inv /\ Links /\ [Next]_vars => Links'
  <2> SUFFICES ASSUME Inv, Links, [Next]_vars PROVE Links'
    OBVIOUS
  <2>1. Kept
    BY NextKept
  <2>2. CASE \E p \in Workers : Step(p)
    BY <2>1, <2>2, StepLinks DEF NoRecovery, Calm
  <2>3. CASE LockExpires \/ Tick \/ UNCHANGED vars
    <3>1. UNCHANGED <<exec, queue, w>>
      BY <2>3 DEF LockExpires, Tick, vars
    <3> QED
      BY <3>1 DEF Links, CallsLinked, MessagesLinked, OneOwner, OwnerUnwoken,
                  Quiet, OneMessage, OwnerRuns, WokenAtInterval
  <2> QED
    BY <2>2, <2>3 DEF Next
<1>3. Links => NoDoubleResume
  <2> SUFFICES ASSUME Links, NEW p \in Workers, NEW q \in Workers,
                      NEW e \in Executions, Driving(p, e), w[p].job = "trigger",
                      Driving(q, e), w[q].job = "resume"
               PROVE  FALSE
    BY DEF NoDoubleResume
  <2>1. Owns(w[p], e) /\ Owns(w[q], e) /\ Alone(w[p])
    BY DEF Driving, DrivingPCs, LockedPCs, Owns, OwnPCs, Alone
  <2>2. p = q
    BY <2>1 DEF Links, OneOwner
  <2> QED
    BY <2>2
<1> QED
  BY InvHolds, <1>1, <1>2, <1>3, PTL DEF Spec
=============================================================================
