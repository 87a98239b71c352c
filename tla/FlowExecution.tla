--------------------------- MODULE FlowExecution ---------------------------
(***************************************************************************)
(* The flow automation of one customer conversation: the conversation row, *)
(* the flow_executions rows, the Redis lock, the delayed-resume queue, and *)
(* the workers that read and write them.  A worker is one in-flight async  *)
(* call of the web process (an inbound-message trigger, the flow-resume    *)
(* consumer, a server action of an attendant).  Every await of the code is *)
(* a step boundary: a step is one statement on the database, on Redis or   *)
(* on RabbitMQ, together with the synchronous code up to the next await.   *)
(* What a worker read earlier stays in its own copies (mc, mx) and may be  *)
(* stale when it is written back.                                          *)
(***************************************************************************)
EXTENDS Naturals

CONSTANTS
  Workers,        \* concurrent async calls
  Jobs,           \* Jobs[p]: the commands worker p may run
  MaxExecutions,  \* bound: executions are numbered in creation order
  Users,          \* attendants
  NULL,
  Nodes, StartNode, Kind,   \* the flow: Kind[n] is the node's type,
  Target,                     \* Target[n] its target node, or NULL
  TriggerOn,      \* the start node's triggerOnStatuses
  Delay,          \* length of an interval node
  Buckets,        \* the delay queues' TTLs (DELAY_BUCKETS)
  MaxTime,        \* bound on the clock
  MaxFaults,      \* bound on crashes, exceptions and lost acks
  Prompt,         \* TRUE: an interval's pause is stored within a clock unit
  SlowFlows,      \* TRUE: a flow may outlive its lock's 60 s TTL
  BrokerFails     \* TRUE: publishing to RabbitMQ may fail

Executions == 1..MaxExecutions
Times == 0..(MaxTime + Delay)
Intervals == {n \in Nodes : Kind[n] = "interval"}

JobKinds == {"trigger", "resume", "recover", "manual", "assign", "reply",
             "transfer", "close", "expire", "reopen", "reconnect"}
NodeKinds == {"message", "input", "interval", "transfer", "end", "endClose"}
ConvStatus == {"waiting", "open", "closed", "expired"}
Live == {"running", "paused"}
Terminal == {"completed", "failed"}

ASSUME FlowAssumption ==
  /\ MaxExecutions \in Nat /\ MaxTime \in Nat /\ MaxFaults \in Nat
  /\ Delay \in Nat \ {0} /\ Buckets \subseteq Nat \ {0} /\ Buckets # {}
  /\ Jobs \in [Workers -> SUBSET JobKinds]
  /\ NULL \notin Workers \cup Users \cup Nodes \cup Nat
  /\ StartNode \in Nodes /\ Kind \in [Nodes -> NodeKinds]
  /\ Target \in [Nodes -> Nodes \cup {NULL}]
  /\ TriggerOn \subseteq ConvStatus
  /\ Prompt \in BOOLEAN /\ SlowFlows \in BOOLEAN /\ BrokerFails \in BOOLEAN

(* The persisted rows.  due and asked stand for the execution's variables  *)
(* _intervalResumeAt_<node> and _input_question_sent_<node>.               *)
ConvRow == [status: ConvStatus, attendant: Users \cup {NULL},
            active: Executions \cup {NULL}, flowDone: BOOLEAN]
ExecRow == [st: Live \cup Terminal \cup {"none"}, node: Nodes \cup {NULL},
            due: [Intervals -> Times \cup {NULL}], asked: SUBSET Nodes]
Message == [e: Executions, at: Nat]

NoConv == [status |-> "waiting", attendant |-> NULL, active |-> NULL,
           flowDone |-> FALSE]
NoRow == [st |-> "none", node |-> NULL, due |-> [n \in Intervals |-> NULL],
          asked |-> {}]
FirstRow == [NoRow EXCEPT !.st = "running", !.node = StartNode]

VARIABLES
  conv,    \* the conversations row
  exec,    \* the flow_executions rows
  lock,    \* holder of flow:conversation:<id> in Redis, or NULL
  queue,   \* resume messages waiting in the delay queues or ready
  clock,
  faults,  \* faults so far
  w        \* w[p]: the local state of worker p

vars == <<conv, exec, lock, queue, clock, faults, w>>

PCs == {"idle", "findPaused", "lock", "create", "claim", "reject", "resume",
        "load", "read", "move", "handle", "schedule", "pause", "finish",
        "unlock", "check", "save", "readBoth", "readExec", "readConv",
        "endStale", "recoverConv", "rollback", "listPaused", "endListed",
        "endRunning", "endPaused", "endEach", "clear", "checkFlow",
        "endFlow", "clearChannel"}
Worker == [pc: PCs, job: JobKinds \cup {NULL},
           via: {"execute", "resume", "throw", "assign", NULL},
           mc: ConvRow, mx: ExecRow, e: Executions \cup {NULL},
           node: Nodes \cup {NULL}, user: BOOLEAN,
           todo: SUBSET Executions, msg: Message \cup {NULL}, late: Nat]

(* Defaults of an idle worker; late counts the nodes it has run for an     *)
(* execution after that execution's row became terminal.                   *)
Idle == [pc |-> "idle", job |-> NULL, via |-> NULL, mc |-> NoConv,
         mx |-> NoRow, e |-> NULL, node |-> NULL, user |-> FALSE,
         todo |-> {}, msg |-> NULL, late |-> 0]

Init ==
  /\ conv = NoConv
  /\ exec = [e \in Executions |-> NoRow]
  /\ lock = NULL /\ queue = {} /\ clock = 0 /\ faults = 0
  /\ w = [p \in Workers |-> Idle]

-----------------------------------------------------------------------------
(* Repository statements.                                                  *)

WithStatus(st) == {e \in Executions : exec[e].st = st}
Latest(S) == {e \in S : \A f \in S : f <= e}
Fresh == {e \in WithStatus("none") : \A f \in WithStatus("none") : e <= f}

(* Mutant: update writes whatever the stored status is.                    *)
AnyTransition(st) == Live \cup Terminal

CanTransitionFrom(st) ==
  IF st \in Live THEN Live ELSE Live \cup Terminal

Update(e, row) ==
  exec' = IF exec[e].st \in CanTransitionFrom(row.st)
          THEN [exec EXCEPT ![e] = row] ELSE exec

(* Mutant: complete() stores a status the schema does not have.            *)
Finished(row) == [row EXCEPT !.st = "finished", !.node = NULL]

Completed(row) == [row EXCEPT !.st = "completed", !.node = NULL]
Failed(row) == [row EXCEPT !.st = "failed"]

(* Conversations upsert: the whole in-memory copy overwrites the row.      *)
Upsert(c) ==
  conv' = [c EXCEPT !.active = IF c.attendant # NULL THEN NULL ELSE c.active]

ClearActive == conv' = [conv EXCEPT !.active = NULL]

(* The delay queue for d: the smallest TTL that covers d, else the largest. *)
NormalizeDelay(d) ==
  {b \in Buckets :
     IF \E c \in Buckets : d <= c
     THEN d <= b /\ \A c \in Buckets : d <= c => b <= c
     ELSE \A c \in Buckets : c <= b}

-----------------------------------------------------------------------------
(* Helpers for the steps of one worker.                                    *)

At(p, label) == w[p].pc = label
Begin(p, k) == At(p, "idle") /\ k \in Jobs[p]
Put(p, r) == w' = [w EXCEPT ![p] = r]
Goto(p, label) == Put(p, [w[p] EXCEPT !.pc = label])
Stop(p) == Put(p, Idle)

(* Where the caller of executeFlow or resumeFlow continues.                *)
Return(p) == IF w[p].job = "trigger" THEN "check" ELSE "save"
(* executeFlow leaves the node loop through its finally block.             *)
Exit(p) == IF w[p].via = "execute" THEN "unlock" ELSE Return(p)

-----------------------------------------------------------------------------
(* FlowExecutorDriver.executeFlow and resumeFlow.                          *)

(* Mutant: SET without NX, the lock is taken from its holder.              *)
AcquireBlindly(p) ==
  /\ At(p, "lock")
  /\ lock' = p /\ Goto(p, "create")
  /\ UNCHANGED <<conv, exec, queue, clock, faults>>

Acquire(p) ==
  /\ At(p, "lock")
  /\ IF lock = NULL THEN lock' = p /\ Goto(p, "create")
                    ELSE Goto(p, Return(p)) /\ UNCHANGED lock
  /\ UNCHANGED <<conv, exec, queue, clock, faults>>

Create(p) ==
  /\ At(p, "create")
  /\ \E e \in Fresh :
       /\ exec' = [exec EXCEPT ![e] = FirstRow]
       /\ Put(p, [w[p] EXCEPT !.pc = "claim", !.e = e, !.mx = FirstRow])
  /\ UNCHANGED <<conv, lock, queue, clock, faults>>

(* The flow was deleted since its trigger was read.                        *)
FlowMissing(p) ==
  /\ At(p, "create")
  /\ Put(p, [w[p] EXCEPT !.pc = "unlock", !.via = "throw"])
  /\ UNCHANGED <<conv, exec, lock, queue, clock, faults>>

(* setActiveFlowExecutionIdIfNull.                                         *)
Claim(p) ==
  /\ At(p, "claim")
  /\ \/ /\ conv.active = NULL
        /\ conv' = [conv EXCEPT !.active = w[p].e]
        /\ Put(p, [w[p] EXCEPT !.pc = "load", !.node = StartNode,
                               !.mc.active = w[p].e])
     \/ /\ conv.active # NULL
        /\ Put(p, [w[p] EXCEPT !.pc = "reject", !.mx = Failed(w[p].mx)])
        /\ UNCHANGED conv
  /\ UNCHANGED <<exec, lock, queue, clock, faults>>

Reject(p) ==
  /\ At(p, "reject")
  /\ Update(w[p].e, w[p].mx)
  /\ Goto(p, "unlock")
  /\ UNCHANGED <<conv, lock, queue, clock, faults>>

(* release deletes the key only while it still holds this call's lock id.  *)
Unlock(p) ==
  /\ At(p, "unlock")
  /\ lock' = IF lock = p THEN NULL ELSE lock
  /\ IF w[p].via = "throw" THEN Stop(p) ELSE Goto(p, Return(p))
  /\ UNCHANGED <<conv, exec, queue, clock, faults>>

ResumeFlow(p) ==
  /\ At(p, "resume")
  /\ LET row == [w[p].mx EXCEPT !.st = "running"] IN
       /\ Update(w[p].e, row)
       /\ Put(p, [w[p] EXCEPT !.pc = "load", !.mx = row, !.node = row.node])
  /\ UNCHANGED <<conv, lock, queue, clock, faults>>

-----------------------------------------------------------------------------
(* FlowExecutorDriver.executeFromNode.                                     *)

(* Mutant: the persisted status is not looked at between two nodes.        *)
ReadBlindly(p) ==
  /\ w[p].pc \in {"load", "read"}
  /\ Put(p, [w[p] EXCEPT !.pc = "move",
               !.mx = [exec[w[p].e] EXCEPT !.node = w[p].node,
                                           !.st = "running"]])
  /\ UNCHANGED <<conv, exec, lock, queue, clock, faults>>

Read(p) ==
  /\ w[p].pc \in {"load", "read"}
  /\ IF exec[w[p].e].st # "running"
     THEN Put(p, [w[p] EXCEPT !.pc = Exit(p), !.mc.active = NULL])
     ELSE Put(p, [w[p] EXCEPT !.pc = "move",
                    !.mx = [exec[w[p].e] EXCEPT !.node = w[p].node]])
  /\ UNCHANGED <<conv, exec, lock, queue, clock, faults>>

Move(p) ==
  /\ At(p, "move")
  /\ Update(w[p].e, w[p].mx)
  /\ Goto(p, "handle")
  /\ UNCHANGED <<conv, lock, queue, clock, faults>>

Ran(p) == w[p].late + (IF exec[w[p].e].st \in Terminal THEN 1 ELSE 0)

(* A node succeeded without pausing: on to the next node, or complete.     *)
Advance(p, row, c) ==
  LET n == Target[w[p].node] IN
  Put(p, [w[p] EXCEPT !.late = Ran(p), !.mc = c, !.node = n,
                      !.pc = IF n = NULL THEN "finish" ELSE "read",
                      !.mx = IF n = NULL THEN Completed(row) ELSE row])

FailNode(p) ==
  Put(p, [w[p] EXCEPT !.late = Ran(p), !.pc = "finish",
                      !.mx = Failed(w[p].mx)])

ParkAt(p, label, row) ==
  Put(p, [w[p] EXCEPT !.late = Ran(p), !.pc = label, !.mx = row])

OnNode(p, k) == At(p, "handle") /\ Kind[w[p].node] = k

RunMessage(p) ==
  /\ OnNode(p, "message")
  /\ Advance(p, w[p].mx, w[p].mc) \/ (BrokerFails /\ FailNode(p))
  /\ UNCHANGED <<conv, exec, lock, queue, clock, faults>>

(* A stored answer, or one attempt too many, moves on; otherwise the       *)
(* question is sent (again) and the flow waits for the customer.           *)
RunInput(p) ==
  /\ OnNode(p, "input")
  /\ LET n == w[p].node  x == w[p].mx IN
       \/ /\ w[p].user /\ n \in x.asked
          /\ \/ Advance(p, [x EXCEPT !.asked = @ \ {n}], w[p].mc)
             \/ ParkAt(p, "pause", x)
       \/ /\ ~(w[p].user /\ n \in x.asked)
          /\ ParkAt(p, "pause", [x EXCEPT !.asked = @ \cup {n}])
       \/ BrokerFails /\ FailNode(p)
  /\ UNCHANGED <<conv, exec, lock, queue, clock, faults>>

(* Mutant: an early wake-up pauses again without a new pauseUntil.         *)
RunIntervalOnce(p) ==
  /\ OnNode(p, "interval")
  /\ LET n == w[p].node  x == w[p].mx IN
       \/ /\ x.due[n] = NULL
          /\ ParkAt(p, "schedule", [x EXCEPT !.due[n] = clock + Delay])
       \/ /\ x.due[n] # NULL /\ x.due[n] <= clock
          /\ Advance(p, [x EXCEPT !.due[n] = NULL], w[p].mc)
       \/ /\ x.due[n] # NULL /\ x.due[n] > clock
          /\ ParkAt(p, "pause", x)
  /\ UNCHANGED <<conv, exec, lock, queue, clock, faults>>

RunInterval(p) ==
  /\ OnNode(p, "interval")
  /\ LET n == w[p].node  x == w[p].mx IN
       \/ /\ x.due[n] = NULL
          /\ ParkAt(p, "schedule", [x EXCEPT !.due[n] = clock + Delay])
       \/ /\ x.due[n] # NULL /\ x.due[n] <= clock
          /\ Advance(p, [x EXCEPT !.due[n] = NULL], w[p].mc)
       \/ /\ x.due[n] # NULL /\ x.due[n] > clock
          /\ ParkAt(p, "schedule", x)
  /\ UNCHANGED <<conv, exec, lock, queue, clock, faults>>

(* Only the in-memory conversation is transferred; the caller saves it.    *)
RunTransfer(p) ==
  /\ OnNode(p, "transfer")
  /\ \/ Advance(p, w[p].mx, [w[p].mc EXCEPT !.status = "waiting",
                                            !.attendant = NULL])
     \/ FailNode(p)
  /\ UNCHANGED <<conv, exec, lock, queue, clock, faults>>

RunEnd(p) ==
  /\ OnNode(p, "end") \/ OnNode(p, "endClose")
  /\ Advance(p, w[p].mx,
             [w[p].mc EXCEPT !.flowDone = TRUE, !.active = NULL,
                !.status = IF OnNode(p, "endClose") THEN "closed" ELSE @])
  /\ UNCHANGED <<conv, exec, lock, queue, clock, faults>>

(* The resume message goes to a delay queue.                               *)
Publish(p) ==
  \E ttl \in NormalizeDelay(w[p].mx.due[w[p].node] - clock) :
    queue' = queue \cup {[e |-> w[p].e, at |-> clock + ttl]}

(* Mutant: the pause is stored although the publish was refused.           *)
ScheduleBlindly(p) ==
  /\ At(p, "schedule")
  /\ LET due == w[p].mx.due[w[p].node] IN
       \/ due <= clock /\ UNCHANGED queue
       \/ due > clock /\ Publish(p)
       \/ due > clock /\ BrokerFails /\ UNCHANGED queue
  /\ Goto(p, "pause")
  /\ UNCHANGED <<conv, exec, lock, clock, faults>>

(* The resume message is published before the pause is stored.  When the   *)
(* driver reports a failure, which a full write buffer is too, the code    *)
(* breaks out of the loop and leaves the row as it is.                     *)
Schedule(p) ==
  /\ At(p, "schedule")
  /\ LET due == w[p].mx.due[w[p].node] IN
       \/ due <= clock /\ Goto(p, "pause") /\ UNCHANGED queue
       \/ due > clock /\ Publish(p) /\ Goto(p, "pause")
       \/ /\ due > clock /\ BrokerFails
          /\ Publish(p) \/ UNCHANGED queue
          /\ Goto(p, Exit(p))
  /\ UNCHANGED <<conv, exec, lock, clock, faults>>

Pause(p) ==
  /\ At(p, "pause")
  /\ Update(w[p].e, [w[p].mx EXCEPT !.st = "paused"])
  /\ Put(p, [w[p] EXCEPT !.pc = Exit(p), !.mx.st = "paused"])
  /\ UNCHANGED <<conv, lock, queue, clock, faults>>

(* Mutant: the end of the flow is not stored.                              *)
ForgetEnd(p) ==
  /\ At(p, "finish")
  /\ Put(p, [w[p] EXCEPT !.pc = Exit(p), !.mc.active = NULL])
  /\ UNCHANGED <<conv, exec, lock, queue, clock, faults>>

(* complete() or fail() is stored.                                         *)
StoreEnd(p) ==
  /\ At(p, "finish")
  /\ Update(w[p].e, w[p].mx)
  /\ Put(p, [w[p] EXCEPT !.pc = Exit(p), !.mc.active = NULL])
  /\ UNCHANGED <<conv, lock, queue, clock, faults>>

-----------------------------------------------------------------------------
(* ProcessInboundMessage.processFlowTrigger.                               *)

TriggerLoad(p) ==
  /\ Begin(p, "trigger") /\ conv.status # "closed"
  /\ Put(p, [Idle EXCEPT !.pc = "findPaused", !.job = "trigger",
                         !.mc = conv, !.user = TRUE])
  /\ UNCHANGED <<conv, exec, lock, queue, clock, faults>>

MayStart(c) ==
  /\ c.active = NULL /\ ~c.flowDone
  /\ TriggerOn = {} \/ c.status \in TriggerOn

(* Mutant: a customer message also resumes a flow that waits at an interval. *)
FindAnyPaused(p) ==
  LET c == w[p].mc
      paused == WithStatus("paused") IN
  /\ At(p, "findPaused")
  /\ \/ /\ c.attendant # NULL \/ (paused = {} /\ ~MayStart(c))
        /\ Stop(p)
     \/ /\ c.attendant = NULL
        /\ \E e \in Latest(paused) :
             Put(p, [w[p] EXCEPT !.pc = "resume", !.via = "resume",
                                 !.e = e, !.mx = exec[e]])
     \/ /\ c.attendant = NULL /\ paused = {} /\ MayStart(c)
        /\ Put(p, [w[p] EXCEPT !.pc = "lock", !.via = "execute"])
  /\ UNCHANGED <<conv, exec, lock, queue, clock, faults>>

FindPaused(p) ==
  LET c == w[p].mc
      paused == WithStatus("paused")
      waits(e) == exec[e].node \in Intervals IN
  /\ At(p, "findPaused")
  /\ \/ /\ \/ c.attendant # NULL
           \/ \E e \in Latest(paused) : waits(e)
           \/ paused = {} /\ ~MayStart(c)
        /\ Stop(p)
     \/ /\ c.attendant = NULL
        /\ \E e \in Latest(paused) :
             /\ ~waits(e)
             /\ Put(p, [w[p] EXCEPT !.pc = "resume", !.via = "resume",
                                    !.e = e, !.mx = exec[e]])
     \/ /\ c.attendant = NULL /\ paused = {} /\ MayStart(c)
        /\ Put(p, [w[p] EXCEPT !.pc = "lock", !.via = "execute"])
  /\ UNCHANGED <<conv, exec, lock, queue, clock, faults>>

(* The conversation is read again; an attended one is not overwritten.     *)
Check(p) ==
  /\ At(p, "check")
  /\ IF conv.attendant # NULL THEN Stop(p) ELSE Goto(p, "save")
  /\ UNCHANGED <<conv, exec, lock, queue, clock, faults>>

Save(p) ==
  /\ At(p, "save")
  /\ Upsert(w[p].mc)
  /\ IF w[p].via = "assign" THEN Goto(p, "endRunning") ELSE Stop(p)
  /\ UNCHANGED <<exec, lock, queue, clock, faults>>

-----------------------------------------------------------------------------
(* FlowResumeConsumer.handleFlowResume.  A message leaves the queue for    *)
(* good when it is acknowledged, which the end of the job stands for.      *)

Deliver(p, m) ==
  /\ Begin(p, "resume") /\ m.at <= clock
  /\ queue' = queue \ {m}
  /\ Put(p, [Idle EXCEPT !.pc = "readBoth", !.job = "resume", !.e = m.e,
                         !.msg = m])
  /\ UNCHANGED <<conv, exec, lock, clock, faults>>

Decide(p, row, c) ==
  \/ row.st # "paused" /\ Stop(p)
  \/ /\ row.st = "paused" /\ c.attendant # NULL
     /\ Put(p, [w[p] EXCEPT !.pc = "endStale", !.mx = Completed(row)])
  \/ /\ row.st = "paused" /\ c.attendant = NULL
     /\ Put(p, [w[p] EXCEPT !.pc = "resume", !.via = "resume", !.mx = row,
                            !.mc = c])

(* The two rows are read in parallel, in either order.                     *)
FetchFirst(p) ==
  /\ At(p, "readBoth")
  /\ \/ Put(p, [w[p] EXCEPT !.pc = "readConv", !.mx = exec[w[p].e]])
     \/ Put(p, [w[p] EXCEPT !.pc = "readExec", !.mc = conv])
  /\ UNCHANGED <<conv, exec, lock, queue, clock, faults>>

FetchSecond(p) ==
  /\ \/ At(p, "readConv") /\ Decide(p, w[p].mx, conv)
     \/ At(p, "readExec") /\ Decide(p, exec[w[p].e], w[p].mc)
  /\ UNCHANGED <<conv, exec, lock, queue, clock, faults>>

EndStale(p) ==
  /\ At(p, "endStale")
  /\ Update(w[p].e, w[p].mx)
  /\ Goto(p, "clear")
  /\ UNCHANGED <<conv, lock, queue, clock, faults>>

(* clearActiveFlowExecution, the last statement of both terminators.       *)
Clear(p) ==
  /\ At(p, "clear")
  /\ ClearActive
  /\ Stop(p)
  /\ UNCHANGED <<exec, lock, queue, clock, faults>>

-----------------------------------------------------------------------------
(* RecoverStuckFlows: one execution of the listing; the listing is stale   *)
(* by the time the batch reaches it.                                       *)

RecoverList(p, e) ==
  /\ Begin(p, "recover") /\ e \in WithStatus("paused")
  /\ \E n \in Intervals : exec[e].due[n] # NULL /\ exec[e].due[n] <= clock
  /\ Put(p, [Idle EXCEPT !.pc = "recoverConv", !.job = "recover",
                         !.e = e, !.mx = exec[e]])
  /\ UNCHANGED <<conv, exec, lock, queue, clock, faults>>

RecoverConv(p) ==
  /\ At(p, "recoverConv")
  /\ Put(p, [w[p] EXCEPT !.pc = "resume", !.via = "resume", !.mc = conv])
  /\ UNCHANGED <<conv, exec, lock, queue, clock, faults>>

Rollback(p) ==
  /\ At(p, "rollback")
  /\ Update(w[p].e, [w[p].mx EXCEPT !.st = "paused"])
  /\ Stop(p)
  /\ UNCHANGED <<conv, lock, queue, clock, faults>>

-----------------------------------------------------------------------------
(* ExecuteFlow: the server action that starts a flow by hand.              *)

ManualLoad(p) ==
  /\ Begin(p, "manual")
  /\ Put(p, [Idle EXCEPT !.pc = "listPaused", !.job = "manual", !.mc = conv])
  /\ UNCHANGED <<conv, exec, lock, queue, clock, faults>>

ManualList(p) ==
  /\ At(p, "listPaused")
  /\ Put(p, [w[p] EXCEPT !.pc = "endListed",
       !.todo = {e \in WithStatus("paused") : exec[e].node \notin Intervals}])
  /\ UNCHANGED <<conv, exec, lock, queue, clock, faults>>

(* The variables a completed row carries are never read again: the row's   *)
(* current ones stand for those of the listing.                            *)
EndOne(p) ==
  \E e \in w[p].todo :
    /\ Update(e, Completed(exec[e]))
    /\ Put(p, [w[p] EXCEPT !.todo = @ \ {e}])

ManualEnd(p) ==
  /\ At(p, "endListed")
  /\ \/ EndOne(p)
     \/ /\ w[p].todo = {}
        /\ Put(p, [w[p] EXCEPT !.pc = "lock", !.via = "execute",
                               !.mc.active = NULL])
        /\ UNCHANGED exec
  /\ UNCHANGED <<conv, lock, queue, clock, faults>>

-----------------------------------------------------------------------------
(* An attendant takes over: AssignConversation, SendMessage,               *)
(* TransferConversation, each followed by HumanTakeoverFlowTerminator.     *)

(* assignAtomically; a refused assignment changes nothing.                 *)
Assign(p, u) ==
  /\ Begin(p, "assign")
  /\ conv.attendant \in {NULL, u} \/ conv.status \in {"closed", "expired"}
  /\ conv' = [conv EXCEPT !.status = "open", !.attendant = u, !.active = NULL]
  /\ Put(p, [Idle EXCEPT !.pc = "endRunning", !.job = "assign"])
  /\ UNCHANGED <<exec, lock, queue, clock, faults>>

Opened(c, u) ==
  [c EXCEPT !.attendant = u,
            !.status = IF c.status = "waiting" THEN "open" ELSE c.status]
Reopened(c) ==
  [c EXCEPT !.status = "waiting", !.attendant = NULL, !.flowDone = FALSE]

(* A reply; a template also reopens an expired conversation.               *)
ReplyLoad(p, u, template) ==
  LET c == IF template /\ conv.status = "expired" THEN Reopened(conv)
                                                  ELSE conv IN
  /\ Begin(p, "reply")
  /\ c.attendant = NULL \/ c.status = "waiting"
  /\ Put(p, [Idle EXCEPT !.pc = "save", !.job = "reply",
       !.via = IF c.attendant = NULL THEN "assign" ELSE NULL,
       !.mc = Opened(c, IF c.attendant = NULL THEN u ELSE c.attendant)])
  /\ UNCHANGED <<conv, exec, lock, queue, clock, faults>>

(* To a sector (u = NULL), or to an attendant of that sector.              *)
TransferLoad(p, u) ==
  LET c == [conv EXCEPT !.attendant = NULL, !.status = "waiting"] IN
  /\ Begin(p, "transfer")
  /\ Put(p, [Idle EXCEPT !.pc = "save", !.job = "transfer",
       !.via = IF u = NULL THEN NULL ELSE "assign",
       !.mc = IF u = NULL THEN c ELSE Opened(c, u)])
  /\ UNCHANGED <<conv, exec, lock, queue, clock, faults>>

FindRunning(p) ==
  /\ At(p, "endRunning")
  /\ Put(p, [w[p] EXCEPT !.pc = "endPaused",
                         !.todo = Latest(WithStatus("running"))])
  /\ UNCHANGED <<conv, exec, lock, queue, clock, faults>>

FindAllPaused(p) ==
  /\ At(p, "endPaused")
  /\ Put(p, [w[p] EXCEPT !.pc = "endEach", !.todo = @ \cup WithStatus("paused")])
  /\ UNCHANGED <<conv, exec, lock, queue, clock, faults>>

TerminateEach(p) ==
  /\ At(p, "endEach")
  /\ \/ EndOne(p)
     \/ w[p].todo = {} /\ Goto(p, "clear") /\ UNCHANGED exec
  /\ UNCHANGED <<conv, lock, queue, clock, faults>>

-----------------------------------------------------------------------------
(* CloseConversation and ExpireConversation, with FlowStatusChecker.       *)

EndConversation(p, k, st) ==
  /\ Begin(p, k)
  /\ Put(p, [Idle EXCEPT !.job = k, !.mc = [conv EXCEPT !.status = st],
       !.pc = IF conv.status # st /\ conv.active # NULL THEN "checkFlow"
                                                         ELSE "save"])
  /\ UNCHANGED <<conv, exec, lock, queue, clock, faults>>

CheckFlow(p) ==
  LET c == w[p].mc IN
  /\ At(p, "checkFlow")
  /\ IF /\ exec[c.active].st \in Live
        /\ TriggerOn # {} /\ c.status \notin TriggerOn
     THEN Put(p, [w[p] EXCEPT !.pc = "endFlow", !.e = c.active,
                              !.mx = Completed(exec[c.active])])
     ELSE Goto(p, "save")
  /\ UNCHANGED <<conv, exec, lock, queue, clock, faults>>

EndFlow(p) ==
  /\ At(p, "endFlow")
  /\ Update(w[p].e, w[p].mx)
  /\ Put(p, [w[p] EXCEPT !.pc = "save", !.mc.active = NULL])
  /\ UNCHANGED <<conv, lock, queue, clock, faults>>

-----------------------------------------------------------------------------
(* Single statements of other parts of the system.                         *)

(* reopenAtomically, for an inbound message on an ended conversation.      *)
Reopen(p) ==
  /\ Begin(p, "reopen") /\ conv.status \in {"closed", "expired"}
  /\ conv' = [Reopened(conv) EXCEPT !.active = NULL]
  /\ UNCHANGED <<exec, lock, queue, clock, faults, w>>

(* reconnectChannel: terminateByChannel, then clearActiveFlows.            *)
ReconnectTerminate(p) ==
  /\ Begin(p, "reconnect")
  /\ exec' = [e \in Executions |->
                IF exec[e].st \in Live THEN Completed(exec[e]) ELSE exec[e]]
  /\ Put(p, [Idle EXCEPT !.pc = "clearChannel", !.job = "reconnect"])
  /\ UNCHANGED <<conv, lock, queue, clock, faults>>

ReconnectClear(p) ==
  /\ At(p, "clearChannel")
  /\ conv' = IF conv.active = NULL THEN conv
             ELSE [conv EXCEPT !.active = NULL, !.flowDone = TRUE]
  /\ Stop(p)
  /\ UNCHANGED <<exec, lock, queue, clock, faults>>

-----------------------------------------------------------------------------
(* Failures.  Below MaxFaults retries (three in the consumer) a message is *)
(* put back rather than discarded.                                         *)

Fault == faults < MaxFaults /\ faults' = faults + 1
(* Mutant: a message is acknowledged before it is handled.                 *)
AckedEarly(p) == queue' = queue

Requeue(p) ==
  queue' = IF w[p].msg = NULL THEN queue ELSE queue \cup {w[p].msg}

(* A query outside the node's try block throws after the row is "running". *)
QueryThrows(p) ==
  /\ w[p].pc \in {"load", "read", "move"} /\ Fault
  /\ Requeue(p)
  /\ \/ /\ w[p].via = "execute"
        /\ Put(p, [w[p] EXCEPT !.pc = "unlock", !.via = "throw"])
     \/ w[p].via = "resume" /\ w[p].job = "recover" /\ Goto(p, "rollback")
     \/ w[p].via = "resume" /\ w[p].job # "recover" /\ Stop(p)
  /\ UNCHANGED <<conv, exec, lock, clock>>

(* The process dies, or the consumer's connection drops before the ack.    *)
Crash(p) ==
  /\ ~At(p, "idle") /\ Fault
  /\ Requeue(p)
  /\ Stop(p)
  /\ UNCHANGED <<conv, exec, lock, clock>>

LockedPCs == {"create", "claim", "reject", "load", "read", "move", "handle",
              "schedule", "pause", "finish", "unlock"}
InFlow(p) == w[p].via \in {"execute", "throw"} /\ w[p].pc \in LockedPCs

LockExpires ==
  /\ lock # NULL
  /\ SlowFlows \/ ~InFlow(lock)
  /\ lock' = NULL
  /\ UNCHANGED <<conv, exec, queue, clock, faults, w>>

(* Between the interval's clock reading and the stored pause.              *)
Pausing(p) == w[p].pc \in {"schedule", "pause"} /\ w[p].node \in Intervals

Tick ==
  /\ clock < MaxTime
  /\ \/ \E m \in queue : m.at > clock
     \/ \E n \in Intervals, x \in {exec[e] : e \in Executions}
                               \cup {w[p].mx : p \in Workers} :
          x.due[n] # NULL /\ x.due[n] > clock
  /\ Prompt => \A p \in Workers : ~Pausing(p)
  /\ clock' = clock + 1
  /\ UNCHANGED <<conv, exec, lock, queue, faults, w>>

-----------------------------------------------------------------------------
(* What a call does once it has begun.                                     *)
Continue(p) ==
  \/ Acquire(p) \/ Create(p) \/ FlowMissing(p) \/ Claim(p) \/ Reject(p)
  \/ Unlock(p) \/ ResumeFlow(p) \/ Read(p) \/ Move(p)
  \/ RunMessage(p) \/ RunInput(p) \/ RunInterval(p) \/ RunTransfer(p)
  \/ RunEnd(p) \/ Schedule(p) \/ Pause(p) \/ StoreEnd(p)
  \/ FindPaused(p) \/ Check(p) \/ Save(p)
  \/ FetchFirst(p) \/ FetchSecond(p) \/ EndStale(p) \/ Clear(p)
  \/ RecoverConv(p) \/ Rollback(p)
  \/ ManualList(p) \/ ManualEnd(p)
  \/ FindRunning(p) \/ FindAllPaused(p) \/ TerminateEach(p)
  \/ CheckFlow(p) \/ EndFlow(p) \/ ReconnectClear(p)

(* What customers, attendants and administrators may start.                *)
Start(p) ==
  \/ TriggerLoad(p) \/ ManualLoad(p) \/ Reopen(p) \/ ReconnectTerminate(p)
  \/ \E e \in Executions : RecoverList(p, e)
  \/ \E u \in Users : Assign(p, u) \/ TransferLoad(p, u)
  \/ \E u \in Users, t \in BOOLEAN : ReplyLoad(p, u, t)
  \/ TransferLoad(p, NULL)
  \/ EndConversation(p, "close", "closed")
  \/ EndConversation(p, "expire", "expired")

Consume(p) == \E m \in queue : Deliver(p, m)

Step(p) ==
  Continue(p) \/ Start(p) \/ Consume(p) \/ QueryThrows(p) \/ Crash(p)

Next == (\E p \in Workers : Step(p)) \/ LockExpires \/ Tick

Spec == Init /\ [][Next]_vars

(* A call that has begun is carried on by the event loop, the broker       *)
(* delivers what is due to a free consumer, and time passes.               *)
Fairness ==
  /\ \A p \in Workers : WF_vars(Continue(p)) /\ WF_vars(Consume(p))
  /\ WF_vars(LockExpires) /\ WF_vars(Tick)

FairSpec == Spec /\ Fairness

-----------------------------------------------------------------------------
(* Properties.                                                             *)

(* Every variable has its type (rows, copies and labels of the code).      *)
TypeOK ==
  /\ conv \in ConvRow
  /\ exec \in [Executions -> ExecRow]
  /\ lock \in Workers \cup {NULL}
  /\ queue \subseteq Message
  /\ clock \in 0..MaxTime /\ faults \in Nat
  /\ w \in [Workers -> Worker]

(* A completed or failed execution is never set running or paused again,   *)
(* whatever stale copy another call still holds: the guard of              *)
(* FlowExecutionsDatabaseRepository.update.                                *)
NoRevival ==
  [][\A e \in Executions :
       exec[e].st \in Terminal => exec'[e].st \in Terminal]_vars

(* Once an execution is ended (takeover, close, reconnect), a call that is *)
(* running it answers the customer with one more node at most: the node    *)
(* loop reads the row again before each node.                              *)
BotStops == \A p \in Workers : w[p].late <= 1

(* Two calls are not both inside executeFlow for the conversation while    *)
(* flows finish within the lock's TTL, crashes included.                   *)
OneFlowAtATime ==
  \A p, q \in Workers : InFlow(p) /\ InFlow(q) => p = q

(* A message for e is waiting, or in the hands of a consumer that has not  *)
(* yet decided to drop it.                                                 *)
ResumePending(e) ==
  \/ \E m \in queue : m.e = e
  \/ \E p \in Workers : w[p].msg # NULL /\ w[p].e = e

(* A flow that waits at an interval not yet over has a message on its way  *)
(* to wake it: "Schedule resume BEFORE pausing to prevent stuck flows".    *)
(* With a second interval after the first, RecoverStuckFlows breaks it: it *)
(* takes the passed interval's due date, resumes the flow early, and a     *)
(* consumer may drop its message before the recovery rolls back.  So do    *)
(* two triggers that resume the same question, each with a date of its own *)
(* for the one interval.                                                   *)
WaitingIsScheduled ==
  \A e \in Executions :
    /\ exec[e].st = "paused" /\ exec[e].node \in Intervals
    /\ exec[e].due[exec[e].node] # NULL
    /\ exec[e].due[exec[e].node] > clock
    => ResumePending(e)

DrivingPCs == LockedPCs \ {"create", "claim", "reject", "unlock"}
Driving(p, e) == w[p].e = e /\ w[p].pc \in DrivingPCs \cup {"resume"}

(* A customer's message and the delayed message do not both resume an      *)
(* execution: processFlowTrigger leaves flows at an interval to RabbitMQ.  *)
(* That holds for one trigger at a time; of two triggers that resume the   *)
(* same question, the slower may still be at it when the interval is over. *)
(* And it holds while nothing fails, or no question comes after an         *)
(* interval: a message delivered twice resumes the flow at the question.   *)
NoDoubleResume ==
  \A p, q \in Workers, e \in Executions :
    /\ Driving(p, e) /\ w[p].job = "trigger"
    /\ Driving(q, e) /\ w[q].job = "resume"
    => FALSE

(* A flow paused at an interval is eventually taken up again (or ended).   *)
IntervalResumes ==
  \A e \in Executions :
    exec[e].st = "paused" /\ exec[e].node \in Intervals
      ~> exec[e].st # "paused"

(* A running execution eventually pauses or ends: a failed schedule is     *)
(* said to "continue execution without pausing (safe fallback)".           *)
RunningEnds ==
  \A e \in Executions : exec[e].st = "running" ~> exec[e].st # "running"

(* A flow's stored conversation never takes the conversation away from the *)
(* attendant who assumed it meanwhile: "Conversation attended while        *)
(* executing flow, skipping stale flow state persistence".                 *)
FlowSaveKeepsAttendant ==
  [][\A p \in Workers :
       At(p, "save") /\ w[p].job \in {"trigger", "resume"} /\ w' # w
         /\ w'[p].pc = "idle" /\ conv.attendant # NULL
       => conv'.attendant = conv.attendant]_vars

(* An assumed conversation has no flow left: assigning "terminates         *)
(* automation after successful assignment".                                *)
AttendedEndsFlows ==
  \A e \in Executions :
    <>[](conv.attendant # NULL) => <>[](exec[e].st \notin Live)
=============================================================================
