------------------------------ MODULE Campaign ------------------------------
(***************************************************************************)
(* One bulk campaign: its row, its recipients' rows, the messages put on   *)
(* the outbound queue, and the calls of the web process that work on them: *)
(* the cron route, which starts due campaigns and sends one batch of each  *)
(* running one, and the users' start and cancel.  As in FlowExecution a    *)
(* step is one await, and a call's copy of the campaign row may be stale   *)
(* when the whole row is written back.  Birthday campaigns are left out of *)
(* the cron's run: they are created without recipients, and a campaign     *)
(* without recipients never runs.                                          *)
(***************************************************************************)
EXTENDS Naturals, FiniteSets

CONSTANTS
  Recipients,   \* the campaign's recipients, fixed when it is created
  Calls,        \* concurrent calls of the web process
  Jobs,         \* Jobs[p]: what call p may be
  BatchSize,    \* recipients of one batch (BATCH_SIZE)
  LockTimeout,  \* the cron lock's timeout, in delays between two messages
  MaxFaults     \* bound on crashes and thrown queries

JobKinds == {"cron", "start", "cancel"}
Status == {"draft", "scheduled", "running", "completed", "cancelled",
           "failed"}

ASSUME CampaignAssumption ==
  /\ IsFiniteSet(Recipients)
  /\ Jobs \in [Calls -> SUBSET JobKinds]
  /\ BatchSize \in Nat \ {0} /\ LockTimeout \in Nat /\ MaxFaults \in Nat

CampRow == [st: Status, sent: Nat, failed: Nat]
NewCampaign == [st |-> "draft", sent |-> 0, failed |-> 0]

VARIABLES
  camp,     \* the campaigns row
  rec,      \* rec[r]: status of r's campaign_recipients row
  out,      \* out[r]: messages put on the outbound queue for r
  due,      \* scheduledAt has passed
  channel,  \* the campaign's channel has not been deleted
  busy,     \* isProcessing, in memory
  age,      \* delays since lastProcessingStarted, up to LockTimeout + 1
  faults,
  w         \* w[p]: the local state of call p

vars == <<camp, rec, out, due, channel, busy, age, faults, w>>
env == <<due, channel>>
cron == <<busy, age>>

PCs == {"idle", "list", "listRunning", "retrieve", "channel", "find", "send",
        "update", "count", "hasPending", "recheck", "store", "finish"}

(* upd: the batch's updatedRecipients; their numbers are its counters.     *)
Call == [pc: PCs, cron: BOOLEAN, mc: CampRow, todo: SUBSET Recipients,
         upd: [Recipients -> {"none", "sent", "failed"}]]
Idle == [pc |-> "idle", cron |-> FALSE, mc |-> NewCampaign, todo |-> {},
         upd |-> [r \in Recipients |-> "none"]]

Init ==
  /\ camp \in {NewCampaign, [NewCampaign EXCEPT !.st = "scheduled"]}
  /\ rec = [r \in Recipients |-> "pending"]
  /\ out = [r \in Recipients |-> 0]
  /\ due = FALSE /\ channel = TRUE
  /\ busy = FALSE /\ age = 0 /\ faults = 0
  /\ w = [p \in Calls |-> Idle]

-----------------------------------------------------------------------------
At(p, label) == w[p].pc = label
Begin(p, k) == At(p, "idle") /\ k \in Jobs[p]
Put(p, r) == w' = [w EXCEPT ![p] = r]
Goto(p, label) == Put(p, [w[p] EXCEPT !.pc = label])
(* Nothing more to do for this campaign; what the call held is not used.   *)
Leave(p) == Put(p, [Idle EXCEPT !.pc = "finish", !.cron = TRUE])
(* The copy c, changed to status st, is about to be stored.                *)
ToStore(p, c, st) ==
  Put(p, [w[p] EXCEPT !.pc = "store", !.mc = [c EXCEPT !.st = st]])

Pending == {r \in Recipients : rec[r] = "pending"}
Counted(p, st) == Cardinality({r \in Recipients : w[p].upd[r] = st})
Older(a) == IF a > LockTimeout THEN a ELSE a + 1

-----------------------------------------------------------------------------
(* The cron route.                                                         *)

(* Mutant: the route does not look at isProcessing.                        *)
CronBeginAnyway(p) ==
  /\ Begin(p, "cron")
  /\ busy' = TRUE /\ age' = 0
  /\ Put(p, [Idle EXCEPT !.pc = "list", !.cron = TRUE])
  /\ UNCHANGED <<camp, rec, out, env, faults>>

CronBegin(p) ==
  /\ Begin(p, "cron")
  /\ ~busy \/ age > LockTimeout
  /\ busy' = TRUE /\ age' = 0
  /\ Put(p, [Idle EXCEPT !.pc = "list", !.cron = TRUE])
  /\ UNCHANGED <<camp, rec, out, env, faults>>

(* Mutant: scheduledAt is compared the wrong way round.                    *)
ListFuture(p) ==
  /\ At(p, "list")
  /\ IF camp.st = "scheduled" /\ ~due /\ Recipients # {}
     THEN ToStore(p, camp, "running")
     ELSE Goto(p, "listRunning")
  /\ UNCHANGED <<camp, rec, out, env, cron, faults>>

(* ProcessScheduledCampaigns: list, then start and store each copy.        *)
ListScheduled(p) ==
  /\ At(p, "list")
  /\ IF camp.st = "scheduled" /\ due /\ Recipients # {}
     THEN ToStore(p, camp, "running")
     ELSE Goto(p, "listRunning")
  /\ UNCHANGED <<camp, rec, out, env, cron, faults>>

ListRunning(p) ==
  /\ At(p, "listRunning")
  /\ IF camp.st = "running" THEN Goto(p, "retrieve") ELSE Leave(p)
  /\ UNCHANGED <<camp, rec, out, env, cron, faults>>

Finish(p) ==
  /\ At(p, "finish")
  /\ busy' = FALSE /\ Put(p, Idle)
  /\ UNCHANGED <<camp, rec, out, env, age, faults>>

-----------------------------------------------------------------------------
(* ExecuteCampaignBatch.                                                   *)

Retrieve(p) ==
  /\ At(p, "retrieve")
  /\ IF camp.st = "running"
     THEN Put(p, [w[p] EXCEPT !.pc = "channel", !.mc = camp])
     ELSE Leave(p)
  /\ UNCHANGED <<camp, rec, out, env, cron, faults>>

FindChannel(p) ==
  /\ At(p, "channel")
  /\ IF channel THEN Goto(p, "find") ELSE ToStore(p, w[p].mc, "failed")
  /\ UNCHANGED <<camp, rec, out, env, cron, faults>>

Batches ==
  {S \in SUBSET Pending :
     Cardinality(S) = IF Cardinality(Pending) < BatchSize
                      THEN Cardinality(Pending) ELSE BatchSize}

(* Mutant: an empty batch returns without completing the campaign.         *)
FindNone(p) ==
  /\ At(p, "find")
  /\ \/ Pending = {} /\ Leave(p)
     \/ /\ Pending # {}
        /\ \E S \in Batches :
             Put(p, [w[p] EXCEPT !.pc = "send", !.todo = S])
  /\ UNCHANGED <<camp, rec, out, env, cron, faults>>

FindPending(p) ==
  /\ At(p, "find")
  /\ \/ Pending = {} /\ ToStore(p, w[p].mc, "completed")
     \/ /\ Pending # {}
        /\ \E S \in Batches :
             Put(p, [w[p] EXCEPT !.pc = "send", !.todo = S])
  /\ UNCHANGED <<camp, rec, out, env, cron, faults>>

(* r's turn is over, with this entry as its last in updatedRecipients.     *)
Settle(p, r, st) ==
  Put(p, [w[p] EXCEPT !.todo = @ \ {r}, !.upd[r] = st,
            !.pc = IF w[p].todo = {r} THEN "update" ELSE "send"])

Published(r) == out' = [out EXCEPT ![r] = @ + 1]

(* Mutant: the result of sendMessageToQueue is not looked at.              *)
SendUnchecked(p, r) ==
  /\ At(p, "send") /\ r \in w[p].todo
  /\ Settle(p, r, "sent") /\ age' = Older(age)
  /\ Published(r) \/ UNCHANGED out
  /\ UNCHANGED <<camp, rec, env, busy, faults>>

(* Sent and then delayed; or recorded as failed, although the message may  *)
(* be on the queue (incrementSentCount threw, the write buffer was full).  *)
SendOne(p, r) ==
  /\ At(p, "send") /\ r \in w[p].todo
  /\ \/ Settle(p, r, "sent") /\ Published(r) /\ age' = Older(age)
     \/ /\ Settle(p, r, "failed") /\ UNCHANGED age
        /\ Published(r) \/ UNCHANGED out
  /\ UNCHANGED <<camp, rec, env, busy, faults>>

(* Mutant: only the recipients reached are stored.                         *)
UpdateSentOnly(p) ==
  /\ At(p, "update")
  /\ rec' = [r \in Recipients |->
               IF w[p].upd[r] = "sent" THEN "sent" ELSE rec[r]]
  /\ Goto(p, "count")
  /\ UNCHANGED <<camp, out, env, cron, faults>>

UpdateBatch(p) ==
  /\ At(p, "update")
  /\ rec' = [r \in Recipients |->
               IF w[p].upd[r] = "none" THEN rec[r] ELSE w[p].upd[r]]
  /\ Goto(p, "count")
  /\ UNCHANGED <<camp, out, env, cron, faults>>

IncrementCounters(p) ==
  /\ At(p, "count")
  /\ camp' = [camp EXCEPT !.sent = @ + Counted(p, "sent"),
                          !.failed = @ + Counted(p, "failed")]
  /\ Put(p, [w[p] EXCEPT !.pc = "hasPending", !.upd = Idle.upd])
  /\ UNCHANGED <<rec, out, env, cron, faults>>

(* Mutant: the campaign is completed after any batch.                      *)
HasPendingIgnored(p) ==
  /\ At(p, "hasPending")
  /\ Goto(p, "recheck")
  /\ UNCHANGED <<camp, rec, out, env, cron, faults>>

HasPending(p) ==
  /\ At(p, "hasPending")
  /\ IF Pending = {} THEN Goto(p, "recheck") ELSE Leave(p)
  /\ UNCHANGED <<camp, rec, out, env, cron, faults>>

(* complete() throws unless the campaign read again is running.            *)
Recheck(p) ==
  /\ At(p, "recheck")
  /\ IF camp.st = "running" THEN ToStore(p, camp, "completed")
                            ELSE Leave(p)
  /\ UNCHANGED <<camp, rec, out, env, cron, faults>>

-----------------------------------------------------------------------------
(* StartCampaign and CancelCampaign.                                       *)

StartLoad(p) ==
  /\ Begin(p, "start")
  /\ camp.st \in {"draft", "scheduled"} /\ Recipients # {}
  /\ ToStore(p, camp, "running")
  /\ UNCHANGED <<camp, rec, out, env, cron, faults>>

CancelLoad(p) ==
  /\ Begin(p, "cancel")
  /\ camp.st \in {"scheduled", "running"}
  /\ ToStore(p, camp, "cancelled")
  /\ UNCHANGED <<camp, rec, out, env, cron, faults>>

(* Mutant: update writes a status the schema does not have.                *)
StoreNothing(p) ==
  /\ At(p, "store")
  /\ camp' = [w[p].mc EXCEPT !.st = "finished"]
  /\ IF ~w[p].cron THEN Put(p, Idle) ELSE Leave(p)
  /\ UNCHANGED <<rec, out, env, cron, faults>>

(* CampaignsRepository.update: the whole copy overwrites the row.          *)
Store(p) ==
  /\ At(p, "store")
  /\ camp' = w[p].mc
  /\ \/ ~w[p].cron /\ Put(p, Idle)
     \/ w[p].cron /\ w[p].mc.st = "running" /\ Goto(p, "listRunning")
     \/ w[p].cron /\ w[p].mc.st # "running" /\ Leave(p)
  /\ UNCHANGED <<rec, out, env, cron, faults>>

-----------------------------------------------------------------------------
(* Failures and the environment.                                           *)

Fault == faults < MaxFaults /\ faults' = faults + 1

(* A query throws: the route's catch blocks end up releasing the lock.     *)
Throw(p) ==
  /\ w[p].pc \notin {"idle", "send", "finish"} /\ Fault
  /\ IF w[p].cron THEN Leave(p) ELSE Put(p, Idle)
  /\ UNCHANGED <<camp, rec, out, env, cron>>

(* The web process restarts: its calls and its memory are gone.            *)
Crash ==
  /\ Fault
  /\ w' = [p \in Calls |-> Idle] /\ busy' = FALSE /\ age' = 0
  /\ UNCHANGED <<camp, rec, out, env>>

BecomeDue ==
  /\ camp.st = "scheduled" /\ ~due
  /\ due' = TRUE
  /\ UNCHANGED <<camp, rec, out, channel, cron, faults, w>>

DeleteChannel ==
  /\ channel
  /\ channel' = FALSE
  /\ UNCHANGED <<camp, rec, out, due, cron, faults, w>>

-----------------------------------------------------------------------------
Continue(p) ==
  \/ ListScheduled(p) \/ ListRunning(p) \/ Finish(p) \/ Retrieve(p)
  \/ FindChannel(p) \/ FindPending(p) \/ UpdateBatch(p)
  \/ IncrementCounters(p) \/ HasPending(p) \/ Recheck(p) \/ Store(p)
  \/ \E r \in Recipients : SendOne(p, r)

Next ==
  \/ \E p \in Calls : \/ Continue(p) \/ CronBegin(p)
                      \/ StartLoad(p) \/ CancelLoad(p) \/ Throw(p)
  \/ Crash \/ BecomeDue \/ DeleteChannel

Spec == Init /\ [][Next]_vars

(* The event loop carries on a call that has begun, and the scheduler      *)
(* calls the route every minute.                                           *)
Fairness ==
  /\ \A p \in Calls : WF_vars(Continue(p))
  /\ WF_vars(\E p \in Calls : CronBegin(p))

FairSpec == Spec /\ Fairness

-----------------------------------------------------------------------------
(* Properties.                                                             *)

(* Every variable has its type.                                            *)
TypeOK ==
  /\ camp \in CampRow
  /\ rec \in [Recipients -> {"pending", "sent", "failed"}]
  /\ out \in [Recipients -> Nat]
  /\ due \in BOOLEAN /\ channel \in BOOLEAN /\ busy \in BOOLEAN
  /\ age \in 0..(LockTimeout + 1) /\ faults \in Nat
  /\ w \in [Calls -> Call]

(* A campaign is completed only when every recipient's outcome is stored,  *)
(* though two batches, a start and a cancel write whole stale rows.        *)
CompletedMeansAll == camp.st = "completed" => Pending = {}

(* A recipient recorded as sent has a message on the outbound queue: a     *)
(* refused publish must not count as sent.                                 *)
SentMeansPublished ==
  \A r \in Recipients : rec[r] = "sent" => out[r] >= 1

(* While a batch fits in the lock's timeout only a failure can make the    *)
(* next batch send to a recipient again, once for each failure.            *)
Resends == \A r \in Recipients : out[r] <= 1 + faults

(* The progress shown never runs ahead of the recipients settled, whatever *)
(* fails between the two updates or overwrites the counters.               *)
CountersNeverOvertake ==
  camp.sent + camp.failed <= Cardinality(Recipients \ Pending)

(* The campaign keeps Broadcast's promise: each recipient's outcome is      *)
(* recorded once, in a batch, and nothing is sent after it, though calls   *)
(* overlap, die half-way through a batch and overwrite the row.            *)
Promise == INSTANCE Broadcast WITH outcome <- rec,
                                   completed <- camp.st = "completed"
SettledOnce == Promise!Spec

(* A running campaign ends: the next cron call takes up what a failed one  *)
(* left, including a campaign whose last batch was not followed by         *)
(* complete().                                                             *)
CampaignEnds == camp.st = "running" ~> camp.st # "running"

(* A campaign that has recipients starts, or is cancelled, after its time. *)
ScheduledStarts ==
  camp.st = "scheduled" /\ due /\ Recipients # {} ~> camp.st # "scheduled"

(* Nobody gets a campaign's message twice while nothing fails: a cron call *)
(* is to skip while the "previous execution still running".                *)
SentOnce == \A r \in Recipients : out[r] <= 1

=============================================================================
