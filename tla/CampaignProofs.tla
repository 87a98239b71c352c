--------------------------- MODULE CampaignProofs ---------------------------
(***************************************************************************)
(* Proofs about Campaign, for any number of recipients, calls and faults   *)
(* and any batch size:                                                     *)
(*   CampaignTypes        every variable keeps its type,                   *)
(*   CompletionIsHonest   a completed campaign has no pending recipient,   *)
(*   SentIsPublished      a recipient marked sent has a message,           *)
(*   OnceUnlessFailure    while a batch fits in the lock's timeout, only   *)
(*                        failures make a recipient get a second message,  *)
(*   CountersLag          and the counters never exceed the settled,       *)
(*   BroadcastKept        and the campaign implements Broadcast.           *)
(***************************************************************************)
EXTENDS Campaign, FiniteSetTheorems, TLAPS

Done(rc) == \A r \in Recipients : rc[r] # "pending"

(* What a call's copies say about the rows rc and the queue o.             *)
CallOK(x, rc, o) ==
  /\ x.pc = "recheck" \/ x.mc.st = "completed" => Done(rc)
  /\ \A r \in Recipients : x.upd[r] = "sent" => o[r] >= 1

Inv ==
  /\ TypeOK
  /\ camp.st = "completed" => Done(rec)
  /\ SentMeansPublished
  /\ \A p \in Calls : CallOK(w[p], rec, out)

(* What every step does to the stored data ...                             *)
DataStep ==
  /\ camp' \in CampRow
  /\ rec' \in [Recipients -> {"pending", "sent", "failed"}]
  /\ out' \in [Recipients -> Nat]
  /\ camp'.st = "completed" => Done(rec')
  /\ \A r \in Recipients :
       /\ rec'[r] = "pending" => rec[r] = "pending"
       /\ out'[r] >= out[r]
       /\ rec'[r] = "sent" => out'[r] >= 1

(* ... and to the rest.                                                    *)
FrameOK ==
  /\ due' \in BOOLEAN /\ channel' \in BOOLEAN /\ busy' \in BOOLEAN
  /\ age' \in 0..(LockTimeout + 1) /\ faults' \in Nat

-----------------------------------------------------------------------------
LEMMA IdleOK ==
  ASSUME NEW rc, NEW o PROVE Idle \in Call /\ CallOK(Idle, rc, o)
<1>1. NewCampaign \in CampRow
  BY DEF NewCampaign, CampRow, Status
<1>2. Idle \in Call
  BY <1>1 DEF Idle, Call, PCs
<1>3. CallOK(Idle, rc, o)
  BY DEF Idle, CallOK, NewCampaign
<1> QED
  BY <1>2, <1>3

LEMMA InitInv == Init => Inv
<1> SUFFICES ASSUME Init PROVE Inv
  OBVIOUS
<1>1. NewCampaign \in CampRow /\ [NewCampaign EXCEPT !.st = "scheduled"] \in CampRow
  BY DEF NewCampaign, CampRow, Status
<1>2. camp \in CampRow /\ camp.st # "completed"
  BY <1>1 DEF Init, NewCampaign
<1>3. w \in [Calls -> Call] /\ \A p \in Calls : CallOK(w[p], rec, out)
  BY IdleOK DEF Init
<1>4. 0 \in 0..(LockTimeout + 1)
  BY CampaignAssumption
<1>5. TypeOK /\ SentMeansPublished
  BY <1>2, <1>3, <1>4 DEF Init, TypeOK, SentMeansPublished
<1> QED
  BY <1>2, <1>3, <1>5 DEF Inv

LEMMA Here ==
  ASSUME Inv, NEW p \in Calls
  PROVE  /\ w[p] \in Call /\ CallOK(w[p], rec, out)
         /\ w[p].mc \in CampRow /\ camp \in CampRow
  BY DEF Inv, TypeOK, Call

(* A step that changes one call's state and keeps the data honest.         *)
LEMMA PutInv ==
  ASSUME Inv, NEW p \in Calls, NEW x \in Call, Put(p, x), DataStep, FrameOK,
         CallOK(x, rec', out')
  PROVE  Inv'
<1>1. w' = [w EXCEPT ![p] = x] /\ w \in [Calls -> Call]
  BY DEF Inv, TypeOK, Put
<1>2. TypeOK'
  BY <1>1 DEF TypeOK, DataStep, FrameOK
<1>3. ASSUME NEW q \in Calls PROVE CallOK(w'[q], rec', out')
  <2>1. CASE q = p
    BY <2>1, <1>1
  <2>2. CASE q # p
    <3>1. w'[q] = w[q] /\ CallOK(w[q], rec, out)
      BY <2>2, <1>1 DEF Inv
    <3>2. out \in [Recipients -> Nat] /\ out' \in [Recipients -> Nat]
      BY DEF Inv, TypeOK, DataStep
    <3> QED
      BY <3>1, <3>2 DEF CallOK, Done, DataStep
  <2> QED
    BY <2>1, <2>2
<1> QED
  BY <1>2, <1>3 DEF Inv, DataStep, SentMeansPublished

(* Steps that leave the rows and the queue alone.                          *)
LEMMA SameData ==
  ASSUME Inv, UNCHANGED <<camp, rec, out>> PROVE DataStep
  BY DEF Inv, TypeOK, DataStep, SentMeansPublished, Done

LEMMA SameFrame ==
  ASSUME Inv, UNCHANGED <<env, cron, faults>> PROVE FrameOK
  BY DEF Inv, TypeOK, FrameOK, env, cron

(* A call that only moves to another label, with the same copies.          *)
LEMMA GotoInv ==
  ASSUME Inv, NEW p \in Calls, NEW l \in PCs, Goto(p, l), DataStep, FrameOK,
         l = "recheck" => Done(rec')
  PROVE  Inv'
<1> DEFINE x == [w[p] EXCEPT !.pc = l]
<1>1. x \in Call /\ w[p] \in Call
  BY Here DEF Call
<1>2. CallOK(x, rec', out')
  BY <1>1, Here DEF CallOK, DataStep, Done, Call, Inv, TypeOK
<1>3. Put(p, x)
  BY DEF Goto
<1> QED
  BY <1>1, <1>2, <1>3, PutInv

LEMMA LeaveInv ==
  ASSUME Inv, NEW p \in Calls, Leave(p) \/ Put(p, Idle), DataStep, FrameOK
  PROVE  Inv'
<1> DEFINE x == [Idle EXCEPT !.pc = "finish", !.cron = TRUE]
<1>1. Idle \in Call /\ CallOK(Idle, rec', out')
  BY IdleOK
<1>2. x \in Call /\ CallOK(x, rec', out')
  BY <1>1 DEF Call, PCs, CallOK, Idle
<1> QED
  BY <1>1, <1>2, PutInv DEF Leave

LEMMA StatusOf ==
  ASSUME NEW c \in CampRow, NEW st \in Status
  PROVE  [c EXCEPT !.st = st] \in CampRow /\ [c EXCEPT !.st = st].st = st
  BY DEF CampRow

LEMMA ToStoreInv ==
  ASSUME Inv, NEW p \in Calls, NEW c \in CampRow, NEW st \in Status,
         ToStore(p, c, st), UNCHANGED <<camp, rec, out, env, cron, faults>>,
         st = "completed" => Done(rec)
  PROVE  Inv'
<1> DEFINE m == [c EXCEPT !.st = st]
<1> DEFINE x == [w[p] EXCEPT !.pc = "store", !.mc = m]
<1>1. m \in CampRow /\ m.st = st
  BY StatusOf
<1> HIDE DEF m
<1>2. x \in Call /\ w[p] \in Call
  BY <1>1, Here DEF Call, PCs
<1>3. x.pc = "store" /\ x.mc = m /\ x.upd = w[p].upd
  BY <1>2 DEF Call
<1>4. CallOK(x, rec', out')
  BY <1>1, <1>3, Here DEF CallOK, Done
<1>5. Put(p, x)
  BY DEF ToStore, m
<1> QED
  BY <1>2, <1>4, <1>5, PutInv, SameData, SameFrame

-----------------------------------------------------------------------------
(* One lemma per group of actions.                                         *)

LEMMA CronKept ==
  ASSUME Inv, NEW p \in Calls,
         CronBegin(p) \/ ListScheduled(p) \/ ListRunning(p) \/ Finish(p)
  PROVE  Inv'
<1>1. CASE CronBegin(p)
  <2> DEFINE x == [Idle EXCEPT !.pc = "list", !.cron = TRUE]
  <2>1. x \in Call /\ CallOK(x, rec', out')
    BY IdleOK DEF Call, PCs, CallOK, Idle
  <2>2. DataStep
    BY <1>1, SameData DEF CronBegin
  <2>3. FrameOK
    BY <1>1, CampaignAssumption DEF CronBegin, FrameOK, Inv, TypeOK, env
  <2> QED
    BY <1>1, <2>1, <2>2, <2>3, PutInv DEF CronBegin
<1>2. CASE ListScheduled(p)
  <2>1. DataStep /\ FrameOK
    BY <1>2, SameData, SameFrame DEF ListScheduled
  <2> QED
    BY <1>2, <2>1, ToStoreInv, GotoInv, Here DEF ListScheduled, PCs, Status
<1>3. CASE ListRunning(p)
  <2>1. DataStep /\ FrameOK
    BY <1>3, SameData, SameFrame DEF ListRunning
  <2> QED
    BY <1>3, <2>1, LeaveInv, GotoInv DEF ListRunning, PCs
<1>4. CASE Finish(p)
  <2>1. DataStep
    BY <1>4, SameData DEF Finish
  <2>2. FrameOK
    BY <1>4 DEF Finish, FrameOK, Inv, TypeOK, env
  <2> QED
    BY <1>4, <2>1, <2>2, LeaveInv DEF Finish
<1> QED
  BY <1>1, <1>2, <1>3, <1>4

LEMMA FindKept ==
  ASSUME Inv, NEW p \in Calls,
         Retrieve(p) \/ FindChannel(p) \/ FindPending(p)
  PROVE  Inv'
<1>1. DataStep /\ FrameOK
  BY SameData, SameFrame DEF Retrieve, FindChannel, FindPending
<1>2. CASE Retrieve(p)
  <2>1. CASE camp.st = "running"
    <3> DEFINE x == [w[p] EXCEPT !.pc = "channel", !.mc = camp]
    <3>1. x \in Call /\ w[p] \in Call
      BY Here DEF Call, PCs
    <3>2. x.pc = "channel" /\ x.mc = camp /\ x.upd = w[p].upd
      BY <3>1 DEF Call
    <3>3. CallOK(x, rec', out')
      BY <2>1, <3>2, <1>2, Here DEF CallOK, Retrieve
    <3> QED
      BY <1>1, <1>2, <2>1, <3>1, <3>3, PutInv DEF Retrieve
  <2> QED
    BY <1>1, <1>2, <2>1, LeaveInv DEF Retrieve
<1>3. CASE FindChannel(p)
  BY <1>1, <1>3, GotoInv, ToStoreInv, Here DEF FindChannel, PCs, Status
<1>4. CASE FindPending(p)
  <2>1. CASE Pending = {} /\ ToStore(p, w[p].mc, "completed")
    <3>1. Done(rec)
      BY <2>1 DEF Pending, Done
    <3> QED
      BY <1>4, <2>1, <3>1, ToStoreInv, Here DEF FindPending, Status
  <2>2. ASSUME NEW S \in Batches,
               Put(p, [w[p] EXCEPT !.pc = "send", !.todo = S])
        PROVE  Inv'
    <3> DEFINE x == [w[p] EXCEPT !.pc = "send", !.todo = S]
    <3>1. S \subseteq Recipients
      BY DEF Batches, Pending
    <3>2. x \in Call /\ w[p] \in Call
      BY <3>1, Here DEF Call, PCs
    <3>3. x.pc = "send" /\ x.mc = w[p].mc /\ x.upd = w[p].upd
      BY <3>2 DEF Call
    <3>4. CallOK(x, rec', out')
      BY <3>3, <1>4, Here DEF CallOK, FindPending, Done
    <3> QED
      BY <1>1, <2>2, <3>2, <3>4, PutInv
  <2> QED
    BY <1>4, <2>1, <2>2 DEF FindPending
<1> QED
  BY <1>2, <1>3, <1>4

LEMMA SendKept ==
  ASSUME Inv, NEW p \in Calls, NEW r \in Recipients, SendOne(p, r)
  PROVE  Inv'
<1> DEFINE X(st) == [w[p] EXCEPT !.todo = @ \ {r}, !.upd[r] = st,
                       !.pc = IF w[p].todo = {r} THEN "update" ELSE "send"]
<1>1. w[p] \in Call /\ CallOK(w[p], rec, out) /\ out \in [Recipients -> Nat]
  BY Here DEF Inv, TypeOK
<1>2. ASSUME NEW st \in {"sent", "failed"}
      PROVE  /\ X(st) \in Call /\ X(st).mc = w[p].mc /\ X(st).pc # "recheck"
             /\ X(st).upd = [w[p].upd EXCEPT ![r] = st]
  BY <1>1 DEF Call, PCs
<1>3. /\ out' \in [Recipients -> Nat]
      /\ \A s \in Recipients : out'[s] >= out[s]
      /\ UNCHANGED <<camp, rec, env, busy, faults>>
  BY <1>1 DEF SendOne, Published
<1>4. DataStep
  BY <1>1, <1>3 DEF DataStep, Inv, TypeOK, SentMeansPublished, Done
<1>5. FrameOK
  BY <1>3, CampaignAssumption DEF SendOne, FrameOK, Older, env, Inv, TypeOK
<1>6. CASE Settle(p, r, "sent") /\ Published(r)
  <2>1. out'[r] >= 1
    BY <1>1, <1>6 DEF Published
  <2> DEFINE x == X("sent")
  <2>2. x \in Call /\ x.mc = w[p].mc /\ x.pc # "recheck"
        /\ x.upd = [w[p].upd EXCEPT ![r] = "sent"]
    BY <1>2
  <2>3. Put(p, x)
    BY <1>6 DEF Settle
  <2> HIDE DEF x
  <2>4. CallOK(x, rec', out')
    BY <1>1, <1>3, <2>1, <2>2 DEF CallOK, Done, Call
  <2> QED
    BY <1>4, <1>5, <2>2, <2>3, <2>4, PutInv
<1>7. CASE Settle(p, r, "failed")
  <2> DEFINE x == X("failed")
  <2>1. x \in Call /\ x.mc = w[p].mc /\ x.pc # "recheck"
        /\ x.upd = [w[p].upd EXCEPT ![r] = "failed"]
    BY <1>2
  <2>2. Put(p, x)
    BY <1>7 DEF Settle
  <2> HIDE DEF x
  <2>3. CallOK(x, rec', out')
    BY <1>1, <1>3, <2>1 DEF CallOK, Done, Call
  <2> QED
    BY <1>4, <1>5, <2>1, <2>2, <2>3, PutInv
<1> QED
  BY <1>6, <1>7 DEF SendOne

LEMMA UpdateKept ==
  ASSUME Inv, NEW p \in Calls, UpdateBatch(p)
  PROVE  Inv'
<1>1. w[p] \in Call /\ CallOK(w[p], rec, out)
  BY Here
<1>2. DataStep
  BY <1>1 DEF UpdateBatch, DataStep, Inv, TypeOK, SentMeansPublished, Done,
              CallOK, Call
<1>3. FrameOK
  BY SameFrame DEF UpdateBatch
<1> QED
  BY <1>2, <1>3, GotoInv DEF UpdateBatch, PCs

LEMMA AddCounters ==
  ASSUME NEW c \in CampRow, NEW a \in Nat, NEW b \in Nat
  PROVE  /\ [c EXCEPT !.sent = c.sent + a, !.failed = c.failed + b] \in CampRow
         /\ [c EXCEPT !.sent = c.sent + a, !.failed = c.failed + b].st = c.st
<1>1. c.sent + a \in Nat /\ c.failed + b \in Nat
  BY DEF CampRow
<1> QED
  BY <1>1 DEF CampRow

LEMMA CountKept ==
  ASSUME Inv, NEW p \in Calls, IncrementCounters(p)
  PROVE  Inv'
<1> DEFINE x == [w[p] EXCEPT !.pc = "hasPending", !.upd = Idle.upd]
<1>1. w[p] \in Call /\ CallOK(w[p], rec, out) /\ camp \in CampRow
  BY Here
<1>2. ASSUME NEW st PROVE Counted(p, st) \in Nat
  <2>1. {r \in Recipients : w[p].upd[r] = st} \in SUBSET Recipients
    OBVIOUS
  <2>2. IsFiniteSet({r \in Recipients : w[p].upd[r] = st})
    BY <2>1, FS_Subset, CampaignAssumption
  <2> QED
    BY <2>2, FS_CardinalityType DEF Counted
<1> DEFINE a == Counted(p, "sent")
<1> DEFINE b == Counted(p, "failed")
<1>8. a \in Nat /\ b \in Nat
  BY <1>2
<1>9. camp' = [camp EXCEPT !.sent = camp.sent + a, !.failed = camp.failed + b]
  BY DEF IncrementCounters
<1> HIDE DEF a, b
<1>3. camp' \in CampRow /\ camp'.st = camp.st
  BY <1>1, <1>8, <1>9, AddCounters
<1>4. DataStep
  BY <1>3 DEF IncrementCounters, DataStep, Inv, TypeOK, SentMeansPublished, Done
<1>5. Idle.upd = [r \in Recipients |-> "none"]
  BY DEF Idle
<1>10. x = [w[p] EXCEPT !.pc = "hasPending",
                       !.upd = [r \in Recipients |-> "none"]]
  BY <1>5
<1> HIDE DEF x
<1>6. /\ x \in Call /\ x.pc = "hasPending" /\ x.mc = w[p].mc
      /\ \A r \in Recipients : x.upd[r] = "none"
  BY <1>1, <1>10 DEF Call, PCs
<1>7. CallOK(x, rec', out')
  BY <1>1, <1>6 DEF CallOK, IncrementCounters
<1> QED
  BY <1>4, <1>6, <1>7, SameFrame, PutInv DEF IncrementCounters, x

LEMMA CompleteKept ==
  ASSUME Inv, NEW p \in Calls, HasPending(p) \/ Recheck(p)
  PROVE  Inv'
<1>1. DataStep /\ FrameOK
  BY SameData, SameFrame DEF HasPending, Recheck
<1>2. CASE HasPending(p)
  <2>1. Pending = {} => Done(rec')
    BY <1>2 DEF Pending, Done, HasPending
  <2> QED
    BY <1>1, <1>2, <2>1, GotoInv, LeaveInv DEF HasPending, PCs
<1>3. CASE Recheck(p)
  <2>1. Done(rec)
    BY <1>3, Here DEF Recheck, At, CallOK
  <2> QED
    BY <1>1, <1>3, <2>1, ToStoreInv, LeaveInv, Here DEF Recheck, Status
<1> QED
  BY <1>2, <1>3

LEMMA StoreKept ==
  ASSUME Inv, NEW p \in Calls, Store(p)
  PROVE  Inv'
<1>1. w[p] \in Call /\ CallOK(w[p], rec, out) /\ w[p].mc \in CampRow
  BY Here
<1>2. DataStep
  BY <1>1 DEF Store, DataStep, Inv, TypeOK, SentMeansPublished, Done, CallOK
<1>3. FrameOK
  BY SameFrame DEF Store
<1> QED
  BY <1>2, <1>3, GotoInv, LeaveInv DEF Store, PCs

LEMMA UserKept ==
  ASSUME Inv, NEW p \in Calls, StartLoad(p) \/ CancelLoad(p)
  PROVE  Inv'
  BY ToStoreInv, Here DEF StartLoad, CancelLoad, Status

LEMMA ThrowKept ==
  ASSUME Inv, NEW p \in Calls, Throw(p)
  PROVE  Inv'
<1>1. DataStep
  BY SameData DEF Throw
<1>2. faults' \in Nat
  BY CampaignAssumption DEF Throw, Fault, Inv, TypeOK
<1>3. FrameOK
  BY <1>2 DEF Throw, FrameOK, Inv, TypeOK, env, cron
<1> QED
  BY <1>1, <1>3, LeaveInv DEF Throw

LEMMA EnvironmentKept ==
  ASSUME Inv, Crash \/ BecomeDue \/ DeleteChannel \/ UNCHANGED vars
  PROVE  Inv'
<1>1. DataStep
  BY SameData DEF Crash, BecomeDue, DeleteChannel, vars
<1>2. FrameOK
  <2>1. CASE Crash
    <3>1. faults' \in Nat /\ age' \in 0..(LockTimeout + 1)
      BY <2>1, CampaignAssumption DEF Crash, Fault, Inv, TypeOK
    <3> QED
      BY <2>1, <3>1 DEF Crash, FrameOK, Inv, TypeOK, env
  <2>2. CASE BecomeDue \/ DeleteChannel \/ UNCHANGED vars
    BY <2>2 DEF BecomeDue, DeleteChannel, vars, FrameOK, Inv, TypeOK, cron, env
  <2> QED
    BY <2>1, <2>2
<1>3. w' \in [Calls -> Call] /\ \A p \in Calls : CallOK(w'[p], rec', out')
  BY IdleOK DEF Crash, BecomeDue, DeleteChannel, vars, Inv, TypeOK, CallOK, Done
<1> QED
  BY <1>1, <1>2, <1>3 DEF Inv, TypeOK, DataStep, FrameOK, SentMeansPublished

LEMMA NextInv == Inv /\ [Next]_vars => Inv'
<1> SUFFICES ASSUME Inv, [Next]_vars PROVE Inv'
  OBVIOUS
<1>1. ASSUME NEW p \in Calls, Continue(p) PROVE Inv'
  BY <1>1, CronKept, FindKept, SendKept, UpdateKept, CountKept, CompleteKept,
     StoreKept DEF Continue
<1>2. ASSUME NEW p \in Calls,
             CronBegin(p) \/ StartLoad(p) \/ CancelLoad(p) \/ Throw(p)
      PROVE  Inv'
  BY <1>2, CronKept, UserKept, ThrowKept
<1> QED
  BY <1>1, <1>2, EnvironmentKept DEF Next

LEMMA InvHolds == Spec => []Inv
  BY InitInv, NextInv, PTL DEF Spec

(* The rows and every call's copies keep their types, whatever the calls   *)
(* interleave and wherever they fail.                                      *)
THEOREM CampaignTypes == Spec => []TypeOK
<1>1. Inv => TypeOK
  BY DEF Inv
<1> QED
  BY InvHolds, <1>1, PTL

(* complete() is only ever stored after a look that found nobody pending,  *)
(* and nobody becomes pending again.                                       *)
THEOREM CompletionIsHonest == Spec => []CompletedMeansAll
<1>1. Inv => CompletedMeansAll
  BY DEF Inv, CompletedMeansAll, Done, Pending
<1> QED
  BY InvHolds, <1>1, PTL

(* No interleaving and no failure records a recipient as sent without a    *)
(* message on the outbound queue.                                          *)
THEOREM SentIsPublished == Spec => []SentMeansPublished
<1>1. Inv => SentMeansPublished
  BY DEF Inv
<1> QED
  BY InvHolds, <1>1, PTL

-----------------------------------------------------------------------------
(* The cron lock.  A cron call holds it from its first step to its last as *)
(* long as the delays of its batch fit in the timeout: age grows by one    *)
(* with each recipient that leaves todo.                                   *)

BeforeBatch(x) ==
  \/ x.pc \in {"list", "listRunning", "retrieve", "channel", "find"}
  \/ x.pc = "store" /\ x.mc.st = "running"

LockOK(x, b, a, rc) ==
  /\ x.pc \notin {"idle", "store"} => x.cron
  /\ x.pc = "idle" => ~x.cron
  /\ x.pc # "send" => x.todo = {}
  /\ x.cron => b /\ a + Cardinality(x.todo) <= BatchSize
  /\ x.cron /\ BeforeBatch(x)
       => a = 0 /\ \A r \in Recipients : x.upd[r] = "none"
  /\ \A r \in x.todo : x.upd[r] = "none" /\ rc[r] = "pending"

Alone == \A p, q \in Calls : w[p].cron /\ w[q].cron => p = q

(* r has an entry in the batch that is being sent or stored.               *)
Reached(r) ==
  \E p \in Calls : w[p].pc \in {"send", "update"} /\ w[p].upd[r] # "none"

OnceOK ==
  \A r \in Recipients :
    \/ out[r] <= faults
    \/ out[r] <= 1 + faults /\ (rec[r] # "pending" \/ Reached(r))

LockInv ==
  /\ Alone
  /\ \A p \in Calls : LockOK(w[p], busy, age, rec)
  /\ OnceOK

LEMMA LockHere ==
  ASSUME Inv, LockInv, NEW p \in Calls
  PROVE  /\ w \in [Calls -> Call] /\ w[p] \in Call /\ w[p].mc \in CampRow
         /\ LockOK(w[p], busy, age, rec)
         /\ Cardinality(w[p].todo) \in Nat
         /\ age \in Nat /\ faults \in Nat /\ camp \in CampRow
         /\ rec \in [Recipients -> {"pending", "sent", "failed"}]
         /\ out \in [Recipients -> Nat]
<1>1. w \in [Calls -> Call] /\ w[p] \in Call
  BY DEF Inv, TypeOK
<1>2. w[p].todo \in SUBSET Recipients /\ w[p].mc \in CampRow
  BY <1>1 DEF Call
<1>3. Cardinality(w[p].todo) \in Nat
  BY <1>2, FS_Subset, FS_CardinalityType, CampaignAssumption
<1>4. age \in Nat
  BY CampaignAssumption DEF Inv, TypeOK
<1> QED
  BY <1>1, <1>2, <1>3, <1>4 DEF Inv, TypeOK, LockInv

LEMMA NoCard == Cardinality({}) = 0
  BY FS_EmptySet

(* The other calls when no other cron call is under way.                   *)
LEMMA ActorLock ==
  ASSUME Inv, LockInv, NEW p \in Calls, NEW x \in Call, Put(p, x),
         \A q \in Calls \ {p} : ~w[q].cron, LockOK(x, busy', age', rec')
  PROVE  Alone' /\ \A q \in Calls : LockOK(w'[q], busy', age', rec')
<1>1. w' = [w EXCEPT ![p] = x] /\ w \in [Calls -> Call]
  BY LockHere DEF Put
<1>2. \A q \in Calls \ {p} : w'[q] = w[q] /\ ~w'[q].cron
  BY <1>1
<1>3. ASSUME NEW q \in Calls \ {p} PROVE LockOK(w'[q], busy', age', rec')
  <2>1. LockOK(w[q], busy, age, rec) /\ ~w[q].cron /\ w'[q] = w[q]
    BY <1>2, LockHere
  <2> QED
    BY <2>1 DEF LockOK
<1>4. w'[p] = x
  BY <1>1
<1> QED
  BY <1>2, <1>3, <1>4 DEF Alone

(* A call that no batch entry depends on.                                  *)
LEMMA OnceSame ==
  ASSUME Inv, LockInv, NEW p \in Calls, NEW x \in Call, Put(p, x),
         w[p].pc \notin {"send", "update"}, UNCHANGED <<rec, out, faults>>
  PROVE  OnceOK'
<1>1. w' = [w EXCEPT ![p] = x] /\ w \in [Calls -> Call]
  BY LockHere DEF Put
<1>2. ASSUME NEW r \in Recipients, Reached(r) PROVE Reached(r)'
  <2>1. PICK q \in Calls : w[q].pc \in {"send", "update"} /\ w[q].upd[r] # "none"
    BY <1>2 DEF Reached
  <2>2. w'[q] = w[q]
    BY <2>1, <1>1
  <2> QED
    BY <2>1, <2>2 DEF Reached
<1> QED
  BY <1>2 DEF LockInv, OnceOK

LEMMA CronLock ==
  ASSUME Inv, LockInv, NEW p \in Calls, NEW x \in Call, Put(p, x),
         w[p].cron, w[p].pc \notin {"send", "update"},
         UNCHANGED <<rec, out, faults>>, LockOK(x, busy', age', rec')
  PROVE  LockInv'
<1>1. \A q \in Calls \ {p} : ~w[q].cron
  BY DEF LockInv, Alone
<1> QED
  BY <1>1, ActorLock, OnceSame DEF LockInv

LEMMA GotoLock ==
  ASSUME Inv, LockInv, NEW p \in Calls, NEW l \in PCs, Goto(p, l),
         w[p].cron, w[p].pc \notin {"send", "update"},
         l \notin {"send", "idle", "store"},
         l \in {"list", "listRunning", "retrieve", "channel", "find"}
           => BeforeBatch(w[p]),
         UNCHANGED <<rec, out, cron, faults>>
  PROVE  LockInv'
<1> DEFINE x == [w[p] EXCEPT !.pc = l]
<1>1. w[p] \in Call /\ LockOK(w[p], busy, age, rec)
  BY LockHere
<1>2. /\ x \in Call /\ x.pc = l /\ x.cron = w[p].cron /\ x.todo = w[p].todo
      /\ x.upd = w[p].upd
  BY <1>1 DEF Call
<1>3. Put(p, x)
  BY DEF Goto
<1> HIDE DEF x
<1>4. LockOK(x, busy', age', rec')
  BY <1>1, <1>2 DEF LockOK, BeforeBatch, cron
<1> QED
  BY <1>2, <1>3, <1>4, CronLock

LEMMA LeaveLock ==
  ASSUME Inv, LockInv, NEW p \in Calls, Leave(p), w[p].cron,
         w[p].pc \notin {"send", "update"}, UNCHANGED <<rec, out, cron, faults>>
  PROVE  LockInv'
<1> DEFINE x == [Idle EXCEPT !.pc = "finish", !.cron = TRUE]
<1>1. x \in Call /\ x.pc = "finish" /\ x.cron /\ x.todo = {}
  BY IdleOK DEF Call, PCs, Idle
<1>2. busy /\ age <= BatchSize
  BY LockHere, CampaignAssumption DEF LockOK
<1>3. Put(p, x)
  BY DEF Leave
<1> HIDE DEF x
<1>4. LockOK(x, busy', age', rec')
  BY <1>1, <1>2, NoCard, LockHere DEF LockOK, BeforeBatch, cron
<1> QED
  BY <1>1, <1>3, <1>4, CronLock

LEMMA ToStoreLock ==
  ASSUME Inv, LockInv, NEW p \in Calls, NEW c \in CampRow, NEW st \in Status,
         ToStore(p, c, st), w[p].pc \notin {"send", "update"},
         w[p].cron /\ st = "running" => BeforeBatch(w[p]),
         UNCHANGED <<rec, out, cron, faults>>
  PROVE  LockInv'
<1> DEFINE m == [c EXCEPT !.st = st]
<1> DEFINE x == [w[p] EXCEPT !.pc = "store", !.mc = m]
<1>1. m \in CampRow /\ m.st = st
  BY StatusOf
<1> HIDE DEF m
<1>2. w[p] \in Call /\ LockOK(w[p], busy, age, rec)
  BY LockHere
<1>3. /\ x \in Call /\ x.pc = "store" /\ x.cron = w[p].cron
      /\ x.todo = w[p].todo /\ x.upd = w[p].upd /\ x.mc = m
  BY <1>1, <1>2 DEF Call, PCs
<1>4. Put(p, x)
  BY DEF ToStore, m
<1> HIDE DEF x
<1>5. LockOK(x, busy', age', rec')
  BY <1>1, <1>2, <1>3 DEF LockOK, BeforeBatch, cron
<1>6. CASE w[p].cron
  BY <1>3, <1>4, <1>5, <1>6, CronLock
<1>7. CASE ~w[p].cron
  <2>1. OnceOK'
    BY <1>3, <1>4, OnceSame
  <2>2. w' = [w EXCEPT ![p] = x] /\ w \in [Calls -> Call]
    BY <1>4, LockHere DEF Put
  <2>3. ASSUME NEW q \in Calls
        PROVE  w'[q].cron = w[q].cron /\ LockOK(w'[q], busy', age', rec')
    BY <1>3, <1>5, <2>2 DEF LockInv, cron
  <2> QED
    BY <2>1, <2>3 DEF LockInv, Alone
<1> QED
  BY <1>6, <1>7

(* No cron call is under way when the route lets another one in.           *)
LEMMA BeginLock ==
  ASSUME Inv, LockInv, BatchSize <= LockTimeout, NEW p \in Calls, CronBegin(p)
  PROVE  LockInv'
<1> DEFINE x == [Idle EXCEPT !.pc = "list", !.cron = TRUE]
<1>1. /\ x \in Call /\ x.pc = "list" /\ x.cron /\ x.todo = {}
      /\ \A r \in Recipients : x.upd[r] = "none"
  BY IdleOK DEF Call, PCs, Idle
<1>2. ASSUME NEW q \in Calls, w[q].cron PROVE FALSE
  <2>1. busy /\ age <= BatchSize
    BY <1>2, LockHere, CampaignAssumption DEF LockOK
  <2>2. age > LockTimeout
    BY <2>1 DEF CronBegin
  <2>3. age \in Nat /\ BatchSize \in Nat /\ LockTimeout \in Nat
    BY LockHere, CampaignAssumption
  <2> QED
    BY <2>1, <2>2, <2>3
<1>3. Put(p, x) /\ w[p].pc = "idle" /\ UNCHANGED <<rec, out, faults>>
  BY DEF CronBegin, Begin, At
<1> HIDE DEF x
<1>4. LockOK(x, busy', age', rec')
  BY <1>1, NoCard, CampaignAssumption DEF LockOK, CronBegin
<1>5. OnceOK'
  BY <1>1, <1>3, OnceSame
<1> QED
  BY <1>1, <1>2, <1>3, <1>4, <1>5, ActorLock DEF LockInv

LEMMA FinishLock ==
  ASSUME Inv, LockInv, NEW p \in Calls, Finish(p)
  PROVE  LockInv'
<1>1. w[p].pc = "finish" /\ w[p].cron
  BY LockHere DEF Finish, At, LockOK
<1>2. /\ Idle \in Call /\ Idle.pc = "idle" /\ ~Idle.cron /\ Idle.todo = {}
  BY IdleOK DEF Idle
<1>3. LockOK(Idle, busy', age', rec')
  BY <1>2 DEF LockOK
<1>4. Put(p, Idle) /\ UNCHANGED <<rec, out, faults>>
  BY DEF Finish
<1> QED
  BY <1>1, <1>2, <1>3, <1>4, CronLock

(* The cron steps that neither send nor store a batch.                     *)
LEMMA MoveLock ==
  ASSUME Inv, LockInv, NEW p \in Calls,
         \/ ListScheduled(p) \/ ListRunning(p) \/ FindChannel(p)
         \/ HasPending(p) \/ Recheck(p)
  PROVE  LockInv'
<1>1. LockOK(w[p], busy, age, rec) /\ w[p].mc \in CampRow /\ camp \in CampRow
  BY LockHere
<1>2. CASE ListScheduled(p)
  <2>1. w[p].pc = "list" /\ w[p].cron /\ BeforeBatch(w[p])
    BY <1>1, <1>2 DEF ListScheduled, At, LockOK, BeforeBatch
  <2> QED
    BY <1>1, <1>2, <2>1, ToStoreLock, GotoLock DEF ListScheduled, Status, PCs
<1>3. CASE ListRunning(p)
  <2>1. w[p].pc = "listRunning" /\ w[p].cron /\ BeforeBatch(w[p])
    BY <1>1, <1>3 DEF ListRunning, At, LockOK, BeforeBatch
  <2> QED
    BY <1>3, <2>1, LeaveLock, GotoLock DEF ListRunning, PCs
<1>4. CASE FindChannel(p)
  <2>1. w[p].pc = "channel" /\ w[p].cron /\ BeforeBatch(w[p])
    BY <1>1, <1>4 DEF FindChannel, At, LockOK, BeforeBatch
  <2> QED
    BY <1>1, <1>4, <2>1, ToStoreLock, GotoLock DEF FindChannel, Status, PCs
<1>5. CASE HasPending(p)
  <2>1. w[p].pc = "hasPending" /\ w[p].cron
    BY <1>1, <1>5 DEF HasPending, At, LockOK
  <2> QED
    BY <1>5, <2>1, LeaveLock, GotoLock DEF HasPending, PCs
<1>6. CASE Recheck(p)
  <2>1. w[p].pc = "recheck" /\ w[p].cron
    BY <1>1, <1>6 DEF Recheck, At, LockOK
  <2> QED
    BY <1>1, <1>6, <2>1, LeaveLock, ToStoreLock DEF Recheck, Status
<1> QED
  BY <1>2, <1>3, <1>4, <1>5, <1>6

LEMMA RetrieveLock ==
  ASSUME Inv, LockInv, NEW p \in Calls, Retrieve(p)
  PROVE  LockInv'
<1>1. /\ LockOK(w[p], busy, age, rec) /\ w[p] \in Call /\ camp \in CampRow
      /\ w[p].pc = "retrieve"
  BY LockHere DEF Retrieve, At
<1>2. w[p].cron /\ BeforeBatch(w[p])
  BY <1>1 DEF LockOK, BeforeBatch
<1>3. CASE camp.st = "running"
  <2> DEFINE x == [w[p] EXCEPT !.pc = "channel", !.mc = camp]
  <2>1. /\ x \in Call /\ x.pc = "channel" /\ x.cron = w[p].cron
        /\ x.todo = w[p].todo /\ x.upd = w[p].upd
    BY <1>1 DEF Call, PCs
  <2>2. Put(p, x)
    BY <1>3 DEF Retrieve
  <2> HIDE DEF x
  <2>3. LockOK(x, busy', age', rec')
    BY <1>1, <1>2, <2>1 DEF LockOK, BeforeBatch, Retrieve, cron
  <2> QED
    BY <1>1, <1>2, <2>1, <2>2, <2>3, CronLock DEF Retrieve
<1> QED
  BY <1>1, <1>2, <1>3, LeaveLock DEF Retrieve

(* A batch has at most BatchSize recipients and starts with age zero.      *)
LEMMA FindLock ==
  ASSUME Inv, LockInv, NEW p \in Calls, FindPending(p)
  PROVE  LockInv'
<1>1. /\ LockOK(w[p], busy, age, rec) /\ w[p] \in Call /\ w[p].mc \in CampRow
      /\ w[p].pc = "find" /\ UNCHANGED <<rec, out, cron, faults>>
  BY LockHere DEF FindPending, At
<1>2. w[p].cron /\ BeforeBatch(w[p])
  BY <1>1 DEF LockOK, BeforeBatch
<1>3. CASE ToStore(p, w[p].mc, "completed")
  BY <1>1, <1>3, ToStoreLock DEF Status
<1>4. ASSUME NEW S \in Batches,
             Put(p, [w[p] EXCEPT !.pc = "send", !.todo = S])
      PROVE  LockInv'
  <2> DEFINE x == [w[p] EXCEPT !.pc = "send", !.todo = S]
  <2>1. S \subseteq Recipients /\ \A r \in S : rec[r] = "pending"
    BY DEF Batches, Pending
  <2>2. Cardinality(S) \in Nat /\ Cardinality(S) <= BatchSize
    <3>1. Pending \in SUBSET Recipients
      BY DEF Pending
    <3>2. Cardinality(Pending) \in Nat
      BY <3>1, FS_Subset, FS_CardinalityType, CampaignAssumption
    <3> QED
      BY <3>2, CampaignAssumption DEF Batches
  <2>3. /\ x \in Call /\ x.pc = "send" /\ x.cron = w[p].cron
        /\ x.todo = S /\ x.upd = w[p].upd
    BY <1>1, <2>1 DEF Call, PCs
  <2>4. Put(p, x)
    BY <1>4
  <2> HIDE DEF x
  <2>5. LockOK(x, busy', age', rec')
    BY <1>1, <1>2, <2>1, <2>2, <2>3, CampaignAssumption
       DEF LockOK, BeforeBatch, cron
  <2> QED
    BY <1>1, <1>2, <2>3, <2>4, <2>5, CronLock
<1> QED
  BY <1>3, <1>4 DEF FindPending

(* A recipient whose turn comes has had no message but those of failures.  *)
LEMMA SendLock ==
  ASSUME Inv, LockInv, BatchSize <= LockTimeout,
         NEW p \in Calls, NEW r \in Recipients, SendOne(p, r)
  PROVE  LockInv'
<1> DEFINE X(st) == [w[p] EXCEPT !.todo = @ \ {r}, !.upd[r] = st,
                       !.pc = IF w[p].todo = {r} THEN "update" ELSE "send"]
<1>1. /\ w[p] \in Call /\ LockOK(w[p], busy, age, rec)
      /\ w[p].pc = "send" /\ r \in w[p].todo
      /\ UNCHANGED <<camp, rec, busy, faults>>
  BY LockHere DEF SendOne, At
<1>2. w[p].cron /\ busy /\ w[p].upd[r] = "none" /\ rec[r] = "pending"
  BY <1>1 DEF LockOK
<1>3. \A q \in Calls \ {p} : ~w[q].cron /\ w[q].pc \in {"idle", "store"}
  BY <1>2 DEF LockInv, Alone, LockOK
<1>4. PICK st \in {"sent", "failed"} : Settle(p, r, st)
  BY DEF SendOne
<1> DEFINE x == X(st)
<1>5. Put(p, x)
  BY <1>4 DEF Settle
<1>6. /\ x \in Call /\ x.cron = w[p].cron /\ x.todo = w[p].todo \ {r}
      /\ x.upd = [w[p].upd EXCEPT ![r] = st]
      /\ x.pc = IF w[p].todo = {r} THEN "update" ELSE "send"
  BY <1>1 DEF Call, PCs
<1> HIDE DEF x
<1>7. /\ Cardinality(w[p].todo) \in Nat
      /\ Cardinality(x.todo) = Cardinality(w[p].todo) - 1
      /\ Cardinality(x.todo) \in Nat
  <2>1. w[p].todo \in SUBSET Recipients
    BY <1>1 DEF Call
  <2>2. IsFiniteSet(w[p].todo) /\ Cardinality(w[p].todo) \in Nat
    BY <2>1, FS_Subset, FS_CardinalityType, CampaignAssumption
  <2> DEFINE T == w[p].todo
  <2>4. x.todo = T \ {r} /\ r \in T /\ IsFiniteSet(T)
    BY <1>1, <1>6, <2>2
  <2> HIDE DEF T
  <2>5. IsFiniteSet(T \ {r}) /\ Cardinality(T \ {r}) = Cardinality(T) - 1
    BY <2>4, FS_RemoveElement
  <2>3. Cardinality(x.todo) = Cardinality(w[p].todo) - 1 /\ IsFiniteSet(x.todo)
    BY <2>4, <2>5 DEF T
  <2> QED
    BY <2>2, <2>3, FS_CardinalityType
<1>8. age' + Cardinality(x.todo) <= BatchSize
  <2>1. age \in Nat /\ age + Cardinality(w[p].todo) <= BatchSize
    BY <1>1, <1>2, LockHere DEF LockOK
  <2>2. age' = age \/ age' = age + 1
    <3>1. age' = age \/ age' = Older(age)
      BY DEF SendOne
    <3> QED
      BY <3>1 DEF Older
  <2> QED
    BY <1>7, <2>1, <2>2, CampaignAssumption
<1>9. LockOK(x, busy', age', rec')
  <2>1. x.pc \in {"send", "update"} /\ (x.pc # "send" => x.todo = {})
    BY <1>1, <1>6
  <2>2. \A s \in x.todo : x.upd[s] = "none" /\ rec'[s] = "pending"
    BY <1>1, <1>6 DEF LockOK, Call
  <2> QED
    BY <1>1, <1>2, <1>6, <1>8, <2>1, <2>2 DEF LockOK, BeforeBatch
<1>10. OnceOK'
  <2>1. w' = [w EXCEPT ![p] = x] /\ w \in [Calls -> Call]
    BY <1>5, LockHere DEF Put
  <2>2. /\ out' = out \/ out' = [out EXCEPT ![r] = @ + 1]
        /\ out \in [Recipients -> Nat] /\ faults \in Nat
    BY LockHere DEF SendOne, Published
  <2>3. ASSUME NEW s \in Recipients, s # r, Reached(s) PROVE Reached(s)'
    <3>1. PICK q \in Calls : w[q].pc \in {"send", "update"} /\ w[q].upd[s] # "none"
      BY <2>3 DEF Reached
    <3>2. q = p
      BY <1>3, <3>1
    <3>3. w'[p].pc \in {"send", "update"} /\ w'[p].upd[s] # "none"
      BY <1>1, <1>6, <2>1, <2>3, <3>1, <3>2 DEF Call
    <3> QED
      BY <3>3 DEF Reached
  <2>4. Reached(r)'
    <3>1. w'[p].pc \in {"send", "update"} /\ w'[p].upd[r] # "none"
      BY <1>1, <1>6, <2>1 DEF Call
    <3> QED
      BY <3>1 DEF Reached
  <2>5. out[r] <= faults
    <3>1. ~Reached(r)
      BY <1>2, <1>3 DEF Reached
    <3> QED
      BY <1>2, <3>1 DEF LockInv, OnceOK
  <2>6. ASSUME NEW s \in Recipients
        PROVE  \/ out'[s] <= faults'
               \/ out'[s] <= 1 + faults' /\ (rec'[s] # "pending" \/ Reached(s)')
    <3>1. CASE s = r
      BY <1>1, <2>2, <2>4, <2>5, <3>1
    <3>2. CASE s # r
      BY <1>1, <2>2, <2>3, <3>2 DEF LockInv, OnceOK
    <3> QED
      BY <3>1, <3>2
  <2> QED
    BY <2>6 DEF OnceOK
<1> QED
  BY <1>3, <1>5, <1>6, <1>9, <1>10, ActorLock DEF LockInv

(* Whoever has an entry in the batch is not pending once it is stored.     *)
LEMMA UpdateLock ==
  ASSUME Inv, LockInv, NEW p \in Calls, UpdateBatch(p)
  PROVE  LockInv'
<1> DEFINE x == [w[p] EXCEPT !.pc = "count"]
<1>1. /\ w[p] \in Call /\ LockOK(w[p], busy, age, rec) /\ w[p].pc = "update"
      /\ UNCHANGED <<out, cron, faults>>
  BY LockHere DEF UpdateBatch, At
<1>2. w[p].cron /\ w[p].todo = {}
  BY <1>1 DEF LockOK
<1>3. \A q \in Calls \ {p} : ~w[q].cron /\ w[q].pc \in {"idle", "store"}
  BY <1>2 DEF LockInv, Alone, LockOK
<1>4. Put(p, x)
  BY DEF UpdateBatch, Goto
<1>5. /\ x \in Call /\ x.pc = "count" /\ x.cron = w[p].cron /\ x.todo = w[p].todo
  BY <1>1 DEF Call, PCs
<1> HIDE DEF x
<1>6. LockOK(x, busy', age', rec')
  BY <1>1, <1>2, <1>5 DEF LockOK, BeforeBatch, cron
<1>7. OnceOK'
  <2>1. ASSUME NEW r \in Recipients, rec[r] # "pending" \/ Reached(r)
        PROVE  rec'[r] # "pending"
    <3>1. rec'[r] = IF w[p].upd[r] = "none" THEN rec[r] ELSE w[p].upd[r]
      BY DEF UpdateBatch
    <3>2. w[p].upd[r] \in {"none", "sent", "failed"}
      BY <1>1 DEF Call
    <3>3. Reached(r) => w[p].upd[r] # "none"
      BY <1>3 DEF Reached
    <3> QED
      BY <2>1, <3>1, <3>2, <3>3
  <2> QED
    BY <1>1, <2>1 DEF LockInv, OnceOK
<1> QED
  BY <1>3, <1>4, <1>5, <1>6, <1>7, ActorLock DEF LockInv

LEMMA CountLock ==
  ASSUME Inv, LockInv, NEW p \in Calls, IncrementCounters(p)
  PROVE  LockInv'
<1> DEFINE x == [w[p] EXCEPT !.pc = "hasPending", !.upd = Idle.upd]
<1>1. /\ w[p] \in Call /\ LockOK(w[p], busy, age, rec) /\ w[p].pc = "count"
      /\ UNCHANGED <<rec, out, cron, faults>>
  BY LockHere DEF IncrementCounters, At
<1>2. w[p].cron
  BY <1>1 DEF LockOK
<1>3. Idle.upd = [r \in Recipients |-> "none"]
  BY DEF Idle
<1>4. Put(p, x) /\ x = [w[p] EXCEPT !.pc = "hasPending",
                          !.upd = [r \in Recipients |-> "none"]]
  BY <1>3 DEF IncrementCounters
<1> HIDE DEF x
<1>5. /\ x \in Call /\ x.pc = "hasPending" /\ x.cron = w[p].cron
      /\ x.todo = w[p].todo
  BY <1>1, <1>4 DEF Call, PCs
<1>6. LockOK(x, busy', age', rec')
  BY <1>1, <1>2, <1>5 DEF LockOK, BeforeBatch, cron
<1> QED
  BY <1>1, <1>2, <1>4, <1>5, <1>6, CronLock

LEMMA StoreLock ==
  ASSUME Inv, LockInv, NEW p \in Calls, Store(p)
  PROVE  LockInv'
<1>1. /\ w[p] \in Call /\ LockOK(w[p], busy, age, rec) /\ w[p].pc = "store"
      /\ UNCHANGED <<rec, out, cron, faults>>
  BY LockHere DEF Store, At
<1>2. CASE w[p].cron
  <2>1. w[p].mc.st = "running" => BeforeBatch(w[p])
    BY <1>1 DEF BeforeBatch
  <2> QED
    BY <1>1, <1>2, <2>1, GotoLock, LeaveLock DEF Store, PCs
<1>3. CASE ~w[p].cron
  <2>1. /\ Idle \in Call /\ Idle.pc = "idle" /\ ~Idle.cron /\ Idle.todo = {}
    BY IdleOK DEF Idle
  <2>2. Put(p, Idle)
    BY <1>3 DEF Store
  <2>3. OnceOK'
    BY <1>1, <2>1, <2>2, OnceSame
  <2>4. w' = [w EXCEPT ![p] = Idle] /\ w \in [Calls -> Call]
    BY <2>2, LockHere DEF Put
  <2>5. ASSUME NEW q \in Calls
        PROVE  (w'[q].cron => w[q].cron) /\ LockOK(w'[q], busy', age', rec')
    <3>1. CASE q = p
      BY <2>1, <2>4, <3>1 DEF LockOK
    <3>2. CASE q # p
      BY <1>1, <2>4, <3>2 DEF LockInv, cron
    <3> QED
      BY <3>1, <3>2
  <2> QED
    BY <2>3, <2>5 DEF LockInv, Alone
<1> QED
  BY <1>2, <1>3

LEMMA UserLock ==
  ASSUME Inv, LockInv, NEW p \in Calls, StartLoad(p) \/ CancelLoad(p)
  PROVE  LockInv'
<1>1. w[p].pc = "idle" /\ ~w[p].cron /\ camp \in CampRow
  BY LockHere DEF StartLoad, CancelLoad, Begin, At, LockOK
<1> QED
  BY <1>1, ToStoreLock DEF StartLoad, CancelLoad, Status

(* A failure loses what its batch has reached, and counts for it.          *)
LEMMA FaultOnce ==
  ASSUME Inv, LockInv, faults' = faults + 1, out' = out
  PROVE  OnceOK'
<1>1. faults \in Nat /\ out \in [Recipients -> Nat]
  BY DEF Inv, TypeOK
<1>2. ASSUME NEW r \in Recipients PROVE out'[r] <= faults'
  BY <1>1 DEF LockInv, OnceOK
<1> QED
  BY <1>2 DEF OnceOK

LEMMA ThrowLock ==
  ASSUME Inv, LockInv, NEW p \in Calls, Throw(p)
  PROVE  LockInv'
<1>1. /\ w[p] \in Call /\ LockOK(w[p], busy, age, rec)
      /\ w[p].pc \notin {"idle", "send", "finish"}
      /\ UNCHANGED <<rec, out, cron>> /\ faults' = faults + 1
  BY LockHere DEF Throw, Fault
<1>2. OnceOK'
  BY <1>1, FaultOnce
<1>3. /\ Idle \in Call /\ Idle.pc = "idle" /\ ~Idle.cron /\ Idle.todo = {}
  BY IdleOK DEF Idle
<1>4. CASE w[p].cron
  <2> DEFINE x == [Idle EXCEPT !.pc = "finish", !.cron = TRUE]
  <2>1. \A q \in Calls \ {p} : ~w[q].cron
    BY <1>4 DEF LockInv, Alone
  <2>2. Put(p, x)
    BY <1>4 DEF Throw, Leave
  <2>3. x \in Call /\ x.pc = "finish" /\ x.cron /\ x.todo = {}
    BY IdleOK DEF Call, PCs, Idle
  <2> HIDE DEF x
  <2>4. LockOK(x, busy', age', rec')
    BY <1>1, <1>4, <2>3 DEF LockOK, BeforeBatch, cron
  <2> QED
    BY <1>2, <2>1, <2>2, <2>3, <2>4, ActorLock DEF LockInv
<1>5. CASE ~w[p].cron
  <2>1. w' = [w EXCEPT ![p] = Idle] /\ w \in [Calls -> Call]
    BY <1>5, LockHere DEF Put, Throw
  <2>2. ASSUME NEW q \in Calls
        PROVE  (w'[q].cron => w[q].cron) /\ LockOK(w'[q], busy', age', rec')
    <3>1. CASE q = p
      BY <1>3, <2>1, <3>1 DEF LockOK
    <3>2. CASE q # p
      BY <1>1, <2>1, <3>2 DEF LockInv, cron
    <3> QED
      BY <3>1, <3>2
  <2> QED
    BY <1>2, <2>2 DEF LockInv, Alone
<1> QED
  BY <1>4, <1>5

LEMMA CrashLock ==
  ASSUME Inv, LockInv, Crash
  PROVE  LockInv'
<1>1. OnceOK'
  BY FaultOnce DEF Crash, Fault
<1>2. /\ Idle.pc = "idle" /\ ~Idle.cron /\ Idle.todo = {}
  BY DEF Idle
<1>3. \A q \in Calls : ~w'[q].cron /\ LockOK(w'[q], busy', age', rec')
  BY <1>2 DEF Crash, LockOK
<1> QED
  BY <1>1, <1>3 DEF LockInv, Alone

LEMMA StillLock ==
  ASSUME Inv, LockInv, UNCHANGED <<rec, out, cron, faults, w>>
  PROVE  LockInv'
  BY DEF LockInv, Alone, OnceOK, Reached, cron

LEMMA InitLock == Init => LockInv
<1> SUFFICES ASSUME Init PROVE LockInv
  OBVIOUS
<1>1. /\ Idle.pc = "idle" /\ ~Idle.cron /\ Idle.todo = {}
  BY DEF Idle
<1>2. \A q \in Calls : ~w[q].cron /\ LockOK(w[q], busy, age, rec)
  BY <1>1 DEF Init, LockOK
<1>3. OnceOK
  BY DEF Init, OnceOK
<1> QED
  BY <1>2, <1>3 DEF LockInv, Alone

LEMMA NextLock ==
  ASSUME BatchSize <= LockTimeout
  PROVE  Inv /\ LockInv /\ [Next]_vars => LockInv'
<1> SUFFICES ASSUME Inv, LockInv, [Next]_vars PROVE LockInv'
  OBVIOUS
<1>1. ASSUME NEW p \in Calls, Continue(p) PROVE LockInv'
  <2>1. CASE \E r \in Recipients : SendOne(p, r)
    BY <2>1, SendLock
  <2>2. CASE Finish(p) \/ Retrieve(p) \/ FindPending(p) \/ UpdateBatch(p)
    BY <2>2, FinishLock, RetrieveLock, FindLock, UpdateLock
  <2>3. CASE IncrementCounters(p) \/ Store(p)
    BY <2>3, CountLock, StoreLock
  <2> QED
    BY <1>1, <2>1, <2>2, <2>3, MoveLock DEF Continue
<1>2. ASSUME NEW p \in Calls,
             CronBegin(p) \/ StartLoad(p) \/ CancelLoad(p) \/ Throw(p)
      PROVE  LockInv'
  <2>1. CASE CronBegin(p)
    BY <2>1, BeginLock
  <2> QED
    BY <1>2, <2>1, UserLock, ThrowLock
<1>3. CASE BecomeDue \/ DeleteChannel \/ UNCHANGED vars
  BY <1>3, StillLock DEF BecomeDue, DeleteChannel, vars, cron
<1>4. CASE Crash
  BY <1>4, CrashLock
<1> QED
  BY <1>1, <1>2, <1>3, <1>4 DEF Next

(* While a batch takes no longer than the lock's timeout, isProcessing     *)
(* keeps a second cron call out and no recipient gets more messages than   *)
(* one and one for each crash or thrown query.                             *)
THEOREM OnceUnlessFailure ==
  ASSUME BatchSize <= LockTimeout
  PROVE  Spec => []Resends
<1>1. Inv /\ LockInv => Resends
  BY DEF Inv, TypeOK, LockInv, OnceOK, Resends
<1>2. Inv /\ LockInv /\ [Next]_vars => LockInv'
  BY NextLock
<1> QED
  BY InitLock, InvHolds, <1>1, <1>2, PTL DEF Spec

-----------------------------------------------------------------------------
(* The counters.  What they add up to is bounded by the recipients settled *)
(* in a batch that has been counted; so is every copy a call may yet store *)
(* over the row, for that set only grows.                                  *)

(* Stored by the batch under way, which has not counted them yet.          *)
Uncounted ==
  {r \in Recipients :
     \E p \in Calls : w[p].pc = "count" /\ w[p].upd[r] # "none"}
Accounted == (Recipients \ Pending) \ Uncounted

Fits(c, S) == c.sent + c.failed <= Cardinality(S)

EntriesOK(x, rc) ==
  \A r \in Recipients : x.upd[r] # "none" =>
    /\ x.pc \in {"send", "update"} => rc[r] = "pending"
    /\ x.pc = "count" => rc[r] # "pending"

CountInv ==
  /\ Fits(camp, Accounted)
  /\ \A p \in Calls : Fits(w[p].mc, Accounted) /\ EntriesOK(w[p], rec)

LEMMA SmallerSet ==
  ASSUME NEW S \in SUBSET Recipients, NEW T \in SUBSET S
  PROVE  /\ IsFiniteSet(S) /\ IsFiniteSet(T)
         /\ Cardinality(S) \in Nat /\ Cardinality(T) \in Nat
         /\ Cardinality(T) <= Cardinality(S)
<1>1. IsFiniteSet(S)
  BY FS_Subset, CampaignAssumption
<1>2. IsFiniteSet(T) /\ Cardinality(T) <= Cardinality(S)
  BY <1>1, FS_Subset
<1> QED
  BY <1>1, <1>2, FS_CardinalityType

LEMMA DisjointSets ==
  ASSUME NEW S, IsFiniteSet(S), NEW T, IsFiniteSet(T), S \cap T = {}
  PROVE  /\ IsFiniteSet(S \cup T)
         /\ Cardinality(S \cup T) = Cardinality(S) + Cardinality(T)
<1>1. /\ IsFiniteSet(S \cup T)
      /\ Cardinality(S \cup T)
           = Cardinality(S) + Cardinality(T) - Cardinality(S \cap T)
  BY FS_Union
<1>2. Cardinality(S \cap T) = 0
  BY FS_EmptySet
<1>3. Cardinality(S) \in Nat /\ Cardinality(T) \in Nat
  BY FS_CardinalityType
<1> QED
  BY <1>1, <1>2, <1>3

LEMMA FitsMore ==
  ASSUME NEW c \in CampRow, NEW S \in SUBSET Recipients, NEW T \in SUBSET S,
         Fits(c, T)
  PROVE  Fits(c, S)
<1>1. c.sent \in Nat /\ c.failed \in Nat
  BY DEF CampRow
<1>2. /\ Cardinality(S) \in Nat /\ Cardinality(T) \in Nat
      /\ Cardinality(T) <= Cardinality(S)
  BY SmallerSet
<1> QED
  BY <1>1, <1>2 DEF Fits

LEMMA CountHere ==
  ASSUME Inv, LockInv, CountInv, NEW p \in Calls
  PROVE  /\ Fits(camp, Accounted) /\ Fits(w[p].mc, Accounted)
         /\ EntriesOK(w[p], rec)
         /\ Accounted \in SUBSET Recipients
  BY DEF CountInv, Accounted

(* Only one call has entries that are not accounted for.                   *)
LEMMA OnlyOne ==
  ASSUME Inv, LockInv, NEW p \in Calls, w[p].cron
  PROVE  /\ \A q \in Calls \ {p} : w[q].pc \in {"idle", "store"}
         /\ w[p].pc # "count" => Uncounted = {}
         /\ w[p].pc = "count"
              => Uncounted = {r \in Recipients : w[p].upd[r] # "none"}
<1>1. \A q \in Calls \ {p} : w[q].pc \in {"idle", "store"}
  BY DEF LockInv, Alone, LockOK
<1> QED
  BY <1>1 DEF Uncounted

(* What nobody is about to count can only grow.                            *)
LEMMA CountGrows ==
  ASSUME Inv, LockInv, CountInv, camp' \in CampRow,
         w' \in [Calls -> Call], \A p \in Calls : EntriesOK(w'[p], rec'),
         Accounted \subseteq Accounted', Fits(camp', Accounted),
         \A p \in Calls : Fits(w'[p].mc, Accounted)
  PROVE  CountInv'
<1>1. Accounted' \in SUBSET Recipients
  BY DEF Accounted
<1>2. ASSUME NEW p \in Calls PROVE Fits(w'[p].mc, Accounted')
  <2>1. w'[p].mc \in CampRow
    BY DEF Call
  <2> QED
    BY <1>1, <2>1, FitsMore
<1>3. Fits(camp', Accounted')
  BY <1>1, FitsMore
<1> QED
  BY <1>2, <1>3 DEF CountInv

(* A step of one call that neither stores nor counts a batch.              *)
LEMMA PutCount ==
  ASSUME Inv, LockInv, CountInv, NEW p \in Calls, NEW x \in Call, Put(p, x),
         rec' = rec, camp' \in CampRow, x.pc # "count",
         Fits(camp', Accounted), Fits(x.mc, Accounted), EntriesOK(x, rec)
  PROVE  CountInv'
<1>1. w' = [w EXCEPT ![p] = x] /\ w \in [Calls -> Call]
  BY LockHere DEF Put
<1>2. \A q \in Calls : w'[q] = x \/ w'[q] = w[q]
  BY <1>1
<1>3. \A q \in Calls : Fits(w'[q].mc, Accounted) /\ EntriesOK(w'[q], rec')
  BY <1>2 DEF CountInv
<1>4. Accounted \subseteq Accounted'
  <2>1. ASSUME NEW r \in Uncounted' PROVE r \in Uncounted
    <3>1. PICK q \in Calls : w'[q].pc = "count" /\ w'[q].upd[r] # "none"
      BY DEF Uncounted
    <3>2. w'[q] = w[q]
      BY <1>2, <3>1
    <3> QED
      BY <3>1, <3>2 DEF Uncounted
  <2>2. Pending' = Pending
    BY DEF Pending
  <2> QED
    BY <2>1, <2>2 DEF Accounted
<1>5. w' \in [Calls -> Call]
  BY <1>1
<1> QED
  BY <1>3, <1>4, <1>5, CountGrows

LEMMA GotoCount ==
  ASSUME Inv, LockInv, CountInv, NEW p \in Calls, NEW l \in PCs, Goto(p, l),
         rec' = rec, camp' \in CampRow, Fits(camp', Accounted),
         l \notin {"send", "update", "count"}
  PROVE  CountInv'
<1> DEFINE x == [w[p] EXCEPT !.pc = l]
<1>1. x \in Call /\ x.pc = l /\ x.mc = w[p].mc
  BY LockHere DEF Call
<1>2. Put(p, x)
  BY DEF Goto
<1> HIDE DEF x
<1>3. Fits(x.mc, Accounted) /\ EntriesOK(x, rec)
  BY <1>1, CountHere DEF EntriesOK
<1> QED
  BY <1>1, <1>2, <1>3, PutCount

LEMMA NothingCounted ==
  /\ Fits(Idle.mc, Accounted)
  /\ \A rc : EntriesOK(Idle, rc)
<1>1. Cardinality(Accounted) \in Nat
  BY SmallerSet DEF Accounted
<1> QED
  BY <1>1 DEF Fits, Idle, NewCampaign, EntriesOK

LEMMA LeaveCount ==
  ASSUME Inv, LockInv, CountInv, NEW p \in Calls, Leave(p) \/ Put(p, Idle),
         rec' = rec, camp' \in CampRow, Fits(camp', Accounted)
  PROVE  CountInv'
<1> DEFINE x == [Idle EXCEPT !.pc = "finish", !.cron = TRUE]
<1>1. /\ x \in Call /\ x.pc = "finish" /\ x.mc = Idle.mc /\ x.upd = Idle.upd
      /\ Idle \in Call /\ Idle.pc = "idle"
  BY IdleOK DEF Call, PCs, Idle
<1>2. Leave(p) => Put(p, x)
  BY DEF Leave
<1> HIDE DEF x
<1>3. EntriesOK(x, rec)
  BY <1>1 DEF EntriesOK
<1> QED
  BY <1>1, <1>2, <1>3, NothingCounted, PutCount

LEMMA ToStoreCount ==
  ASSUME Inv, LockInv, CountInv, NEW p \in Calls, NEW c \in CampRow,
         NEW st \in Status, ToStore(p, c, st), rec' = rec, camp' = camp,
         Fits(c, Accounted)
  PROVE  CountInv'
<1> DEFINE m == [c EXCEPT !.st = st]
<1> DEFINE x == [w[p] EXCEPT !.pc = "store", !.mc = m]
<1>1. m \in CampRow /\ m.sent = c.sent /\ m.failed = c.failed
  BY DEF CampRow
<1> HIDE DEF m
<1>2. x \in Call /\ x.pc = "store" /\ x.mc = m
  BY <1>1, LockHere DEF Call, PCs
<1>3. Put(p, x)
  BY DEF ToStore, m
<1> HIDE DEF x
<1>4. Fits(x.mc, Accounted) /\ EntriesOK(x, rec)
  BY <1>1, <1>2 DEF Fits, EntriesOK
<1> QED
  BY <1>2, <1>3, <1>4, PutCount, CountHere, LockHere

(* The steps that only move, or read the row again.                        *)
LEMMA MoveCount ==
  ASSUME Inv, LockInv, CountInv, NEW p \in Calls,
         \/ ListScheduled(p) \/ ListRunning(p) \/ Finish(p) \/ FindChannel(p)
         \/ HasPending(p) \/ Recheck(p) \/ StartLoad(p) \/ CancelLoad(p)
         \/ Throw(p) \/ Store(p)
  PROVE  CountInv'
<1>1. /\ camp \in CampRow /\ w[p].mc \in CampRow
      /\ Fits(camp, Accounted) /\ Fits(w[p].mc, Accounted)
  BY CountHere, LockHere
<1>2. CASE ListScheduled(p) \/ FindChannel(p)
  BY <1>1, <1>2, ToStoreCount, GotoCount
     DEF ListScheduled, FindChannel, Status, PCs
<1>3. CASE ListRunning(p) \/ HasPending(p) \/ Finish(p)
  BY <1>1, <1>3, LeaveCount, GotoCount DEF ListRunning, HasPending, Finish, PCs
<1>4. CASE Recheck(p) \/ StartLoad(p) \/ CancelLoad(p)
  BY <1>1, <1>4, LeaveCount, ToStoreCount
     DEF Recheck, StartLoad, CancelLoad, Status
<1>5. CASE Throw(p)
  BY <1>1, <1>5, LeaveCount DEF Throw
<1>6. CASE Store(p)
  BY <1>1, <1>6, LeaveCount, GotoCount DEF Store, PCs
<1> QED
  BY <1>2, <1>3, <1>4, <1>5, <1>6

LEMMA BeginCount ==
  ASSUME Inv, LockInv, CountInv, NEW p \in Calls, CronBegin(p)
  PROVE  CountInv'
<1> DEFINE x == [Idle EXCEPT !.pc = "list", !.cron = TRUE]
<1>1. /\ x \in Call /\ x.pc = "list" /\ x.mc = Idle.mc
      /\ \A r \in Recipients : x.upd[r] = "none"
  BY IdleOK DEF Call, PCs, Idle
<1>2. Put(p, x) /\ rec' = rec /\ camp' = camp
  BY DEF CronBegin
<1> HIDE DEF x
<1>3. EntriesOK(x, rec)
  BY <1>1 DEF EntriesOK
<1> QED
  BY <1>1, <1>2, <1>3, NothingCounted, CountHere, LockHere, PutCount

LEMMA ReadCount ==
  ASSUME Inv, LockInv, CountInv, NEW p \in Calls,
         Retrieve(p) \/ FindPending(p)
  PROVE  CountInv'
<1>1. /\ w[p] \in Call /\ w[p].mc \in CampRow /\ camp \in CampRow
      /\ Fits(camp, Accounted) /\ Fits(w[p].mc, Accounted)
      /\ rec' = rec /\ camp' = camp
  BY CountHere, LockHere DEF Retrieve, FindPending
<1>2. \A r \in Recipients : w[p].upd[r] = "none"
  BY LockHere DEF Retrieve, FindPending, At, LockOK, BeforeBatch
<1>3. CASE Retrieve(p)
  <2>1. CASE camp.st = "running"
    <3> DEFINE x == [w[p] EXCEPT !.pc = "channel", !.mc = camp]
    <3>1. /\ x \in Call /\ x.pc = "channel" /\ x.mc = camp
          /\ x.upd = w[p].upd
      BY <1>1 DEF Call, PCs
    <3>2. Put(p, x)
      BY <1>3, <2>1 DEF Retrieve
    <3> HIDE DEF x
    <3>3. EntriesOK(x, rec)
      BY <1>2, <3>1 DEF EntriesOK
    <3> QED
      BY <1>1, <3>1, <3>2, <3>3, PutCount
  <2> QED
    BY <1>1, <1>3, <2>1, LeaveCount DEF Retrieve
<1>4. CASE FindPending(p)
  <2>1. CASE ToStore(p, w[p].mc, "completed")
    BY <1>1, <2>1, ToStoreCount DEF Status
  <2>2. ASSUME NEW S \in Batches,
               Put(p, [w[p] EXCEPT !.pc = "send", !.todo = S])
        PROVE  CountInv'
    <3> DEFINE x == [w[p] EXCEPT !.pc = "send", !.todo = S]
    <3>1. S \subseteq Recipients
      BY DEF Batches, Pending
    <3>2. /\ x \in Call /\ x.pc = "send" /\ x.mc = w[p].mc
          /\ x.upd = w[p].upd
      BY <1>1, <3>1 DEF Call, PCs
    <3>3. Put(p, x)
      BY <2>2
    <3> HIDE DEF x
    <3>4. EntriesOK(x, rec)
      BY <1>2, <3>2 DEF EntriesOK
    <3> QED
      BY <1>1, <3>2, <3>3, <3>4, PutCount
  <2> QED
    BY <1>4, <2>1, <2>2 DEF FindPending
<1> QED
  BY <1>3, <1>4

(* Whoever is given an entry is pending until the batch is stored.         *)
LEMMA SendCount ==
  ASSUME Inv, LockInv, CountInv,
         NEW p \in Calls, NEW r \in Recipients, SendOne(p, r)
  PROVE  CountInv'
<1> DEFINE X(st) == [w[p] EXCEPT !.todo = @ \ {r}, !.upd[r] = st,
                       !.pc = IF w[p].todo = {r} THEN "update" ELSE "send"]
<1>1. /\ w[p] \in Call /\ camp \in CampRow
      /\ w[p].pc = "send" /\ rec[r] = "pending"
      /\ Fits(camp, Accounted) /\ Fits(w[p].mc, Accounted)
      /\ EntriesOK(w[p], rec) /\ rec' = rec /\ camp' = camp
  BY CountHere, LockHere DEF SendOne, At, LockOK
<1>2. PICK st \in {"sent", "failed"} : Settle(p, r, st)
  BY DEF SendOne
<1> DEFINE x == X(st)
<1>3. Put(p, x)
  BY <1>2 DEF Settle
<1>4. /\ x \in Call /\ x.mc = w[p].mc /\ x.pc \in {"send", "update"}
      /\ x.upd = [w[p].upd EXCEPT ![r] = st]
  BY <1>1 DEF Call, PCs
<1> HIDE DEF x
<1>5. EntriesOK(x, rec)
  BY <1>1, <1>4 DEF EntriesOK, Call
<1> QED
  BY <1>1, <1>3, <1>4, <1>5, PutCount

(* Storing a batch settles exactly the recipients it has yet to count.     *)
LEMMA UpdateCount ==
  ASSUME Inv, LockInv, CountInv, NEW p \in Calls, UpdateBatch(p)
  PROVE  CountInv'
<1> DEFINE x == [w[p] EXCEPT !.pc = "count"]
<1> DEFINE U == {r \in Recipients : w[p].upd[r] # "none"}
<1>1. /\ w[p] \in Call /\ w[p].pc = "update" /\ w[p].cron
      /\ EntriesOK(w[p], rec) /\ camp \in CampRow /\ camp' = camp
  BY CountHere, LockHere DEF UpdateBatch, At, LockOK
<1>2. /\ x \in Call /\ x.pc = "count" /\ x.mc = w[p].mc /\ x.upd = w[p].upd
  BY <1>1 DEF Call, PCs
<1>3. Put(p, x)
  BY DEF UpdateBatch, Goto
<1> HIDE DEF x
<1>4. w' = [w EXCEPT ![p] = x] /\ w \in [Calls -> Call]
  BY <1>3, LockHere DEF Put
<1>5. \A q \in Calls \ {p} : w'[q] = w[q] /\ w[q].pc \in {"idle", "store"}
  BY <1>1, <1>4, OnlyOne
<1>6. ASSUME NEW r \in Recipients
      PROVE  /\ rec'[r] = IF w[p].upd[r] = "none" THEN rec[r] ELSE w[p].upd[r]
             /\ w[p].upd[r] \in {"none", "sent", "failed"}
  BY <1>1 DEF UpdateBatch, Call
<1>7. \A q \in Calls : EntriesOK(w'[q], rec') /\ Fits(w'[q].mc, Accounted)
  <2>1. EntriesOK(x, rec')
    BY <1>2, <1>6 DEF EntriesOK
  <2>2. Fits(x.mc, Accounted)
    BY <1>2, CountHere
  <2>3. ASSUME NEW q \in Calls \ {p}
        PROVE  EntriesOK(w'[q], rec') /\ Fits(w'[q].mc, Accounted)
    BY <1>5, CountHere DEF EntriesOK
  <2> QED
    BY <1>4, <2>1, <2>2, <2>3
<1>8. Accounted \subseteq Accounted'
  <2>1. Uncounted' = U
    BY <1>2, <1>4, <1>5 DEF Uncounted
  <2>2. ASSUME NEW r \in Accounted PROVE r \in Accounted'
    <3>1. r \in Recipients /\ rec[r] # "pending"
      BY DEF Accounted, Pending
    <3>2. w[p].upd[r] = "none"
      BY <1>1, <3>1 DEF EntriesOK
    <3>3. rec'[r] # "pending" /\ r \notin U
      BY <1>6, <3>1, <3>2
    <3> QED
      BY <2>1, <3>1, <3>3 DEF Accounted, Pending
  <2> QED
    BY <2>2
<1>9. w' \in [Calls -> Call]
  BY <1>2, <1>4
<1> QED
  BY <1>1, <1>7, <1>8, <1>9, CountHere, CountGrows

(* Counting adds the entries and accounts for as many recipients.          *)
LEMMA IncrementCount ==
  ASSUME Inv, LockInv, CountInv, NEW p \in Calls, IncrementCounters(p)
  PROVE  CountInv'
<1> DEFINE x == [w[p] EXCEPT !.pc = "hasPending", !.upd = Idle.upd]
<1> DEFINE E(st) == {r \in Recipients : w[p].upd[r] = st}
<1>1. /\ w[p] \in Call /\ w[p].pc = "count" /\ w[p].cron /\ rec' = rec
      /\ EntriesOK(w[p], rec) /\ camp \in CampRow
  BY CountHere, LockHere DEF IncrementCounters, At, LockOK
<1>2. Idle.upd = [r \in Recipients |-> "none"]
  BY DEF Idle
<1>3. Put(p, x) /\ x = [w[p] EXCEPT !.pc = "hasPending",
                          !.upd = [r \in Recipients |-> "none"]]
  BY <1>2 DEF IncrementCounters
<1> HIDE DEF x
<1>4. /\ x \in Call /\ x.pc = "hasPending" /\ x.mc = w[p].mc
      /\ \A r \in Recipients : x.upd[r] = "none"
  BY <1>1, <1>3 DEF Call, PCs
<1>5. w' = [w EXCEPT ![p] = x] /\ w \in [Calls -> Call]
  BY <1>3, LockHere DEF Put
<1>6. \A q \in Calls \ {p} : w'[q] = w[q] /\ w[q].pc \in {"idle", "store"}
  BY <1>1, <1>5, OnlyOne
<1>7. /\ Accounted' = Accounted \cup E("sent") \cup E("failed")
      /\ Accounted \cap E("sent") = {}
      /\ (Accounted \cup E("sent")) \cap E("failed") = {}
  <2>1. Uncounted = E("sent") \cup E("failed")
    BY <1>1, OnlyOne DEF Call
  <2>2. Uncounted' = {}
    BY <1>4, <1>5, <1>6 DEF Uncounted
  <2>3. Uncounted \subseteq Recipients \ Pending
    BY <1>1, <2>1 DEF EntriesOK, Pending
  <2>4. Pending' = Pending
    BY <1>1 DEF Pending
  <2>5. E("sent") \cap E("failed") = {}
    OBVIOUS
  <2> QED
    BY <2>1, <2>2, <2>3, <2>4, <2>5 DEF Accounted
<1> DEFINE s == Counted(p, "sent")
<1> DEFINE f == Counted(p, "failed")
<1>8. s = Cardinality(E("sent")) /\ f = Cardinality(E("failed"))
  BY DEF Counted
<1> DEFINE S == E("sent")
<1> DEFINE F == E("failed")
<1>9. S \in SUBSET Recipients /\ F \in SUBSET Recipients
  OBVIOUS
<1>10. camp' = [camp EXCEPT !.sent = camp.sent + s, !.failed = camp.failed + f]
  BY DEF IncrementCounters
<1>11. /\ Accounted' = Accounted \cup S \cup F /\ Accounted \cap S = {}
       /\ (Accounted \cup S) \cap F = {}
       /\ s = Cardinality(S) /\ f = Cardinality(F)
  BY <1>7, <1>8
<1> HIDE DEF S, F, s, f
<1>12. Accounted \in SUBSET Recipients
  BY DEF Accounted
<1>13. /\ s \in Nat /\ f \in Nat /\ Cardinality(Accounted) \in Nat
       /\ IsFiniteSet(S) /\ IsFiniteSet(F) /\ IsFiniteSet(Accounted)
  BY <1>9, <1>11, <1>12, SmallerSet
<1>14. Cardinality(Accounted') = Cardinality(Accounted) + s + f
  <2>1. /\ IsFiniteSet(Accounted \cup S)
        /\ Cardinality(Accounted \cup S) = Cardinality(Accounted) + s
    BY <1>11, <1>13, DisjointSets
  <2>2. Cardinality(Accounted \cup S \cup F)
          = Cardinality(Accounted \cup S) + f
    BY <1>11, <1>13, <2>1, DisjointSets
  <2> QED
    BY <1>11, <1>13, <2>1, <2>2
<1>15. Fits(camp', Accounted')
  <2>1. camp.sent \in Nat /\ camp.failed \in Nat
    BY <1>1 DEF CampRow
  <2>2. camp'.sent = camp.sent + s /\ camp'.failed = camp.failed + f
    BY <1>1, <1>10 DEF CampRow
  <2>3. camp.sent + camp.failed <= Cardinality(Accounted)
    BY CountHere DEF Fits
  <2> QED
    BY <1>13, <1>14, <2>1, <2>2, <2>3 DEF Fits
<1>16. ASSUME NEW q \in Calls
       PROVE  Fits(w'[q].mc, Accounted') /\ EntriesOK(w'[q], rec')
  <2>1. w'[q].mc = w[q].mc /\ w[q].mc \in CampRow
    BY <1>4, <1>5, LockHere
  <2>2. Accounted' \in SUBSET Recipients /\ Accounted \in SUBSET Accounted'
    BY <1>11 DEF Accounted
  <2>3. Fits(w'[q].mc, Accounted')
    BY <2>1, <2>2, CountHere, FitsMore
  <2>4. EntriesOK(w'[q], rec')
    BY <1>1, <1>4, <1>5, <1>6, CountHere DEF EntriesOK
  <2> QED
    BY <2>3, <2>4
<1> QED
  BY <1>15, <1>16 DEF CountInv

LEMMA EnvironmentCount ==
  ASSUME Inv, LockInv, CountInv,
         Crash \/ BecomeDue \/ DeleteChannel \/ UNCHANGED vars
  PROVE  CountInv'
<1>1. rec' = rec /\ camp' = camp
  BY DEF Crash, BecomeDue, DeleteChannel, vars
<1>2. \A p \in Calls : w'[p] = Idle \/ w'[p] = w[p]
  BY DEF Crash, BecomeDue, DeleteChannel, vars
<1>3. w' \in [Calls -> Call]
  BY IdleOK DEF Crash, BecomeDue, DeleteChannel, vars, Inv, TypeOK
<1>4. Accounted \subseteq Accounted'
  <2>1. \A p \in Calls : w'[p].pc = "count" => w'[p] = w[p]
    BY <1>2 DEF Idle
  <2> QED
    BY <1>1, <2>1 DEF Accounted, Pending, Uncounted
<1>5. \A p \in Calls : Fits(w'[p].mc, Accounted) /\ EntriesOK(w'[p], rec')
  BY <1>1, <1>2, NothingCounted, CountHere
<1>6. Fits(camp', Accounted) /\ camp' \in CampRow
  BY <1>1 DEF CountInv, Inv, TypeOK
<1> QED
  BY <1>3, <1>4, <1>5, <1>6, CountGrows

LEMMA InitCount == Init => CountInv
<1> SUFFICES ASSUME Init PROVE CountInv
  OBVIOUS
<1>1. camp.sent = 0 /\ camp.failed = 0
  BY DEF Init, NewCampaign
<1>2. Cardinality(Accounted) \in Nat
  BY SmallerSet DEF Accounted
<1>3. Fits(camp, Accounted)
  BY <1>1, <1>2 DEF Fits
<1> QED
  BY <1>3, NothingCounted DEF Init, CountInv

LEMMA NextCount == Inv /\ LockInv /\ CountInv /\ [Next]_vars => CountInv'
<1> SUFFICES ASSUME Inv, LockInv, CountInv, [Next]_vars PROVE CountInv'
  OBVIOUS
<1>1. ASSUME NEW p \in Calls, Continue(p) PROVE CountInv'
  <2>1. CASE \E r \in Recipients : SendOne(p, r)
    BY <2>1, SendCount
  <2>2. CASE UpdateBatch(p) \/ IncrementCounters(p)
    BY <2>2, UpdateCount, IncrementCount
  <2>3. CASE Retrieve(p) \/ FindPending(p)
    BY <2>3, ReadCount
  <2> QED
    BY <1>1, <2>1, <2>2, <2>3, MoveCount DEF Continue
<1>2. ASSUME NEW p \in Calls,
             CronBegin(p) \/ StartLoad(p) \/ CancelLoad(p) \/ Throw(p)
      PROVE  CountInv'
  BY <1>2, BeginCount, MoveCount
<1> QED
  BY <1>1, <1>2, EnvironmentCount DEF Next

(* While a batch fits in the lock's timeout, sentCount and failedCount     *)
(* together never exceed the recipients whose outcome is stored, though a  *)
(* crash may come between the two updates and a start or a cancel writes   *)
(* older counters back over newer ones.                                    *)
THEOREM CountersLag ==
  ASSUME BatchSize <= LockTimeout
  PROVE  Spec => []CountersNeverOvertake
<1>1. Inv /\ CountInv => CountersNeverOvertake
  <2> SUFFICES ASSUME Inv, CountInv PROVE CountersNeverOvertake
    OBVIOUS
  <2> DEFINE S == Recipients \ Pending
  <2>1. S \in SUBSET Recipients /\ Accounted \in SUBSET S
    BY DEF Accounted
  <2>2. Fits(camp, S)
    BY <2>1, FitsMore DEF CountInv, Inv, TypeOK
  <2> QED
    BY <2>2 DEF Fits, CountersNeverOvertake
<1>2. Inv /\ LockInv /\ [Next]_vars => LockInv'
  BY NextLock
<1> QED
  BY InitLock, InitCount, InvHolds, NextCount, <1>1, <1>2, PTL DEF Spec

-----------------------------------------------------------------------------
(* Refinement.  A batch holds BatchSize recipients from the query that     *)
(* finds it to the update that stores it, whichever of them are reached.   *)

BatchOf(x) == x.todo \cup {r \in Recipients : x.upd[r] # "none"}

InBatch(x) == x.pc \in {"send", "update"}

BatchInv ==
  \A p \in Calls : InBatch(w[p]) => Cardinality(BatchOf(w[p])) <= BatchSize

LEMMA PutBatch ==
  ASSUME Inv, BatchInv, NEW p \in Calls, NEW x, Put(p, x),
         InBatch(x) => Cardinality(BatchOf(x)) <= BatchSize
  PROVE  BatchInv'
<1>1. w' = [w EXCEPT ![p] = x] /\ w \in [Calls -> Call]
  BY DEF Put, Inv, TypeOK
<1>2. \A q \in Calls : w'[q] = x \/ w'[q] = w[q]
  BY <1>1
<1> QED
  BY <1>2 DEF BatchInv

(* Steps that begin no batch and are in none afterwards.                   *)
LEMMA OutsideBatch ==
  ASSUME Inv, BatchInv, NEW p \in Calls,
         \/ Leave(p) \/ Put(p, Idle)
         \/ \E l \in PCs \ {"send", "update"} : Goto(p, l)
         \/ \E c \in CampRow, st \in Status : ToStore(p, c, st)
  PROVE  BatchInv'
<1>1. w[p] \in Call
  BY Here
<1>2. CASE Leave(p)
  <2> DEFINE x == [Idle EXCEPT !.pc = "finish", !.cron = TRUE]
  <2>1. ~InBatch(x)
    BY DEF Idle, InBatch
  <2> QED
    BY <1>2, <2>1, PutBatch DEF Leave
<1>3. CASE Put(p, Idle)
  BY <1>3, PutBatch DEF Idle, InBatch
<1>4. ASSUME NEW l \in PCs \ {"send", "update"}, Goto(p, l) PROVE BatchInv'
  <2> DEFINE x == [w[p] EXCEPT !.pc = l]
  <2>1. ~InBatch(x)
    BY <1>1 DEF Call, InBatch
  <2> QED
    BY <1>4, <2>1, PutBatch DEF Goto
<1>5. ASSUME NEW c \in CampRow, NEW st \in Status, ToStore(p, c, st)
      PROVE  BatchInv'
  <2> DEFINE x == [w[p] EXCEPT !.pc = "store", !.mc = [c EXCEPT !.st = st]]
  <2>1. ~InBatch(x)
    BY <1>1 DEF Call, InBatch
  <2>2. Put(p, x)
    BY <1>5, Zenon DEF ToStore
  <2> HIDE DEF x
  <2> QED
    BY <2>1, <2>2, PutBatch
<1> QED
  BY <1>2, <1>3, <1>4, <1>5

LEMMA MoveBatch ==
  ASSUME Inv, BatchInv, NEW p \in Calls,
         \/ ListScheduled(p) \/ ListRunning(p) \/ Finish(p) \/ FindChannel(p)
         \/ UpdateBatch(p) \/ HasPending(p) \/ Recheck(p) \/ Store(p)
         \/ StartLoad(p) \/ CancelLoad(p) \/ Throw(p)
  PROVE  BatchInv'
<1>1. camp \in CampRow /\ w[p].mc \in CampRow
  BY Here
<1>2. {"listRunning", "retrieve", "find", "count", "recheck"}
        \subseteq PCs \ {"send", "update"}
  BY DEF PCs
<1>3. {"running", "failed", "completed", "cancelled"} \subseteq Status
  BY DEF Status
<1>4. \/ Leave(p) \/ Put(p, Idle)
      \/ \E l \in PCs \ {"send", "update"} : Goto(p, l)
      \/ \E c \in CampRow, st \in Status : ToStore(p, c, st)
  <2>1. CASE ListScheduled(p) \/ FindChannel(p)
    BY <1>1, <1>2, <1>3, <2>1 DEF ListScheduled, FindChannel
  <2>2. CASE ListRunning(p) \/ Finish(p) \/ UpdateBatch(p) \/ HasPending(p)
    BY <1>2, <2>2 DEF ListRunning, Finish, UpdateBatch, HasPending
  <2>3. CASE Recheck(p) \/ StartLoad(p) \/ CancelLoad(p)
    BY <1>1, <1>3, <2>3 DEF Recheck, StartLoad, CancelLoad
  <2>4. CASE Store(p) \/ Throw(p)
    BY <1>2, <2>4 DEF Store, Throw
  <2> QED
    BY <2>1, <2>2, <2>3, <2>4
<1> QED
  BY <1>4, OutsideBatch

LEMMA ReadBatch ==
  ASSUME Inv, BatchInv, NEW p \in Calls,
         CronBegin(p) \/ Retrieve(p) \/ IncrementCounters(p)
  PROVE  BatchInv'
<1>1. w[p] \in Call
  BY Here
<1>2. CASE CronBegin(p)
  <2> DEFINE x == [Idle EXCEPT !.pc = "list", !.cron = TRUE]
  <2>1. ~InBatch(x)
    BY DEF Idle, InBatch
  <2> QED
    BY <1>2, <2>1, PutBatch DEF CronBegin
<1>3. CASE Retrieve(p)
  <2> DEFINE x == [w[p] EXCEPT !.pc = "channel", !.mc = camp]
  <2>1. ~InBatch(x)
    BY <1>1 DEF Call, InBatch
  <2>2. Put(p, x) \/ Leave(p)
    BY <1>3 DEF Retrieve
  <2> HIDE DEF x
  <2> QED
    BY <2>1, <2>2, PutBatch, OutsideBatch
<1>4. CASE IncrementCounters(p)
  <2> DEFINE x == [w[p] EXCEPT !.pc = "hasPending", !.upd = Idle.upd]
  <2>1. ~InBatch(x)
    BY <1>1 DEF Call, InBatch
  <2> QED
    BY <1>4, <2>1, PutBatch DEF IncrementCounters
<1> QED
  BY <1>2, <1>3, <1>4

LEMMA FindBatch ==
  ASSUME Inv, LockInv, BatchInv, NEW p \in Calls, FindPending(p)
  PROVE  BatchInv'
<1>1. /\ w[p] \in Call /\ LockOK(w[p], busy, age, rec) /\ w[p].pc = "find"
      /\ w[p].mc \in CampRow
  <2>1. w[p].pc = "find"
    BY Zenon DEF FindPending, At
  <2> QED
    BY <2>1, LockHere
<1>2. \A r \in Recipients : w[p].upd[r] = "none"
  BY <1>1 DEF LockOK, BeforeBatch
<1>3. ASSUME NEW S \in Batches,
             Put(p, [w[p] EXCEPT !.pc = "send", !.todo = S])
      PROVE  BatchInv'
  <2> DEFINE x == [w[p] EXCEPT !.pc = "send", !.todo = S]
  <2>1. x.todo = S /\ x.upd = w[p].upd
    BY <1>1 DEF Call
  <2>2. Put(p, x)
    BY <1>3
  <2> HIDE DEF x
  <2>3. BatchOf(x) = S
    BY <1>2, <2>1 DEF BatchOf
  <2>4. Cardinality(S) <= BatchSize
    <3>1. Pending \in SUBSET Recipients /\ Recipients \in SUBSET Recipients
      BY DEF Pending
    <3>2. Cardinality(Pending) \in Nat
      BY <3>1, SmallerSet
    <3> QED
      BY <3>2, CampaignAssumption DEF Batches
  <2> QED
    BY <2>2, <2>3, <2>4, PutBatch
<1>4. CASE ToStore(p, w[p].mc, "completed")
  BY <1>1, <1>4, OutsideBatch DEF Status
<1> QED
  BY <1>3, <1>4, Zenon DEF FindPending

(* Whoever leaves todo gets an entry.                                      *)
LEMMA SendBatch ==
  ASSUME Inv, BatchInv, NEW p \in Calls, NEW r \in Recipients, SendOne(p, r)
  PROVE  BatchInv'
<1>1. w[p] \in Call /\ w[p].pc = "send" /\ r \in w[p].todo
  BY Here DEF SendOne, At
<1>2. PICK st \in {"sent", "failed"} : Settle(p, r, st)
  BY DEF SendOne
<1> DEFINE x == [w[p] EXCEPT !.todo = @ \ {r}, !.upd[r] = st,
                   !.pc = IF w[p].todo = {r} THEN "update" ELSE "send"]
<1>3. /\ x.todo = w[p].todo \ {r} /\ x.upd = [w[p].upd EXCEPT ![r] = st]
      /\ w[p].upd \in [Recipients -> {"none", "sent", "failed"}]
  BY <1>1 DEF Call
<1>4. Put(p, x)
  BY <1>2 DEF Settle
<1> HIDE DEF x
<1>5. BatchOf(x) = BatchOf(w[p])
  BY <1>1, <1>3 DEF BatchOf
<1>6. Cardinality(BatchOf(w[p])) <= BatchSize
  BY <1>1 DEF BatchInv, InBatch
<1> QED
  BY <1>4, <1>5, <1>6, PutBatch

LEMMA InitBatch == Init => BatchInv
  BY DEF Init, BatchInv, InBatch, Idle

LEMMA NextBatch == Inv /\ LockInv /\ BatchInv /\ [Next]_vars => BatchInv'
<1> SUFFICES ASSUME Inv, LockInv, BatchInv, [Next]_vars PROVE BatchInv'
  OBVIOUS
<1>1. ASSUME NEW p \in Calls, Continue(p) PROVE BatchInv'
  BY <1>1, MoveBatch, ReadBatch, FindBatch, SendBatch DEF Continue
<1>2. ASSUME NEW p \in Calls,
             CronBegin(p) \/ StartLoad(p) \/ CancelLoad(p) \/ Throw(p)
      PROVE  BatchInv'
  BY <1>2, MoveBatch, ReadBatch
<1>3. CASE Crash
  BY <1>3 DEF Crash, BatchInv, InBatch, Idle
<1>4. CASE BecomeDue \/ DeleteChannel \/ UNCHANGED vars
  BY <1>4 DEF BecomeDue, DeleteChannel, vars, BatchInv
<1> QED
  BY <1>1, <1>2, <1>3, <1>4 DEF Next

(* One step of Campaign is one of Broadcast, or none.                      *)
PromiseStep == [Promise!Next]_(Promise!vars)

LEMMA StillStep ==
  ASSUME UNCHANGED <<rec, out>>,
         camp'.st = "completed" <=> camp.st = "completed"
  PROVE  PromiseStep
  BY DEF PromiseStep, Promise!vars

(* A message only goes to whoever nothing is recorded of: there is one     *)
(* batch, and its recipients were pending when it was found.               *)
LEMMA SendStep ==
  ASSUME Inv, LockInv, NEW p \in Calls, NEW r \in Recipients, SendOne(p, r)
  PROVE  PromiseStep
<1>1. w[p].pc = "send" /\ r \in w[p].todo /\ camp' = camp /\ rec' = rec
  BY DEF SendOne, At
<1>2. rec[r] = "pending"
  BY <1>1, LockHere DEF LockOK
<1>3. CASE out' = out
  BY <1>1, <1>3, StillStep
<1>4. CASE Published(r)
  <2>1. Promise!Send(r)
    BY <1>1, <1>2, <1>4 DEF Promise!Send, Promise!Open, Published
  <2> QED
    BY <2>1 DEF PromiseStep, Promise!Next
<1> QED
  BY <1>3, <1>4 DEF SendOne

(* A batch is stored over pending recipients only, and its "sent" entries  *)
(* have their message.                                                     *)
LEMMA RecordStep ==
  ASSUME Inv, LockInv, CountInv, BatchInv, NEW p \in Calls, UpdateBatch(p)
  PROVE  PromiseStep
<1> DEFINE S == {r \in Recipients : w[p].upd[r] # "none"}
<1> DEFINE e == [r \in S |-> w[p].upd[r]]
<1>1. /\ w[p] \in Call /\ w[p].pc = "update" /\ camp' = camp /\ out' = out
      /\ LockOK(w[p], busy, age, rec) /\ EntriesOK(w[p], rec)
      /\ CallOK(w[p], rec, out)
  BY LockHere, CountHere, Here DEF UpdateBatch, At
<1>2. S \in SUBSET Recipients /\ e \in [S -> {"sent", "failed"}]
  BY <1>1 DEF Call
<1>3. S \subseteq Promise!Open
  BY <1>1 DEF EntriesOK, Promise!Open
<1>4. Cardinality(S) <= BatchSize
  <2>1. BatchOf(w[p]) = S
    BY <1>1 DEF BatchOf, LockOK
  <2> QED
    BY <1>1, <2>1 DEF BatchInv, InBatch
<1>5. \A r \in S : e[r] = "sent" => out[r] >= 1
  BY <1>1 DEF CallOK
<1>6. rec' = [r \in Recipients |-> IF r \in S THEN e[r] ELSE rec[r]]
  BY DEF UpdateBatch
<1> HIDE DEF S, e
<1>7. UNCHANGED <<out, camp.st = "completed">>
  BY <1>1
<1>8. Promise!Record(S, e)
  <2>1. Promise!Cardinality(S) = Cardinality(S)
    BY DEF Promise!Cardinality, Cardinality
  <2> QED
    BY <1>3, <1>4, <1>5, <1>6, <1>7, <2>1, Zenon DEF Promise!Record
<1> QED
  BY <1>2, <1>8 DEF PromiseStep, Promise!Next

(* Only Store changes the status, and to "completed" only when nobody is   *)
(* pending.                                                                *)
LEMMA StatusStep ==
  ASSUME UNCHANGED <<rec, out>>, camp'.st = "completed" => Done(rec)
  PROVE  PromiseStep
<1>1. CASE camp'.st = "completed"
  <2>1. Promise!Open = {}
    BY <1>1 DEF Promise!Open, Done
  <2>2. Promise!Complete
    BY <1>1, <2>1 DEF Promise!Complete
  <2> QED
    BY <2>2 DEF PromiseStep, Promise!Next
<1>2. CASE camp'.st # "completed"
  <2>1. Promise!Overwrite
    BY <1>2 DEF Promise!Overwrite
  <2> QED
    BY <2>1 DEF PromiseStep, Promise!Next
<1> QED
  BY <1>1, <1>2

LEMMA StoreStep ==
  ASSUME Inv, NEW p \in Calls, Store(p)
  PROVE  PromiseStep
<1>1. UNCHANGED <<rec, out>> /\ camp' = w[p].mc
  BY DEF Store
<1>2. CallOK(w[p], rec, out)
  BY Here
<1> QED
  BY <1>1, <1>2, StatusStep DEF CallOK

LEMMA IncrementStep ==
  ASSUME Inv, NEW p \in Calls, IncrementCounters(p)
  PROVE  PromiseStep
<1>1. UNCHANGED <<rec, out>> /\ camp'.st = camp.st
  BY Here DEF IncrementCounters, CampRow
<1> QED
  BY <1>1, StillStep

LEMMA PromiseNext ==
  ASSUME Inv, LockInv, CountInv, BatchInv, [Next]_vars
  PROVE  PromiseStep
<1>1. ASSUME NEW p \in Calls, Continue(p) PROVE PromiseStep
  <2>1. CASE \E r \in Recipients : SendOne(p, r)
    BY <2>1, SendStep
  <2>2. CASE UpdateBatch(p) \/ IncrementCounters(p) \/ Store(p)
    BY <2>2, RecordStep, IncrementStep, StoreStep
  <2>3. CASE \/ ListScheduled(p) \/ ListRunning(p) \/ Finish(p) \/ Retrieve(p)
             \/ FindChannel(p) \/ FindPending(p) \/ HasPending(p)
             \/ Recheck(p)
    <3>1. UNCHANGED <<camp, rec, out>>
      BY <2>3, Zenon DEF ListScheduled, ListRunning, Finish, Retrieve,
         FindChannel, FindPending, HasPending, Recheck
    <3> QED
      BY <3>1, StillStep
  <2> QED
    BY <1>1, <2>1, <2>2, <2>3 DEF Continue
<1>2. ASSUME NEW p \in Calls,
             CronBegin(p) \/ StartLoad(p) \/ CancelLoad(p) \/ Throw(p)
      PROVE  PromiseStep
  <2>1. UNCHANGED <<camp, rec, out>>
    BY <1>2, Zenon DEF CronBegin, StartLoad, CancelLoad, Throw
  <2> QED
    BY <2>1, StillStep
<1>3. CASE Crash \/ BecomeDue \/ DeleteChannel \/ UNCHANGED vars
  <2>1. UNCHANGED <<camp, rec, out>>
    BY <1>3 DEF Crash, BecomeDue, DeleteChannel, vars
  <2> QED
    BY <2>1, StillStep
<1> QED
  BY <1>1, <1>2, <1>3 DEF Next

LEMMA PromiseInit ==
  ASSUME Init PROVE Promise!Init
<1>1. camp.st # "completed"
  BY DEF Init, NewCampaign
<1> QED
  BY <1>1 DEF Init, Promise!Init

(* While a batch fits in the lock's timeout, the campaign implements       *)
(* Broadcast: no crash, thrown query, refused publish, start, cancel or    *)
(* stale row makes it send to a recipient whose outcome is recorded, or    *)
(* record one twice, or complete with one missing (ExecuteCampaignBatch).  *)
THEOREM BroadcastKept ==
  ASSUME BatchSize <= LockTimeout
  PROVE  Spec => SettledOnce
<1>1. Inv /\ LockInv /\ [Next]_vars => LockInv'
  BY NextLock
<1>2. Inv /\ LockInv /\ CountInv /\ BatchInv /\ [Next]_vars
        => [Promise!Next]_(Promise!vars)
  BY PromiseNext DEF PromiseStep
<1> QED
  BY InitLock, InitCount, InitBatch, InvHolds, NextCount, NextBatch,
     PromiseInit, <1>1, <1>2, PTL DEF Spec, SettledOnce, Promise!Spec
=============================================================================
