------------------------- MODULE OutboundRefinement -------------------------
(***************************************************************************)
(* Outbound implements Delivery, for any replies, ids, receipts and        *)
(* faults: each step of the server action, the queue, the gateway or a     *)
(* crash accepts a reply, delivers it or discards it, or leaves every      *)
(* reply as it stands.                                                     *)
(***************************************************************************)
EXTENDS OutboundProofs

QueueStep == Standing' = Standing \/ Queue!Next

(* Nothing of the replies but of r may change.                             *)
Elsewhere(r) ==
  \A x \in Replies : x # r =>
    /\ Taken(x)' <=> Taken(x)
    /\ x \in dead' <=> x \in dead
    /\ Held(x)' <=> Held(x)

-----------------------------------------------------------------------------
LEMMA HeldIs ==
  ASSUME NEW r PROVE Held(r) <=> r \in calls \/ gw.r = r \/ In(queue, r)
  BY DEF Held, In

LEMMA HeldIsNext ==
  ASSUME NEW r
  PROVE  Held(r)' <=> r \in calls' \/ gw'.r = r \/ In(queue', r)
  BY DEF Held, In

(* Steps after which every reply stands as before.                         *)
LEMMA SameStanding ==
  ASSUME UNCHANGED <<owner, dead>>,
         \A r \in Replies : ~Taken(r) => (Held(r)' <=> Held(r))
  PROVE  QueueStep
<1>1. \A r \in Replies : Taken(r)' <=> Taken(r)
  BY DEF Taken
<1> QED
  BY <1>1 DEF Standing, QueueStep

(* A reply that the provider does not have is given up.                    *)
LEMMA GivenUp ==
  ASSUME NEW r \in Replies, Elsewhere(r), Held(r), owner' = owner,
         r \in dead'
  PROVE  QueueStep
<1>1. Taken(r)' <=> Taken(r)
  BY DEF Taken
<1>2. CASE Taken(r) \/ r \in dead
  <2>1. Standing' = Standing
    BY <1>1, <1>2 DEF Elsewhere, Standing
  <2> QED
    BY <2>1 DEF QueueStep
<1>3. CASE ~Taken(r) /\ r \notin dead
  <2>1. Standing[r] = "pending"
    BY <1>3 DEF Standing
  <2>2. Standing' = [x \in Replies |-> IF x \in {r} THEN "discarded"
                                       ELSE Standing[x]]
    BY <1>1, <1>3 DEF Elsewhere, Standing
  <2>3. Queue!Discard({r}) /\ {r} \in SUBSET Replies
    BY <2>1, <2>2 DEF Queue!Discard
  <2> QED
    BY <2>3 DEF Queue!Next, QueueStep
<1> QED
  BY <1>2, <1>3

-----------------------------------------------------------------------------
LEMMA SendStep ==
  ASSUME Inv, NEW r \in Replies, Send(r) PROVE QueueStep
<1>1. ~In(sent, r) /\ r \notin calls /\ ~Taken(r) /\ r \notin dead
  BY DEF Send, In, Taken
<1>2. ~Held(r)
  <2>1. ~In(queue, r)
    BY <1>1 DEF Inv, QueueSent
  <2>2. gw.r # r
    BY <1>1, OutboundAssumption DEF Inv, GwOK, Idle
  <2> QED
    BY <1>1, <2>1, <2>2, HeldIs
<1>3. Standing[r] = "absent"
  BY <1>1, <1>2 DEF Standing
<1>4. calls' = calls \cup {r} /\ UNCHANGED <<owner, dead, gw, queue>>
  BY DEF Send, gateway
<1>5. \A x \in Replies : /\ Taken(x)' <=> Taken(x)
                         /\ Held(x)' <=> Held(x) \/ x = r
  BY <1>4, HeldIs, HeldIsNext DEF Taken
<1>6. Standing' = [Standing EXCEPT ![r] = "pending"]
  BY <1>1, <1>4, <1>5 DEF Standing
<1>7. Queue!Accept(r)
  BY <1>3, <1>6 DEF Queue!Accept
<1> QED
  BY <1>7 DEF Queue!Next, QueueStep

LEMMA PublishStep ==
  ASSUME Inv, NEW r \in Replies, Publish(r) PROVE QueueStep
<1>1. /\ queue \in Seq(Replies) /\ r \in calls /\ calls' = calls \ {r}
      /\ UNCHANGED <<owner, gw>>
  BY DEF Publish, Inv, TypeOK
<1>2. CASE queue' = Append(queue, r) /\ dead' = dead
  <2>1. \A x : In(queue', x) <=> x = r \/ In(queue, x)
    BY <1>1, <1>2, InAppend
  <2>2. \A x \in Replies : Held(x)' <=> Held(x)
    BY <1>1, <2>1, HeldIs, HeldIsNext
  <2> QED
    BY <1>1, <1>2, <2>2, SameStanding
<1>3. CASE dead' = dead \cup {r} /\ queue' = queue
  <2>1. Elsewhere(r)
    BY <1>1, <1>3, HeldIs, HeldIsNext DEF Elsewhere, Taken
  <2>2. Held(r)
    BY <1>1, HeldIs
  <2> QED
    BY <1>1, <1>3, <2>1, <2>2, GivenUp
<1> QED
  BY <1>2, <1>3 DEF Publish

LEMMA TakeStep ==
  ASSUME Inv, Take PROVE QueueStep
<1>1. queue \in Seq(Replies) /\ queue # <<>> /\ gw.r = NULL
        /\ queue' = Tail(queue) /\ UNCHANGED <<owner, dead, calls>>
  BY DEF Take, Inv, TypeOK, GwOK, Idle
<1>2. gw'.r = Head(queue)
  BY DEF Take, Idle
<1>3. \A x : In(queue, x) <=> x = Head(queue) \/ In(queue', x)
  BY <1>1, InTail
<1>4. \A x \in Replies : Held(x)' <=> Held(x)
  BY <1>1, <1>2, <1>3, HeldIs, HeldIsNext, OutboundAssumption
<1> QED
  BY <1>1, <1>4, SameStanding

(* The provider takes the reply, whatever it answers.                      *)
LEMMA ReachStep ==
  ASSUME Inv, SendToApi, NEW e \in Ids, Reach(e) PROVE QueueStep
<1> DEFINE r == gw.r
<1>1. /\ r \in Replies /\ owner[e] = NULL /\ owner' = [owner EXCEPT ![e] = r]
      /\ owner \in [Ids -> Replies \cup {NULL}]
      /\ UNCHANGED <<queue, calls>>
  BY DEF SendToApi, Reach, Unused, Nack, Inv, TypeOK, GwOK
<1>2. dead' \in {dead, dead \cup {r}} /\ gw'.r \in {r, NULL}
  <2>1. ASSUME NEW f, gw' = [gw EXCEPT !.pc = "confirm", !.e = f]
        PROVE  gw'.r = r
    BY <2>1, GwType
  <2>2. CASE Nack
    BY <2>2 DEF Nack, Idle
  <2> QED
    BY <2>1, <2>2 DEF SendToApi
<1>3. \A x \in Replies : Taken(x)' <=> Taken(x) \/ x = r
  BY <1>1, OutboundAssumption DEF Taken
<1>4. Elsewhere(r)
  BY <1>1, <1>2, <1>3, HeldIs, HeldIsNext, OutboundAssumption DEF Elsewhere
<1>5. CASE Taken(r)
  <2>1. Standing' = Standing
    BY <1>1, <1>3, <1>4, <1>5 DEF Elsewhere, Standing
  <2> QED
    BY <2>1 DEF QueueStep
<1>6. CASE ~Taken(r)
  <2>1. Standing[r] \in {"pending", "discarded"}
    BY <1>1, <1>6, HeldIs DEF Standing
  <2>2. Standing' = [Standing EXCEPT ![r] = "delivered"]
    BY <1>1, <1>3, <1>4 DEF Elsewhere, Standing
  <2>3. Queue!Deliver(r)
    BY <2>1, <2>2 DEF Queue!Deliver
  <2> QED
    BY <1>1, <2>3 DEF Queue!Next, QueueStep
<1> QED
  BY <1>5, <1>6

LEMMA SendToApiStep ==
  ASSUME Inv, SendToApi PROVE QueueStep
<1>1. CASE \E e \in Ids : Reach(e)
  BY <1>1, ReachStep
<1>2. CASE Nack /\ UNCHANGED owner
  <2>1. /\ gw.r \in Replies /\ dead' = dead \cup {gw.r} /\ gw'.r = NULL
        /\ UNCHANGED <<queue, calls>>
    BY <1>2 DEF Nack, SendToApi, Inv, GwOK, Idle
  <2>2. Elsewhere(gw.r)
    BY <1>2, <2>1, HeldIs, HeldIsNext, OutboundAssumption DEF Elsewhere, Taken
  <2>3. Held(gw.r)
    BY HeldIs
  <2> QED
    BY <1>2, <2>1, <2>2, <2>3, GivenUp
<1> QED
  BY <1>1, <1>2 DEF SendToApi

LEMMA ConfirmationStep ==
  ASSUME Inv, PublishConfirmation \/ Ack PROVE QueueStep
<1>1. UNCHANGED <<owner, dead, queue, calls>>
  BY DEF PublishConfirmation, Ack
<1>2. ASSUME PublishConfirmation PROVE gw'.r = gw.r
  BY <1>2, GwType DEF PublishConfirmation
<1>3. ASSUME Ack PROVE Taken(gw.r) /\ gw'.r = NULL
  BY <1>3 DEF Ack, Inv, GwOK, Taken, Idle
<1>4. \A r \in Replies : ~Taken(r) => (Held(r)' <=> Held(r))
  BY <1>1, <1>2, <1>3, HeldIs, HeldIsNext, OutboundAssumption
<1> QED
  BY <1>1, <1>4, SameStanding

LEMMA GatewayCrashStep ==
  ASSUME Inv, GatewayCrash PROVE QueueStep
<1>1. /\ queue \in Seq(Replies) /\ gw.r \in Replies /\ gw'.r = NULL
      /\ queue' = <<gw.r>> \o queue /\ UNCHANGED <<owner, dead, calls>>
  BY DEF GatewayCrash, Inv, TypeOK, GwOK, Idle
<1>2. \A x : In(queue', x) <=> x = gw.r \/ In(queue, x)
  BY <1>1, InCons
<1>3. \A x \in Replies : Held(x)' <=> Held(x)
  BY <1>1, <1>2, HeldIs, HeldIsNext, OutboundAssumption
<1> QED
  BY <1>1, <1>3, SameStanding

(* The replies whose server action was under way are given up together.    *)
LEMMA WebCrashStep ==
  ASSUME Inv, WebCrash PROVE QueueStep
<1> DEFINE S == {r \in calls : ~Taken(r) /\ r \notin dead}
<1>1. dead' = dead \cup calls /\ calls' = {} /\ UNCHANGED <<owner, gw, queue>>
        /\ calls \subseteq Replies
  BY DEF WebCrash, Inv, TypeOK
<1>2. \A r \in S : Standing[r] = "pending"
  BY <1>1, HeldIs DEF Standing
<1>3. \A r \in Replies : /\ Taken(r)' <=> Taken(r)
                         /\ r \notin calls => (Held(r)' <=> Held(r))
  BY <1>1, HeldIs, HeldIsNext DEF Taken
<1>4. Standing' = [r \in Replies |-> IF r \in S THEN "discarded"
                                     ELSE Standing[r]]
  BY <1>1, <1>3 DEF Standing
<1>5. Queue!Discard(S) /\ S \in SUBSET Replies
  BY <1>1, <1>2, <1>4 DEF Queue!Discard
<1> QED
  BY <1>5 DEF Queue!Next, QueueStep

(* The confirmations, the receipts and the browser.                        *)
LEMMA AsideStep ==
  ASSUME UNCHANGED <<calls, dead, owner, gw, queue>> PROVE QueueStep
<1>1. \A r \in Replies : Held(r)' <=> Held(r)
  BY HeldIs, HeldIsNext
<1> QED
  BY <1>1, SameStanding

LEMMA QueueNext ==
  ASSUME Inv, [Next]_vars PROVE [Queue!Next]_Standing
<1>1. ASSUME NEW r \in Replies, Send(r) \/ Publish(r) PROVE QueueStep
  BY <1>1, SendStep, PublishStep
<1>2. ASSUME Gateway \/ GatewayCrash PROVE QueueStep
  BY <1>2, TakeStep, SendToApiStep, ConfirmationStep, GatewayCrashStep
     DEF Gateway
<1>3. ASSUME NEW e \in Ids, Confirm(e) \/ Throw(e) PROVE QueueStep
  <2>1. UNCHANGED <<calls, dead, owner, gw, queue>>
    BY <1>3 DEF Confirm, Exists, UpsertRow, MarkProcessed, EmitConfirmed, Throw,
      gateway
  <2> QED
    BY <2>1, AsideStep
<1>4. ASSUME NEW e \in Ids, NEW s \in Receipts, Report(e, s) \/ Raise(e, s)
      PROVE  QueueStep
  <2>1. UNCHANGED <<calls, dead, owner, gw, queue>>
    BY <1>4 DEF Report, Raise, ReadRow, WriteRow, EmitStatus, gateway
  <2> QED
    BY <2>1, AsideStep
<1>5. ASSUME Quiet \/ UNCHANGED vars PROVE QueueStep
  <2>1. UNCHANGED <<calls, dead, owner, gw, queue>>
    BY <1>5 DEF Quiet, vars, gateway
  <2> QED
    BY <2>1, AsideStep
<1>6. QueueStep
  BY <1>1, <1>2, <1>3, <1>4, <1>5, WebCrashStep DEF Next
<1> QED
  BY <1>6 DEF QueueStep

LEMMA QueueInit ==
  ASSUME Init PROVE Queue!Init
<1>1. \A r \in Replies : ~Taken(r) /\ ~Held(r) /\ r \notin dead
  BY OutboundAssumption DEF Init, Taken, Held, Idle
<1> QED
  BY <1>1 DEF Queue!Init, Standing

(* A reply is held by a server action, the queue or the gateway until the  *)
(* provider has it, or until it is refused or dead-lettered (SendMessage,  *)
(* RabbitMQConsumerService.handleMessage).                                 *)
THEOREM NoReplyForgotten == Spec => NoReplyLost
  BY QueueInit, QueueNext, InvHolds, PTL DEF Spec, NoReplyLost, Queue!Spec

=============================================================================
