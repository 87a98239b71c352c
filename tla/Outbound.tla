------------------------------ MODULE Outbound ------------------------------
(***************************************************************************)
(* The replies an attendant sends in an open conversation: the optimistic  *)
(* bubble on the screen, SendMessage, the outbound queue, the gateway's    *)
(* consumer, the confirmation that stores the message, and the receipts    *)
(* that raise its status.  The gateway takes one reply at a time (prefetch *)
(* 1); confirmations and receipts are handled by the web process as they   *)
(* come, a step being one await.  Socket events reach the browser in the   *)
(* order in which they are emitted, so an emission also shows them.  The   *)
(* attendant keeps the conversation open and does not load it again.       *)
(***************************************************************************)
EXTENDS Naturals, Sequences, FiniteSets

CONSTANTS
  Replies,     \* correlation ids, one for each reply
  Ids,         \* external ids the provider gives
  FirstStatus, \* "sent", or "delivered" on Instagram
  MaxReports,  \* bound on receipts
  MaxFaults,   \* bound on crashes and failed queries
  NULL

Receipts == {"delivered", "viewed", "failed"}
Statuses == Receipts \cup {"none", "senting", "sent"}
Priority == [none |-> 0, senting |-> 0, sent |-> 1, delivered |-> 2,
             failed |-> 3, viewed |-> 3]
Higher(s, t) == IF Priority[t] > Priority[s] THEN t ELSE s

ASSUME OutboundAssumption ==
  /\ FirstStatus \in {"sent", "delivered"}
  /\ MaxReports \in Nat /\ MaxFaults \in Nat
  /\ IsFiniteSet(Replies) /\ IsFiniteSet(Ids)
  /\ Replies \cap Ids = {} /\ NULL \notin Replies \cup Ids

VARIABLES
  calls,     \* replies whose server action is under way
  sent,      \* replies published, in order
  queue,     \* the outbound queue
  dead,      \* replies in outbound-messages.dlq, or never published
  gw,        \* the gateway's consumer: pc, reply, external id
  owner,     \* owner[e]: the reply that the provider's message e carries
  phone,     \* what reached the customer, in order
  conf,      \* conf[e]: the confirmation of e, and its handler's await
  row,       \* row[e]: status of the messages row e
  processed, \* processed_messages rows of the confirmations
  rc,        \* rc[e][s]: receipt s of e, and its handler's await
  screen,    \* bubbles: status by correlation or external id
  pending,   \* pendingStatusByMessageId
  crashes, faults

server == <<row, processed>>
browser == <<screen, pending>>
gateway == <<queue, dead, gw, owner, phone>>
vars == <<calls, sent, gateway, conf, server, rc, browser, crashes, faults>>

ConfPCs == {"none", "queue", "upsert", "mark", "emit", "done"}
ReceiptPCs == {"none", "queue", "write", "emit", "done"}
Idle == [pc |-> "idle", r |-> NULL, e |-> NULL]

Init ==
  /\ calls = {} /\ sent = <<>> /\ queue = <<>> /\ dead = {} /\ gw = Idle
  /\ owner = [e \in Ids |-> NULL] /\ phone = <<>>
  /\ conf = [e \in Ids |-> "none"]
  /\ row = [e \in Ids |-> "none"] /\ processed = {}
  /\ rc = [e \in Ids |-> [s \in Receipts |-> "none"]]
  /\ screen = [b \in Replies \cup Ids |-> "none"]
  /\ pending = [e \in Ids |-> "none"]
  /\ crashes = 0 /\ faults = 0

-----------------------------------------------------------------------------
(* The attendant and SendMessage.                                          *)

(* The bubble is shown under the correlation id and the action is called.  *)
Send(r) ==
  /\ r \notin calls /\ screen[r] = "none"
  /\ \A e \in Ids : owner[e] # r
  /\ r \notin dead /\ \A i \in DOMAIN sent : sent[i] # r
  /\ screen' = [screen EXCEPT ![r] = "senting"]
  /\ calls' = calls \cup {r}
  /\ UNCHANGED <<sent, gateway, conf, server, rc, pending, crashes, faults>>

(* sendMessageToQueue, which the broker may refuse; SendMessage does not   *)
(* look at what it answers.                                                *)
Publish(r) ==
  /\ r \in calls /\ calls' = calls \ {r}
  /\ \/ /\ queue' = Append(queue, r) /\ sent' = Append(sent, r)
        /\ UNCHANGED dead
     \/ dead' = dead \cup {r} /\ UNCHANGED <<queue, sent>>
  /\ UNCHANGED <<gw, owner, phone, conf, server, rc, browser, crashes, faults>>

-----------------------------------------------------------------------------
(* The gateway: RabbitMQConsumerService and OutboundMessageHandler.        *)

Take ==
  /\ gw.pc = "idle" /\ queue # <<>>
  /\ gw' = [Idle EXCEPT !.pc = "send", !.r = Head(queue)]
  /\ queue' = Tail(queue)
  /\ UNCHANGED <<calls, sent, dead, owner, phone, conf, server, rc, browser,
                 crashes, faults>>

(* The provider accepts the reply under a fresh id.                        *)
Unused == {e \in Ids : owner[e] = NULL}
Reach(e) ==
  /\ Unused # {} /\ e = CHOOSE f \in Unused : TRUE
  /\ owner' = [owner EXCEPT ![e] = gw.r] /\ phone' = Append(phone, gw.r)

(* Mutant: the nack puts the reply back.                                   *)
NackRequeueing == queue' = <<gw.r>> \o queue /\ gw' = Idle /\ UNCHANGED dead

(* Mutant: the wrong id is dead-lettered.                                  *)
NackOther == dead' = dead \cup {gw.e} /\ gw' = Idle /\ UNCHANGED queue

(* An error is answered by a nack without requeue.                         *)
Nack == dead' = dead \cup {gw.r} /\ gw' = Idle /\ UNCHANGED queue

(* The API accepts, refuses, or times out after it has accepted.           *)
SendToApi ==
  /\ gw.pc = "send"
  /\ \/ \E e \in Ids :
          /\ Reach(e)
          /\ \/ gw' = [gw EXCEPT !.pc = "confirm", !.e = e]
                /\ UNCHANGED <<queue, dead>>
             \/ Nack
     \/ Nack /\ UNCHANGED <<owner, phone>>
  /\ UNCHANGED <<calls, sent, conf, server, rc, browser, crashes, faults>>

(* publish answers false when it is not connected; nobody looks.           *)
PublishConfirmation ==
  /\ gw.pc = "confirm"
  /\ \/ conf' = [conf EXCEPT ![gw.e] = "queue"]
     \/ UNCHANGED conf
  /\ gw' = [gw EXCEPT !.pc = "ack"]
  /\ UNCHANGED <<calls, sent, queue, dead, owner, phone, server, rc, browser,
                 crashes, faults>>

Ack ==
  /\ gw.pc = "ack" /\ gw' = Idle
  /\ UNCHANGED <<calls, sent, queue, dead, owner, phone, conf, server, rc,
                 browser, crashes, faults>>

(* Mutant: what was not acknowledged goes to the end of the queue.         *)
GatewayCrashAppending ==
  /\ gw.pc # "idle" /\ faults < MaxFaults
  /\ queue' = Append(queue, gw.r) /\ gw' = Idle
  /\ crashes' = crashes + 1 /\ faults' = faults + 1
  /\ UNCHANGED <<calls, sent, dead, owner, phone, conf, server, rc, browser>>

(* Mutant: the delivery was acknowledged when it was taken.                *)
GatewayCrashLosing ==
  /\ gw.pc # "idle" /\ faults < MaxFaults
  /\ gw' = Idle
  /\ crashes' = crashes + 1 /\ faults' = faults + 1
  /\ UNCHANGED <<calls, sent, queue, dead, owner, phone, conf, server, rc,
                 browser>>

(* The broker puts back, in its place, what was not acknowledged.          *)
GatewayCrash ==
  /\ gw.pc # "idle" /\ faults < MaxFaults
  /\ queue' = <<gw.r>> \o queue /\ gw' = Idle
  /\ crashes' = crashes + 1 /\ faults' = faults + 1
  /\ UNCHANGED <<calls, sent, dead, owner, phone, conf, server, rc, browser>>

-----------------------------------------------------------------------------
(* MetaSentConsumer.handleMessageSent.                                     *)

(* Mutant: the confirmation is marked as processed before it is stored.    *)
ExistsMarking(e) ==
  /\ conf[e] = "queue"
  /\ conf' = [conf EXCEPT ![e] = IF e \in processed THEN "done" ELSE "upsert"]
  /\ processed' = processed \cup {e}
  /\ UNCHANGED <<calls, sent, gateway, row, rc, browser, crashes, faults>>

Exists(e) ==
  /\ conf[e] = "queue"
  /\ conf' = [conf EXCEPT ![e] = IF e \in processed THEN "done" ELSE "upsert"]
  /\ UNCHANGED <<calls, sent, gateway, server, rc, browser, crashes, faults>>

UpsertRow(e) ==
  /\ conf[e] = "upsert" /\ conf' = [conf EXCEPT ![e] = "mark"]
  /\ row' = [row EXCEPT ![e] = FirstStatus]
  /\ UNCHANGED <<calls, sent, gateway, processed, rc, browser, crashes, faults>>

MarkProcessed(e) ==
  /\ conf[e] = "mark" /\ conf' = [conf EXCEPT ![e] = "emit"]
  /\ processed' = processed \cup {e}
  /\ UNCHANGED <<calls, sent, gateway, row, rc, browser, crashes, faults>>

(* reconcileSentConfirmation: the bubble moves from the correlation id to  *)
(* the message's, with the highest status heard of.                        *)
Confirmed(e) == Higher(Higher(FirstStatus, pending[e]), screen[e])

(* Mutant: the bubble under the correlation id stays.                      *)
ReconcileKeeping(e) == [screen EXCEPT ![e] = Confirmed(e)]

Reconcile(e) ==
  [screen EXCEPT ![owner[e]] = "none", ![e] = Confirmed(e)]

EmitConfirmed(e) ==
  /\ conf[e] = "emit" /\ conf' = [conf EXCEPT ![e] = "done"]
  /\ screen' = Reconcile(e) /\ pending' = [pending EXCEPT ![e] = "none"]
  /\ UNCHANGED <<calls, sent, gateway, server, rc, crashes, faults>>

-----------------------------------------------------------------------------
(* Receipts: UpdateMessageStatus.                                          *)

Reported(e, s) == rc[e][s] # "none"
NumReports == Cardinality({x \in Ids \X Receipts : Reported(x[1], x[2])})

(* The provider's webhook; a message fails, or is delivered and then read. *)
(* A receipt "sent" changes nothing: the row starts there.                 *)
Report(e, s) ==
  /\ owner[e] # NULL /\ ~Reported(e, s) /\ NumReports < MaxReports
  /\ IF s = "failed" THEN ~Reported(e, "delivered") ELSE ~Reported(e, "failed")
  /\ s = "viewed" => Reported(e, "delivered")
  /\ rc' = [rc EXCEPT ![e][s] = "queue"]
  /\ UNCHANGED <<calls, sent, gateway, conf, server, browser, crashes, faults>>

(* retrieve: without a row it waits and reads again, up to MAX_RETRIES     *)
(* times, and gives up; a status that is not higher is ignored.            *)
ReadRow(e, s) ==
  /\ rc[e][s] = "queue"
  /\ rc' = [rc EXCEPT ![e][s] =
              IF row[e] # "none" /\ Priority[s] > Priority[row[e]]
              THEN "write" ELSE "done"]
  /\ UNCHANGED <<calls, sent, gateway, conf, server, browser, crashes, faults>>

(* upsert writes the whole copy.                                           *)
WriteRow(e, s) ==
  /\ rc[e][s] = "write" /\ rc' = [rc EXCEPT ![e][s] = "emit"]
  /\ row' = [row EXCEPT ![e] = s]
  /\ UNCHANGED <<calls, sent, gateway, conf, processed, browser, crashes, faults>>

(* Mutant: a status for a message that is not shown is not kept.           *)
EmitStatusForgetting(e, s) ==
  /\ rc[e][s] = "emit" /\ rc' = [rc EXCEPT ![e][s] = "done"]
  /\ screen' = [screen EXCEPT ![e] = IF @ = "none" THEN @ ELSE Higher(@, s)]
  /\ UNCHANGED <<calls, sent, gateway, conf, server, pending, crashes, faults>>

(* handleMessageStatusUpdate: raise the bubble, or remember the status     *)
(* until the confirmation comes.                                           *)
EmitStatus(e, s) ==
  /\ rc[e][s] = "emit" /\ rc' = [rc EXCEPT ![e][s] = "done"]
  /\ \/ /\ screen[e] # "none" /\ pending' = [pending EXCEPT ![e] = "none"]
        /\ screen' = [screen EXCEPT ![e] = Higher(@, s)]
     \/ /\ screen[e] = "none" /\ pending' = [pending EXCEPT ![e] = Higher(@, s)]
        /\ UNCHANGED screen
  /\ UNCHANGED <<calls, sent, gateway, conf, server, crashes, faults>>

-----------------------------------------------------------------------------
(* The web process restarts, or one of its queries fails: what was not     *)
(* acknowledged is delivered again.  A browser that connects again forgets *)
(* the statuses it remembered.                                             *)
WebFault == faults < MaxFaults /\ faults' = faults + 1

Redelivered(pc) == IF pc \in {"write", "emit"} THEN "queue" ELSE pc

WebCrash ==
  /\ WebFault
  /\ conf' = [e \in Ids |-> IF conf[e] \in {"upsert", "mark", "emit"}
                            THEN "queue" ELSE conf[e]]
  /\ rc' = [e \in Ids |-> [s \in Receipts |-> Redelivered(rc[e][s])]]
  /\ dead' = dead \cup calls /\ calls' = {}
  /\ pending' = [e \in Ids |-> "none"]
  /\ UNCHANGED <<sent, queue, gw, owner, phone, server, screen, crashes>>

Throw(e) ==
  /\ WebFault
  /\ \/ /\ conf[e] \in {"upsert", "mark", "emit"}
        /\ conf' = [conf EXCEPT ![e] = "queue"] /\ UNCHANGED rc
     \/ /\ \E s \in Receipts :
             /\ rc[e][s] \in {"write", "emit"}
             /\ rc' = [rc EXCEPT ![e][s] = Redelivered(@)]
        /\ UNCHANGED conf
  /\ UNCHANGED <<calls, sent, gateway, server, browser, crashes>>

-----------------------------------------------------------------------------
Gateway == Take \/ SendToApi \/ PublishConfirmation \/ Ack
Confirm(e) == Exists(e) \/ UpsertRow(e) \/ MarkProcessed(e) \/ EmitConfirmed(e)
Raise(e, s) == ReadRow(e, s) \/ WriteRow(e, s) \/ EmitStatus(e, s)

(* Nothing is left to do.                                                  *)
Quiet ==
  /\ calls = {} /\ queue = <<>> /\ gw = Idle
  /\ \A e \in Ids : /\ conf[e] \in {"none", "done"}
                    /\ \A s \in Receipts : rc[e][s] \in {"none", "done"}
  /\ UNCHANGED vars

Next ==
  \/ \E r \in Replies : Send(r) \/ Publish(r)
  \/ Gateway \/ GatewayCrash
  \/ \E e \in Ids : Confirm(e) \/ Throw(e)
  \/ \E e \in Ids, s \in Receipts : Report(e, s) \/ Raise(e, s)
  \/ WebCrash \/ Quiet

Spec == Init /\ [][Next]_vars

(* The event loops go on and the broker delivers.                          *)
Fairness ==
  /\ \A r \in Replies : WF_vars(Publish(r))
  /\ WF_vars(Gateway) /\ \A e \in Ids : WF_vars(Confirm(e))

FairSpec == Spec /\ Fairness

-----------------------------------------------------------------------------
(* Variables have their types.                                             *)
TypeOK ==
  /\ calls \subseteq Replies /\ dead \subseteq Replies
  /\ sent \in Seq(Replies) /\ queue \in Seq(Replies) /\ phone \in Seq(Replies)
  /\ gw \in [pc: {"idle", "send", "confirm", "ack"},
             r: Replies \cup {NULL}, e: Ids \cup {NULL}]
  /\ owner \in [Ids -> Replies \cup {NULL}]
  /\ conf \in [Ids -> ConfPCs] /\ row \in [Ids -> Statuses]
  /\ processed \subseteq Ids
  /\ rc \in [Ids -> [Receipts -> ReceiptPCs]]
  /\ screen \in [Replies \cup Ids -> Statuses] /\ pending \in [Ids -> Statuses]
  /\ crashes \in 0..MaxFaults /\ faults \in 0..MaxFaults

Copies(r) == Cardinality({i \in DOMAIN phone : phone[i] = r})

(* The customer gets a reply twice only when the gateway died before it    *)
(* acknowledged: an API error, also one that hides a success, is not       *)
(* answered by sending again.                                              *)
ResentOnlyAfterCrash == \A r \in Replies : Copies(r) <= 1 + crashes

Place(r) == CHOOSE i \in DOMAIN sent : sent[i] = r

(* Replies reach the customer in the order in which they were published,   *)
(* whatever is dead-lettered or sent again after a crash.                  *)
InOrder ==
  \A i, j \in DOMAIN phone : i < j => Place(phone[i]) <= Place(phone[j])

(* A reply is not shown twice, as the bubble that was being sent and as    *)
(* the stored message, although it may reach the customer twice.           *)
OneBubble ==
  \A e \in Ids :
    owner[e] # NULL /\ screen[e] # "none" => screen[owner[e]] = "none"

(* When the web process has not failed, the screen shows at least the      *)
(* stored status, also when a receipt is emitted before the confirmation   *)
(* or when two are emitted in the wrong order.                             *)
ScreenCatchesUp ==
  \A e \in Ids :
    /\ conf[e] = "done" /\ faults = crashes
    /\ \A s \in Receipts : rc[e][s] # "emit"
    => Priority[screen[e]] >= Priority[row[e]]

(* A published confirmation is stored and marked, whatever fails on the    *)
(* way.                                                                    *)
ConfirmationStored ==
  \A e \in Ids : conf[e] # "none" ~> row[e] # "none" /\ e \in processed

(* Each reply as a queue's item: delivered when the provider has it.       *)
Taken(r) == \E e \in Ids : owner[e] = r
Held(r) == r \in calls \/ gw.r = r \/ \E i \in DOMAIN queue : queue[i] = r
Standing ==
  [r \in Replies |-> IF Taken(r) THEN "delivered"
                     ELSE IF r \in dead THEN "discarded"
                     ELSE IF Held(r) THEN "pending" ELSE "absent"]
Queue == INSTANCE Delivery WITH Items <- Replies, status <- Standing

(* A reply is held by a call, the queue or the gateway until the provider  *)
(* has it or it is dead-lettered or refused; none is forgotten.            *)
NoReplyLost == Queue!Spec

(* Each reply reaches the customer, ends in the dead-letter queue, or was  *)
(* refused by the broker's client.                                         *)
RepliesSettle == Queue!FairSpec

(* "Ignoring regressive status update": a stored status is never lowered.  *)
StatusForward == [][\A e \in Ids : Priority[row'[e]] >= Priority[row[e]]]_vars

=============================================================================
