------------------------------ MODULE Inbound -------------------------------
(***************************************************************************)
(* The messages one customer writes on one channel, from the broker to the *)
(* conversation: RabbitMQConsumerDriver's acknowledgements and dead        *)
(* letters, InboundMessageConsumer's in-memory deduplication, and          *)
(* ProcessInboundMessage with the conversations, messages and processed    *)
(* messages it reads and writes.  A step is one await; a handler runs for  *)
(* each delivery and no prefetch limits how many run at once.  An event    *)
(* reaches the process through the global and the instance queue, so that  *)
(* two deliveries of one message are normal.  What the flow executor does  *)
(* is FlowExecution's; here it may only change the conversation.           *)
(***************************************************************************)
EXTENDS Naturals, FiniteSets

CONSTANTS
  Messages,    \* ids of the customer's messages
  Outbound,    \* ids that the channel's attendants have sent (echoes)
  Slots,       \* deliveries and debounce timers that exist at once
  Convs,       \* ids for conversations
  MaxRetries,  \* maxMessageRetries
  Counted,     \* TRUE: deliveries carry a message id or a delivery count
  MaxEvents,   \* bound on messages sent, ended conversations and faults
  NULL

(* An active conversation is waiting or open; who attends it does not      *)
(* matter here.  act: activeFlowExecutionId is set.                        *)
Status == {"none", "active", "closed", "expired"}
ConvRow == [st: Status, act: BOOLEAN]
NoConv == [st |-> "none", act |-> FALSE]
NewConv == [NoConv EXCEPT !.st = "active"]

ASSUME InboundAssumption ==
  /\ Outbound \subseteq Messages /\ IsFiniteSet(Convs)
  /\ Counted \in BOOLEAN
  /\ MaxRetries \in Nat \ {0} /\ MaxEvents \in Nat
  /\ NULL \notin Messages \cup Convs

VARIABLES
  conv,       \* conv[c]: the conversations row c
  stored,     \* stored[m]: conversation of the messages row m
  twin,       \* twin[m]: conversation of the messages row m:instance
  processed,  \* the processed_messages rows
  recent,     \* recentMessages, in memory
  buffer,     \* flowTriggerBuffer, in memory
  registered, \* the channel is in the database
  arrived,    \* messages the provider has sent
  dropped,    \* messages the dead-letter cron has thrown away
  closes,
  faults,
  d           \* d[k]: a delivery and the handler that works on it

vars == <<conv, stored, twin, processed, recent, buffer, registered, arrived,
          dropped, closes, faults, d>>
rows == <<stored, twin>>
memory == <<recent, buffer>>
world == <<registered, arrived, dropped>>
counts == <<closes, faults>>

(* Labels of a delivery: not there, in the queue, in the dead-letter queue, *)
(* or the await its handler is in.                                          *)
Resting == {"free", "queue", "dlq"}
Triggering == {"retrieve", "flow", "save"}
Running == {"exists", "channel", "skip", "findOpen", "reopen", "reopenRow",
            "reload", "upsert", "adopt", "conflict", "store", "waiting",
            "mark", "ack"} \cup Triggering

(* n: failed attempts; c, cv: the conversation and the handler's copy of   *)
(* it; re: it was reopened; twin: the message gets the id m:instance.      *)
Delivery == [pc: Resting \cup Running, timer: BOOLEAN,
             m: Messages \cup {NULL}, n: 0..(MaxRetries + 1),
             c: Convs \cup {NULL}, cv: ConvRow, re: BOOLEAN, twin: BOOLEAN]
Free == [pc |-> "free", timer |-> FALSE, m |-> NULL, n |-> 0, c |-> NULL,
         cv |-> NoConv, re |-> FALSE, twin |-> FALSE]
Queued(m, n) == [Free EXCEPT !.pc = "queue", !.m = m, !.n = n]

Init ==
  /\ \E st \in {"none", "closed"} :
       conv = [c \in Convs |-> IF c = CHOOSE e \in Convs : TRUE
                               THEN [NoConv EXCEPT !.st = st] ELSE NoConv]
  /\ stored = [m \in Messages |-> NULL] /\ twin = stored
  /\ processed = {} /\ recent = {} /\ buffer = [c \in Convs |-> NULL]
  /\ registered \in BOOLEAN /\ arrived = {} /\ dropped = {}
  /\ closes = 0 /\ faults = 0
  /\ d = [k \in Slots |-> Free]

-----------------------------------------------------------------------------
At(k, label) == d[k].pc = label
Put(k, r) == d' = [d EXCEPT ![k] = r]
Goto(k, label) == Put(k, [d[k] EXCEPT !.pc = label])
Active(c) == conv[c].st = "active"
Eventful == Cardinality(arrived) + closes + faults < MaxEvents
Ended(c) == conv[c].st \in {"closed", "expired"}

(* idx_conversations_unique_open_contact refuses a second active row.      *)
Refused(c) == \E o \in Convs \ {c} : Active(o)

(* Only the acknowledgement is left to do.                                 *)
Finish(k) ==
  Put(k, [Free EXCEPT !.pc = "ack", !.timer = d[k].timer, !.m = d[k].m])

(* The handler returns and the driver acknowledges the delivery.           *)
Done(k) == recent' = recent \cup {d[k].m} /\ Put(k, Free)

(* The handler throws: handleMessageFailure.  Without a message id each    *)
(* redelivery is counted under its own delivery tag.                       *)
Fail(k) ==
  LET total == IF Counted THEN d[k].n + 1 ELSE 1
      n == IF d[k].n > MaxRetries THEN d[k].n ELSE d[k].n + 1
      label == IF total >= MaxRetries THEN "dlq" ELSE "queue" IN
    Put(k, IF d[k].timer THEN Free
           ELSE [Queued(d[k].m, n) EXCEPT !.pc = label])

-----------------------------------------------------------------------------
(* The consumer.                                                           *)

(* Mutant: the message is remembered before it has been processed.         *)
DeliverRemembering(k) ==
  /\ At(k, "queue")
  /\ (d[k].m \in recent /\ Put(k, Free)) \/ Goto(k, "exists")
  /\ recent' = recent \cup {d[k].m}
  /\ UNCHANGED <<conv, rows, processed, buffer, world, counts>>

(* recentMessages is looked at first; its entries last ten seconds.        *)
Deliver(k) ==
  /\ At(k, "queue")
  /\ (d[k].m \in recent /\ Put(k, Free)) \/ Goto(k, "exists")
  /\ UNCHANGED <<conv, rows, processed, memory, world, counts>>

Exists(k) ==
  /\ At(k, "exists")
  /\ IF d[k].m \in processed
     THEN Done(k)
     ELSE Goto(k, "channel") /\ UNCHANGED recent
  /\ UNCHANGED <<conv, rows, processed, buffer, world, counts>>

(* InboundChannelNotFoundError is not retried.                             *)
FindChannel(k) ==
  /\ At(k, "channel")
  /\ IF ~registered THEN Put(k, [Queued(d[k].m, 0) EXCEPT !.pc = "dlq"])
     ELSE Goto(k, IF d[k].m \in Outbound THEN "skip" ELSE "findOpen")
  /\ UNCHANGED <<conv, rows, processed, memory, world, counts>>

(* Mutant: the message is marked under the wrong id.                       *)
SkipMarkingWrong(k) ==
  /\ At(k, "skip")
  /\ processed' = processed \cup {d[k].c} /\ Finish(k)
  /\ UNCHANGED <<conv, rows, memory, world, counts>>

SkipOutbound(k) ==
  /\ At(k, "skip")
  /\ processed' = processed \cup {d[k].m} /\ Finish(k)
  /\ UNCHANGED <<conv, rows, memory, world, counts>>

Ack(k) ==
  /\ At(k, "ack")
  /\ IF d[k].timer THEN Put(k, Free) /\ UNCHANGED recent ELSE Done(k)
  /\ UNCHANGED <<conv, rows, processed, buffer, world, counts>>

-----------------------------------------------------------------------------
(* ProcessInboundMessage.execute: the conversation.                        *)

Take(k, c, label, re) ==
  Put(k, [d[k] EXCEPT !.pc = label, !.c = c, !.cv = conv[c], !.re = re])

Unused == {c \in Convs : conv[c].st = "none" /\ \A k \in Slots : d[k].c # c}

(* Conversation.create: a fresh id, not yet in the database.               *)
Create(k) ==
  /\ Unused # {}
  /\ Put(k, [d[k] EXCEPT !.pc = "upsert", !.c = CHOOSE c \in Unused : TRUE,
                         !.cv = NewConv, !.re = FALSE])

FindOpen(k) ==
  /\ At(k, "findOpen")
  /\ \/ \E c \in Convs : Active(c) /\ Take(k, c, "upsert", FALSE)
     \/ (\A c \in Convs : ~Active(c)) /\ Goto(k, "reopen")
  /\ UNCHANGED <<conv, rows, processed, memory, world, counts>>

(* reopenAtomically: a select and a conditional update.  Which of several  *)
(* ended conversations was closed last is left open.                       *)
SelectEnded(k) ==
  /\ At(k, "reopen")
  /\ \/ \E c \in Convs :
          Ended(c) /\ Put(k, [d[k] EXCEPT !.pc = "reopenRow", !.c = c])
     \/ (\A c \in Convs : ~Ended(c)) /\ Create(k)
  /\ UNCHANGED <<conv, rows, processed, memory, world, counts>>

ReopenRow(k) ==
  /\ At(k, "reopenRow")
  /\ LET c == d[k].c IN
       \/ /\ Ended(c) /\ ~Refused(c)
          /\ conv' = [conv EXCEPT ![c] = NewConv] /\ Goto(k, "reload")
       \/ Ended(c) /\ Refused(c) /\ Fail(k) /\ UNCHANGED conv
       \/ ~Ended(c) /\ Create(k) /\ UNCHANGED conv
  /\ UNCHANGED <<rows, processed, memory, world, counts>>

Reload(k) ==
  /\ At(k, "reload")
  /\ Take(k, d[k].c, "upsert", TRUE)
  /\ UNCHANGED <<conv, rows, processed, memory, world, counts>>

(* ConversationsRepository.upsert writes the whole copy.                   *)
Violates(k) == d[k].cv.st = "active" /\ Refused(d[k].c)
Write(k) == conv' = [conv EXCEPT ![d[k].c] = d[k].cv]

UpsertConv(k) ==
  /\ At(k, "upsert")
  /\ \/ Violates(k) /\ Goto(k, "adopt") /\ UNCHANGED conv
     \/ ~Violates(k) /\ Write(k) /\ Goto(k, "conflict")
  /\ UNCHANGED <<rows, processed, memory, world, counts>>

(* Mutant: the copy keeps the id of the conversation that was refused.     *)
AdoptNothing(k) ==
  /\ At(k, "adopt")
  /\ \/ (\E c \in Convs : Active(c)) /\ Goto(k, "conflict")
     \/ (\A c \in Convs : ~Active(c)) /\ Fail(k)
  /\ UNCHANGED <<conv, rows, processed, memory, world, counts>>

(* The index refused the row: the copy takes the id of the active one.     *)
Adopt(k) ==
  /\ At(k, "adopt")
  /\ \/ \E c \in Convs :
          Active(c) /\ Put(k, [d[k] EXCEPT !.pc = "conflict", !.c = c])
     \/ (\A c \in Convs : ~Active(c)) /\ Fail(k)
  /\ UNCHANGED <<conv, rows, processed, memory, world, counts>>

-----------------------------------------------------------------------------
(* ProcessInboundMessage.execute: the message.                             *)

(* Mutant: any stored row counts as a conflict.                            *)
ConflictAlways(k) ==
  /\ At(k, "conflict")
  /\ Put(k, [d[k] EXCEPT !.pc = "store", !.twin = stored[d[k].m] # NULL])
  /\ UNCHANGED <<conv, rows, processed, memory, world, counts>>

(* existsInDifferentConversation                                           *)
Conflict(k) ==
  /\ At(k, "conflict")
  /\ Put(k, [d[k] EXCEPT !.pc = "store",
                         !.twin = stored[d[k].m] \notin {NULL, d[k].c}])
  /\ UNCHANGED <<conv, rows, processed, memory, world, counts>>

Store(k) ==
  /\ At(k, "store")
  /\ IF d[k].twin
     THEN twin' = [twin EXCEPT ![d[k].m] = d[k].c] /\ UNCHANGED stored
     ELSE stored' = [stored EXCEPT ![d[k].m] = d[k].c] /\ UNCHANGED twin
  /\ Put(k, [d[k] EXCEPT !.pc = IF d[k].re THEN "waiting" ELSE "mark",
                         !.re = FALSE, !.twin = FALSE])
  /\ UNCHANGED <<conv, processed, memory, world, counts>>

EnsureWaiting(k) ==
  /\ At(k, "waiting")
  /\ LET c == d[k].c IN
       \/ /\ conv[c].st = "expired" /\ ~Refused(c)
          /\ conv' = [conv EXCEPT ![c].st = "active"]
          /\ Goto(k, "mark")
       \/ conv[c].st = "expired" /\ Refused(c) /\ Fail(k) /\ UNCHANGED conv
       \/ conv[c].st # "expired" /\ Goto(k, "mark") /\ UNCHANGED conv
  /\ UNCHANGED <<rows, processed, memory, world, counts>>

(* markProcessed, then scheduleFlowTrigger: at once unless a flow runs,    *)
(* else in the buffer, in place of an older message.                       *)
Mark(k) ==
  /\ At(k, "mark")
  /\ processed' = processed \cup {d[k].m}
  /\ IF d[k].cv.act
     THEN buffer' = [buffer EXCEPT ![d[k].c] = d[k].m] /\ Finish(k)
     ELSE Goto(k, "flow") /\ UNCHANGED buffer
  /\ UNCHANGED <<conv, rows, recent, world, counts>>

-----------------------------------------------------------------------------
(* processFlowTrigger, around the flow executor.                           *)

(* The debounce timer fires and reads the conversation again.              *)
Debounce(c) ==
  /\ buffer[c] # NULL
  /\ \E k \in Slots :
       /\ At(k, "free")
       /\ Put(k, [Free EXCEPT !.pc = "retrieve", !.timer = TRUE,
                              !.m = buffer[c], !.c = c])
  /\ buffer' = [buffer EXCEPT ![c] = NULL]
  /\ UNCHANGED <<conv, rows, processed, recent, world, counts>>

Retrieve(k) ==
  /\ At(k, "retrieve")
  /\ IF conv[d[k].c].st = "closed" THEN Put(k, Free)
     ELSE Put(k, [d[k] EXCEPT !.pc = "flow", !.cv = conv[d[k].c]])
  /\ UNCHANGED <<conv, rows, processed, memory, world, counts>>

(* A flow may be claimed, go on or end, and an end node may close; with an *)
(* attendant, before or after it, nothing is saved.                        *)
Flow(k) ==
  /\ At(k, "flow")
  /\ \/ Finish(k) /\ UNCHANGED <<conv, closes>>
     \/ \E act \in BOOLEAN :
          /\ conv' = [conv EXCEPT ![d[k].c].act = act]
          /\ \/ Finish(k) /\ UNCHANGED closes
             \/ /\ Put(k, [d[k] EXCEPT !.pc = "save", !.cv.act = act])
                /\ UNCHANGED closes
             \/ /\ ~act /\ Eventful /\ closes' = closes + 1
                /\ Put(k, [d[k] EXCEPT !.pc = "save", !.cv.act = FALSE,
                                       !.cv.st = "closed"])
  /\ UNCHANGED <<rows, processed, memory, world, faults>>

(* A refused save adopts an id that nothing uses any more.                 *)
Save(k) ==
  /\ At(k, "save")
  /\ IF Violates(k) THEN UNCHANGED conv ELSE Write(k)
  /\ Finish(k)
  /\ UNCHANGED <<rows, processed, memory, world, counts>>

-----------------------------------------------------------------------------
(* The provider, the attendants, the crons and failures.                   *)

(* An event reaches the global queue, the instance's queue or both.        *)
Arrive(m) ==
  /\ m \notin arrived /\ Eventful
  /\ \E K \in SUBSET {k \in Slots : At(k, "free")} :
       /\ Cardinality(K) \in 1..2
       /\ d' = [k \in Slots |-> IF k \in K THEN Queued(m, 0) ELSE d[k]]
  /\ arrived' = arrived \cup {m}
  /\ UNCHANGED <<conv, rows, processed, memory, registered, dropped, counts>>

Register ==
  /\ ~registered /\ registered' = TRUE
  /\ UNCHANGED <<conv, rows, processed, memory, arrived, dropped, counts, d>>

(* Mutant: what the cron takes from the dead-letter queue goes back to it. *)
ReprocessLater(k) ==
  /\ At(k, "dlq")
  /\ Put(k, IF registered THEN d[k] ELSE Free)
  /\ dropped' = IF registered THEN dropped ELSE dropped \cup {d[k].m}
  /\ UNCHANGED <<conv, rows, processed, memory, registered, arrived, counts>>

(* The dead-letter cron publishes a message again, with fresh headers, or  *)
(* drops it when its channel is not there.                                 *)
Reprocess(k) ==
  /\ At(k, "dlq")
  /\ Put(k, IF registered THEN Queued(d[k].m, 0) ELSE Free)
  /\ dropped' = IF registered THEN dropped ELSE dropped \cup {d[k].m}
  /\ UNCHANGED <<conv, rows, processed, memory, registered, arrived, counts>>

(* assignAtomically; refused by the index when another row is active.      *)
Assign(c) ==
  /\ conv[c].st # "none" /\ ~Refused(c)
  /\ conv' = [conv EXCEPT ![c] = NewConv]
  /\ UNCHANGED <<rows, processed, memory, world, counts, d>>

End(c) ==
  /\ Active(c) /\ Eventful
  /\ \E st \in {"closed", "expired"} :
       conv' = [conv EXCEPT ![c].st = st, ![c].act = FALSE]
  /\ closes' = closes + 1
  /\ UNCHANGED <<rows, processed, memory, world, faults, d>>

Fault == Eventful /\ faults' = faults + 1

(* A query fails; processFlowTrigger swallows its errors.                  *)
Throw(k) ==
  /\ d[k].pc \in Running \ {"ack"} /\ Fault
  /\ IF d[k].pc \in {"flow", "save"} THEN Finish(k) ELSE Fail(k)
  /\ UNCHANGED <<conv, rows, processed, memory, world, closes>>

(* The process dies: the broker delivers again what was not acknowledged.  *)
Crash ==
  /\ Fault
  /\ d' = [k \in Slots |->
             IF d[k].pc \in Resting THEN d[k]
             ELSE IF d[k].timer THEN Free ELSE Queued(d[k].m, d[k].n)]
  /\ recent' = {} /\ buffer' = [c \in Convs |-> NULL]
  /\ UNCHANGED <<conv, rows, processed, world, closes>>

-----------------------------------------------------------------------------
Handle(k) ==
  \/ Exists(k) \/ FindChannel(k) \/ SkipOutbound(k) \/ Ack(k)
  \/ FindOpen(k) \/ SelectEnded(k) \/ ReopenRow(k) \/ Reload(k)
  \/ UpsertConv(k) \/ Adopt(k) \/ Conflict(k) \/ Store(k)
  \/ EnsureWaiting(k) \/ Mark(k)
  \/ Retrieve(k) \/ Flow(k) \/ Save(k)

(* Nothing more may happen and nothing is left to do.                      *)
Quiet ==
  /\ ~Eventful /\ \A k \in Slots : At(k, "free")
  /\ UNCHANGED vars

Next ==
  \/ \E k \in Slots : Deliver(k) \/ Handle(k) \/ Reprocess(k) \/ Throw(k)
  \/ \E c \in Convs : Debounce(c) \/ Assign(c) \/ End(c)
  \/ \E m \in Messages : Arrive(m)
  \/ Register \/ Crash \/ Quiet

Spec == Init /\ [][Next]_vars

(* The broker delivers, the event loop carries a handler on, timers fire   *)
(* and the cron comes round.                                               *)
Fairness ==
  /\ \A k \in Slots : WF_vars(Deliver(k)) /\ WF_vars(Handle(k))
                      /\ WF_vars(Reprocess(k))
  /\ \A c \in Convs : WF_vars(Debounce(c))

FairSpec == Spec /\ Fairness

-----------------------------------------------------------------------------
(* Rows, messages and copies have their types.                             *)
TypeOK ==
  /\ conv \in [Convs -> ConvRow]
  /\ stored \in [Messages -> Convs \cup {NULL}]
  /\ twin \in [Messages -> Convs \cup {NULL}]
  /\ processed \subseteq Messages /\ recent \subseteq Messages
  /\ buffer \in [Convs -> Messages \cup {NULL}]
  /\ registered \in BOOLEAN
  /\ arrived \subseteq Messages /\ dropped \subseteq Messages
  /\ closes \in 0..MaxEvents /\ faults \in 0..MaxEvents
  /\ d \in [Slots -> Delivery]

(* A message row belongs to a conversation that exists, although the       *)
(* handler may have stored a copy whose insert the index refused.          *)
StoredInConversation ==
  \A m \in Messages :
    /\ stored[m] # NULL => conv[stored[m]].st # "none"
    /\ twin[m] # NULL => conv[twin[m]].st # "none"

(* While no conversation is ended, a customer has one conversation and a   *)
(* message delivered twice, even at once, is stored once.                  *)
SameConversation ==
  closes = 0 =>
    /\ \A b, c \in Convs :
         conv[b].st # "none" /\ conv[c].st # "none" => b = c
    /\ \A m \in Messages : twin[m] = NULL

(* A message is tried at most maxMessageRetries times before it goes to    *)
(* the dead-letter queue: "Message sent to DLQ after N retries".           *)
RetriesBounded == \A k \in Slots : d[k].n <= MaxRetries

Settled(m) == stored[m] # NULL \/ m \in processed
Held(m) == \E k \in Slots : d[k].m = m /\ ~At(k, "free") /\ ~d[k].timer

(* Each message as a queue's item: delivered when it is stored or known.   *)
Standing ==
  [m \in Messages |-> IF Settled(m) THEN "delivered"
                      ELSE IF m \in dropped THEN "discarded"
                      ELSE IF Held(m) THEN "pending" ELSE "absent"]
Queue == INSTANCE Delivery WITH Items <- Messages, status <- Standing

(* Every message the provider sent is stored, or held by the broker or a   *)
(* handler, until its channel turns out not to exist: no crash, failed     *)
(* query, duplicate or deduplication loses one.                            *)
NeverLost == Queue!Spec

(* Every message is eventually stored, or dropped with its channel.        *)
EventuallyStored == Queue!FairSpec

=============================================================================
