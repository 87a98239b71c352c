---------------------------- MODULE InboundProofs ----------------------------
(***************************************************************************)
(* Proofs about Inbound, for any messages, deliveries at once, retries and *)
(* events:                                                                 *)
(*   InboundTypes          every variable keeps its type,                  *)
(*   StoredWhereItBelongs  a message row has its conversation,             *)
(*   OneConversation       while nothing is closed, one conversation and   *)
(*                         one row for each message.                       *)
(* InboundRefinement uses the same invariant.                              *)
(***************************************************************************)
EXTENDS Inbound, FiniteSetTheorems, TLAPS

Known == {m \in Messages : Settled(m)}

(* The labels behind the upsert of the conversation.                       *)
After == {"conflict", "store", "waiting", "mark", "flow", "save"}

(* What the label of a delivery x says, given the conversations cn, the    *)
(* messages ar that arrived and those kn that are known.                   *)
Local(x, cn, ar, kn) ==
  /\ x.pc # "free" => x.m \in Messages
  /\ x.pc # "free" /\ ~x.timer => x.m \in ar
  /\ x.timer => x.pc \in {"retrieve", "flow", "save", "ack"}
  /\ x.pc = "retrieve" => x.timer
  /\ ~x.timer /\ x.pc \in {"waiting", "mark", "flow", "save", "ack"} =>
       x.m \in kn
  /\ x.twin => x.m \in kn
  /\ x.pc \in After \cup {"reopenRow", "reload", "upsert", "adopt", "retrieve"}
       => x.c \in Convs
  /\ x.pc \in After \cup {"reopenRow", "reload", "retrieve"} =>
       cn[x.c].st # "none"
  /\ x.pc \in After \cup {"upsert", "adopt"} => x.cv.st # "none"

(* And while no conversation has been ended.                               *)
Alone(x, cn) ==
  /\ x.pc \in After \cup {"reload", "retrieve"} => cn[x.c].st = "active"
  /\ x.pc \in After \cup {"upsert", "adopt"} => x.cv.st = "active"
  /\ x.pc = "upsert" => \/ cn[x.c].st = "active"
                        \/ \A o \in Convs : cn[o].st \in {"none", "active"}
  /\ ~x.twin

SlotOK(x, cn, ar, kn, cl) == Local(x, cn, ar, kn) /\ (cl = 0 => Alone(x, cn))

BufferOK ==
  \A c \in Convs : buffer[c] # NULL =>
    conv[c].st # "none" /\ (closes = 0 => conv[c].st = "active")

DataOK ==
  /\ IsFiniteSet(arrived) /\ StoredInConversation /\ SameConversation
  /\ recent \subseteq Known /\ Known \subseteq arrived /\ dropped \subseteq arrived
  /\ BufferOK

Inv ==
  /\ TypeOK /\ DataOK
  /\ \A k \in Slots : SlotOK(d[k], conv, arrived, Known, closes)

(* What every step does to the stored data.                                *)
TypesButSlots ==
  /\ conv' \in [Convs -> ConvRow]
  /\ stored' \in [Messages -> Convs \cup {NULL}]
  /\ twin' \in [Messages -> Convs \cup {NULL}]
  /\ processed' \subseteq Messages /\ recent' \subseteq Messages
  /\ buffer' \in [Convs -> Messages \cup {NULL}]
  /\ registered' \in BOOLEAN
  /\ arrived' \subseteq Messages /\ dropped' \subseteq Messages
  /\ closes' \in 0..MaxEvents /\ faults' \in 0..MaxEvents

Grows ==
  /\ arrived \subseteq arrived' /\ Known \subseteq Known'
  /\ \A c \in Convs : conv[c].st # "none" => conv'[c].st # "none"
  /\ closes' = 0 =>
       /\ closes = 0
       /\ \A c \in Convs : conv[c].st = "active" => conv'[c].st = "active"
       /\ \A c \in Convs : conv[c].st = "none" => conv'[c].st \in {"none", "active"}

DataStep == TypesButSlots /\ DataOK' /\ Grows

-----------------------------------------------------------------------------
LEMMA FreeOK ==
  ASSUME NEW cn, NEW ar, NEW kn, NEW cl
  PROVE  Free \in Delivery /\ SlotOK(Free, cn, ar, kn, cl)
<1>1. NoConv \in ConvRow
  BY DEF NoConv, ConvRow, Status
<1>2. 0 \in 0..(MaxRetries + 1)
  BY InboundAssumption
<1>3. Free \in Delivery
  BY <1>1, <1>2 DEF Free, Delivery, Resting
<1> QED
  BY <1>3 DEF Free, SlotOK, Local, Alone, After

LEMMA QueuedOK ==
  ASSUME NEW m \in Messages, NEW n \in 0..(MaxRetries + 1),
         NEW l \in {"queue", "dlq"},
         NEW cn, NEW ar, NEW kn, NEW cl, m \in ar
  PROVE  LET x == [Queued(m, n) EXCEPT !.pc = l] IN
           /\ x \in Delivery /\ SlotOK(x, cn, ar, kn, cl)
           /\ x.m = m /\ x.pc = l /\ ~x.timer
           /\ l = "queue" => x = Queued(m, n)
<1>1. NoConv \in ConvRow
  BY DEF NoConv, ConvRow, Status
<1> DEFINE x == [Queued(m, n) EXCEPT !.pc = l]
<1>2. /\ x.pc = l /\ x.m = m /\ x.n = n /\ x.timer = FALSE /\ x.c = NULL
      /\ x.cv = NoConv /\ x.re = FALSE /\ x.twin = FALSE
      /\ Free \in Delivery /\ x \in Delivery
  BY FreeOK, <1>1 DEF Queued, Free, Delivery, Resting
<1>4. l = "queue" => x = Queued(m, n)
  BY FreeOK DEF Queued, Delivery
<1> QED
  BY <1>2, <1>4 DEF SlotOK, Local, Alone, After

LEMMA QueuedPlain ==
  ASSUME NEW m \in Messages, NEW n \in 0..(MaxRetries + 1),
         NEW cn, NEW ar, NEW kn, NEW cl, m \in ar
  PROVE  /\ Queued(m, n) \in Delivery /\ SlotOK(Queued(m, n), cn, ar, kn, cl)
         /\ Queued(m, n).m = m /\ Queued(m, n).pc = "queue"
         /\ ~Queued(m, n).timer
<1>1. "queue" \in {"queue", "dlq"}
  OBVIOUS
<1> DEFINE x == [Queued(m, n) EXCEPT !.pc = "queue"]
<1>2. /\ x \in Delivery /\ SlotOK(x, cn, ar, kn, cl)
      /\ x.m = m /\ x.pc = "queue" /\ ~x.timer
      /\ x = Queued(m, n)
  BY <1>1, QueuedOK
<1> HIDE DEF x
<1> QED
  BY <1>2

LEMMA Here ==
  ASSUME Inv, NEW k \in Slots
  PROVE  d[k] \in Delivery /\ SlotOK(d[k], conv, arrived, Known, closes)
  BY DEF Inv, TypeOK

LEMMA InitInv == Init => Inv
<1> SUFFICES ASSUME Init PROVE Inv
  OBVIOUS
<1>1. Known = {} /\ arrived = {} /\ recent = {} /\ dropped = {}
  BY DEF Init, Known, Settled
<1>2. NoConv \in ConvRow /\ [NoConv EXCEPT !.st = "none"] \in ConvRow
        /\ [NoConv EXCEPT !.st = "closed"] \in ConvRow
  BY DEF NoConv, ConvRow, Status
<1>3. conv \in [Convs -> ConvRow]
  BY <1>2 DEF Init
<1>4. ASSUME NEW b \in Convs, NEW c \in Convs,
             conv[b].st # "none", conv[c].st # "none"
      PROVE  b = c
  <2> DEFINE first == CHOOSE e \in Convs : TRUE
  <2>1. ASSUME NEW o \in Convs, o # first PROVE conv[o] = NoConv
    <3> HIDE DEF first
    <3> QED
      BY <2>1 DEF Init, first
  <2>2. NoConv.st = "none"
    BY DEF NoConv
  <2> HIDE DEF first
  <2> QED
    BY <1>4, <2>1, <2>2
<1>5. TypeOK
  BY <1>1, <1>3, FreeOK, InboundAssumption DEF Init, TypeOK
<1>6. IsFiniteSet(arrived)
  BY <1>1, FS_EmptySet
<1>7. DataOK
  BY <1>1, <1>4, <1>6 DEF DataOK, Init, StoredInConversation, SameConversation, BufferOK
<1>8. \A k \in Slots : SlotOK(d[k], conv, arrived, Known, closes)
  BY FreeOK DEF Init
<1> QED
  BY <1>5, <1>7, <1>8 DEF Inv

(* A slot that a step does not touch.                                      *)
LEMMA Untouched ==
  ASSUME Inv, DataStep, NEW x \in Delivery,
         SlotOK(x, conv, arrived, Known, closes)
  PROVE  SlotOK(x, conv', arrived', Known', closes')
<1>1. Local(x, conv', arrived', Known')
  BY DEF SlotOK, Local, DataStep, Grows, After
<1>2. ASSUME closes' = 0 PROVE Alone(x, conv')
  <2>1. closes = 0 /\ Alone(x, conv) /\ Local(x, conv, arrived, Known)
    BY <1>2 DEF SlotOK, DataStep, Grows
  <2>2. x.pc \in After \cup {"reload", "retrieve"} => conv'[x.c].st = "active"
    BY <1>2, <2>1 DEF Alone, Local, DataStep, Grows
  <2>3. x.pc = "upsert" => \/ conv'[x.c].st = "active"
                           \/ \A o \in Convs : conv'[o].st \in {"none", "active"}
    BY <1>2, <2>1 DEF Alone, Local, DataStep, Grows, After
  <2> QED
    BY <2>1, <2>2, <2>3 DEF Alone
<1> QED
  BY <1>1, <1>2 DEF SlotOK

(* A step that changes one slot and keeps the data in order.               *)
LEMMA PutInv ==
  ASSUME Inv, NEW k \in Slots, NEW x \in Delivery, Put(k, x), DataStep,
         SlotOK(x, conv', arrived', Known', closes')
  PROVE  Inv'
<1>1. d' = [d EXCEPT ![k] = x] /\ d \in [Slots -> Delivery]
  BY DEF Inv, TypeOK, Put
<1>2. TypeOK'
  BY <1>1 DEF TypeOK, DataStep, TypesButSlots
<1>3. ASSUME NEW q \in Slots
      PROVE  SlotOK(d'[q], conv', arrived', Known', closes')
  <2>1. CASE q = k
    BY <2>1, <1>1
  <2>2. CASE q # k
    BY <2>2, <1>1, Here, Untouched
  <2> QED
    BY <2>1, <2>2
<1> QED
  BY <1>2, <1>3 DEF Inv, DataStep

-----------------------------------------------------------------------------
(* Steps of the data.                                                      *)

LEMMA SameData ==
  ASSUME Inv, UNCHANGED <<conv, rows, processed, memory, world, counts>>
  PROVE  DataStep /\ Known' = Known
<1>1. Known' = Known
  BY DEF rows, Known, Settled
<1> QED
  BY <1>1 DEF Inv, TypeOK, DataStep, TypesButSlots, Grows, DataOK, BufferOK, rows,
    memory, world, counts, StoredInConversation, SameConversation

(* A message becomes known, is remembered or buffered.                     *)
LEMMA MarkData ==
  ASSUME Inv, UNCHANGED <<conv, rows, world, counts>>,
         NEW m \in Messages, m \in arrived,
         processed' \in {processed, processed \cup {m}},
         recent' \in {recent, recent \cup {m}}, recent' # recent => m \in Known',
         buffer' \in [Convs -> Messages \cup {NULL}], BufferOK'
  PROVE  DataStep
<1>1. Known \subseteq Known' /\ Known' \subseteq Known \cup {m}
  BY DEF rows, Known, Settled
<1>2. DataOK'
  BY <1>1 DEF Inv, DataOK, rows, world, counts, StoredInConversation,
    SameConversation
<1>3. TypesButSlots
  BY DEF Inv, TypeOK, TypesButSlots, rows, world, counts
<1>4. Grows
  BY <1>1 DEF Grows, world, counts, Inv, TypeOK
<1> QED
  BY <1>2, <1>3, <1>4 DEF DataStep

(* A conversation is written.                                              *)
LEMMA ConvData ==
  ASSUME Inv, NEW c \in Convs, NEW r \in ConvRow, r.st # "none",
         conv' = [conv EXCEPT ![c] = r],
         UNCHANGED <<rows, processed, memory, world, faults>>,
         closes' \in 0..MaxEvents,
         closes' = 0 => /\ closes = 0 /\ r.st = "active"
                        /\ \/ conv[c].st # "none"
                           \/ \A o \in Convs : conv[o].st = "none"
  PROVE  DataStep /\ Known' = Known
<1>1. Known' = Known
  BY DEF rows, Known, Settled
<1>2. conv \in [Convs -> ConvRow]
  BY DEF Inv, TypeOK
<1>3. TypesButSlots
  BY <1>2 DEF Inv, TypeOK, TypesButSlots, rows, memory, world
<1>4. Grows
  BY <1>1, <1>2 DEF Grows, world
<1>5. StoredInConversation'
  BY <1>2 DEF Inv, TypeOK, DataOK, StoredInConversation, rows
<1>6. SameConversation'
  <2> SUFFICES ASSUME closes' = 0
      PROVE  /\ \A a, b \in Convs :
                  conv'[a].st # "none" /\ conv'[b].st # "none" => a = b
             /\ \A m \in Messages : twin'[m] = NULL
    BY DEF SameConversation
  <2> QED
    BY <1>2 DEF Inv, DataOK, SameConversation, rows
<1>7. BufferOK'
  BY <1>2 DEF Inv, DataOK, BufferOK, memory
<1> QED
  BY <1>1, <1>3, <1>4, <1>5, <1>6, <1>7 DEF DataStep, DataOK, Inv, memory, world

-----------------------------------------------------------------------------
(* How a handler ends.                                                     *)

LEMMA FreeInv ==
  ASSUME Inv, NEW k \in Slots, Put(k, Free), DataStep PROVE Inv'
  BY FreeOK, PutInv

LEMMA FinishInv ==
  ASSUME Inv, NEW k \in Slots, Finish(k), DataStep, d[k].pc # "free",
         d[k].timer => d[k].pc \in {"retrieve", "flow", "save", "ack"},
         ~d[k].timer => d[k].m \in Known'
  PROVE  Inv'
<1> DEFINE x == [Free EXCEPT !.pc = "ack", !.timer = d[k].timer, !.m = d[k].m]
<1>1. d[k].m \in Messages /\ d[k].timer \in BOOLEAN
  BY Here DEF SlotOK, Local, Delivery
<1>2. x.pc = "ack" /\ x.m = d[k].m /\ x.timer = d[k].timer /\ x.twin = FALSE
        /\ x \in Delivery
  BY <1>1, FreeOK DEF Delivery, Running, Free
<1>3. SlotOK(x, conv', arrived', Known', closes')
  <2>1. Local(x, conv', arrived', Known')
    BY <1>1, <1>2, Here DEF SlotOK, Local, After, DataStep, Grows
  <2>2. Alone(x, conv')
    BY <1>2 DEF Alone, After
  <2> QED
    BY <2>1, <2>2 DEF SlotOK
<1>4. Put(k, x)
  BY DEF Finish
<1> QED
  BY <1>2, <1>3, <1>4, PutInv

LEMMA FailInv ==
  ASSUME Inv, NEW k \in Slots, Fail(k), DataStep, d[k].pc # "free"
  PROVE  Inv'
<1>1. PICK n \in 0..(MaxRetries + 1), l \in {"queue", "dlq"} :
        Put(k, IF d[k].timer THEN Free ELSE [Queued(d[k].m, n) EXCEPT !.pc = l])
  <2>1. d[k].n \in 0..(MaxRetries + 1)
    BY Here DEF Delivery
  <2>2. (IF d[k].n > MaxRetries THEN d[k].n ELSE d[k].n + 1) \in 0..(MaxRetries + 1)
    BY <2>1, InboundAssumption
  <2> QED
    BY <2>2 DEF Fail
<1>2. CASE d[k].timer
  BY <1>1, <1>2, FreeInv
<1>3. CASE ~d[k].timer
  <2>1. d[k].m \in Messages /\ d[k].m \in arrived'
    BY <1>3, Here DEF SlotOK, Local, DataStep, Grows
  <2> DEFINE x == [Queued(d[k].m, n) EXCEPT !.pc = l]
  <2>2. x \in Delivery /\ SlotOK(x, conv', arrived', Known', closes')
    BY <2>1, QueuedOK
  <2> QED
    BY <1>1, <1>3, <2>2, PutInv
<1> QED
  BY <1>2, <1>3

-----------------------------------------------------------------------------
(* The consumer's actions.                                                 *)

(* A delivery that only moves on, with what its new label needs.           *)
LEMMA MoveInv ==
  ASSUME Inv, NEW k \in Slots, NEW x \in Delivery, Put(k, x),
         UNCHANGED <<conv, rows, processed, memory, world, counts>>,
         SlotOK(x, conv, arrived, Known, closes)
  PROVE  Inv'
<1>1. DataStep /\ Known' = Known
  BY SameData
<1>2. SlotOK(x, conv', arrived', Known', closes')
  BY <1>1 DEF world, counts
<1> QED
  BY <1>1, <1>2, PutInv

LEMMA DoneData ==
  ASSUME Inv, NEW k \in Slots, d[k].m \in Known,
         recent' = recent \cup {d[k].m},
         UNCHANGED <<conv, rows, processed, buffer, world, counts>>
  PROVE  DataStep
<1>1. d[k].m \in Messages /\ d[k].m \in arrived /\ Known' = Known
  BY DEF Inv, DataOK, Known, Settled, rows
<1>2. BufferOK' /\ buffer' \in [Convs -> Messages \cup {NULL}]
  BY DEF Inv, TypeOK, DataOK, BufferOK, counts
<1> QED
  BY <1>1, <1>2, MarkData

LEMMA DeliverKept ==
  ASSUME Inv, NEW k \in Slots, Deliver(k) PROVE Inv'
<1>1. DataStep
  BY SameData DEF Deliver
<1> DEFINE x == [d[k] EXCEPT !.pc = "exists"]
<1>2. x \in Delivery /\ SlotOK(x, conv, arrived, Known, closes)
  BY Here DEF Deliver, At, Delivery, Running, SlotOK, Local, Alone, After
<1>3. CASE Put(k, Free)
  BY <1>1, <1>3, FreeInv
<1>4. CASE Put(k, x)
  BY <1>2, <1>4, MoveInv DEF Deliver
<1> QED
  BY <1>3, <1>4 DEF Deliver, Goto

LEMMA ExistsKept ==
  ASSUME Inv, NEW k \in Slots, Exists(k) PROVE Inv'
<1>1. CASE d[k].m \in processed
  <2>1. d[k].m \in Known
    BY <1>1 DEF Inv, TypeOK, Known, Settled
  <2>2. DataStep
    BY <1>1, <2>1, DoneData DEF Exists, Done
  <2> QED
    BY <1>1, <2>2, FreeInv DEF Exists, Done
<1>2. CASE d[k].m \notin processed
  <2> DEFINE x == [d[k] EXCEPT !.pc = "channel"]
  <2>1. x \in Delivery /\ SlotOK(x, conv, arrived, Known, closes)
    BY Here DEF Exists, At, Delivery, Running, SlotOK, Local, Alone, After
  <2> QED
    BY <1>2, <2>1, MoveInv DEF Exists, Goto, memory
<1> QED
  BY <1>1, <1>2

LEMMA FindChannelKept ==
  ASSUME Inv, NEW k \in Slots, FindChannel(k) PROVE Inv'
<1>0. d[k].pc = "channel" /\ ~d[k].timer /\ d[k].m \in Messages
        /\ d[k].m \in arrived
  BY Here DEF FindChannel, At, SlotOK, Local
<1>1. CASE ~registered
  <2> DEFINE x == [Queued(d[k].m, 0) EXCEPT !.pc = "dlq"]
  <2>1. 0 \in 0..(MaxRetries + 1)
    BY InboundAssumption
  <2>2. x \in Delivery /\ SlotOK(x, conv, arrived, Known, closes)
    BY <1>0, <2>1, QueuedOK
  <2> QED
    BY <1>1, <2>2, MoveInv DEF FindChannel
<1>2. CASE registered
  <2> DEFINE x(l) == [d[k] EXCEPT !.pc = l]
  <2>1. \A l \in {"skip", "findOpen"} :
          x(l) \in Delivery /\ SlotOK(x(l), conv, arrived, Known, closes)
    BY <1>0, Here DEF Delivery, Running, SlotOK, Local, Alone, After
  <2> QED
    BY <1>2, <2>1, MoveInv DEF FindChannel, Goto
<1> QED
  BY <1>1, <1>2

LEMMA SkipOutboundKept ==
  ASSUME Inv, NEW k \in Slots, SkipOutbound(k) PROVE Inv'
<1>1. d[k].pc = "skip" /\ ~d[k].timer /\ d[k].m \in Messages
        /\ d[k].m \in arrived
  BY Here DEF SkipOutbound, At, SlotOK, Local
<1>2. d[k].m \in Known'
  BY <1>1 DEF SkipOutbound, Known, Settled
<1>3. BufferOK' /\ buffer' \in [Convs -> Messages \cup {NULL}]
  BY DEF SkipOutbound, Inv, TypeOK, DataOK, BufferOK, counts, memory
<1>4. DataStep
  BY <1>1, <1>3, MarkData DEF SkipOutbound, memory
<1> QED
  BY <1>1, <1>2, <1>4, FinishInv DEF SkipOutbound

LEMMA AckKept ==
  ASSUME Inv, NEW k \in Slots, Ack(k) PROVE Inv'
<1>1. CASE d[k].timer
  <2>1. DataStep
    BY <1>1, SameData DEF Ack, memory
  <2> QED
    BY <1>1, <2>1, FreeInv DEF Ack
<1>2. CASE ~d[k].timer
  <2>1. d[k].m \in Known
    BY <1>2, Here DEF Ack, At, SlotOK, Local
  <2>2. DataStep
    BY <1>2, <2>1, DoneData DEF Ack, Done
  <2> QED
    BY <1>2, <2>2, FreeInv DEF Ack, Done
<1> QED
  BY <1>1, <1>2

-----------------------------------------------------------------------------
(* Finding the conversation.                                               *)

LEMMA CreateInv ==
  ASSUME Inv, NEW k \in Slots, Create(k), d[k].pc # "free", ~d[k].timer,
         UNCHANGED <<conv, rows, processed, memory, world, counts>>,
         closes = 0 => \A o \in Convs : conv[o].st \in {"none", "active"}
  PROVE  Inv'
<1>1. PICK c \in Convs :
        Put(k, [d[k] EXCEPT !.pc = "upsert", !.c = c, !.cv = NewConv, !.re = FALSE])
  BY DEF Create, Unused
<1> DEFINE x == [d[k] EXCEPT !.pc = "upsert", !.c = c, !.cv = NewConv, !.re = FALSE]
<1>2. NewConv \in ConvRow /\ NewConv.st = "active"
  BY DEF NewConv, NoConv, ConvRow, Status
<1>3. x \in Delivery /\ SlotOK(x, conv, arrived, Known, closes)
  BY <1>2, Here DEF Delivery, Running, SlotOK, Local, Alone, After
<1> QED
  BY <1>1, <1>3, MoveInv

LEMMA TakeInv ==
  ASSUME Inv, NEW k \in Slots, NEW c \in Convs, NEW re \in BOOLEAN,
         Take(k, c, "upsert", re), d[k].pc # "free", ~d[k].timer,
         conv[c].st # "none", closes = 0 => conv[c].st = "active",
         UNCHANGED <<conv, rows, processed, memory, world, counts>>
  PROVE  Inv'
<1> DEFINE x == [d[k] EXCEPT !.pc = "upsert", !.c = c, !.cv = conv[c], !.re = re]
<1>1. conv[c] \in ConvRow
  BY DEF Inv, TypeOK
<1>2. x \in Delivery /\ SlotOK(x, conv, arrived, Known, closes)
  BY <1>1, Here DEF Delivery, Running, SlotOK, Local, Alone, After
<1> QED
  BY <1>2, MoveInv DEF Take

LEMMA FindOpenKept ==
  ASSUME Inv, NEW k \in Slots, FindOpen(k) PROVE Inv'
<1>0. d[k].pc = "findOpen" /\ ~d[k].timer
  BY Here DEF FindOpen, At, SlotOK, Local
<1>1. ASSUME NEW c \in Convs, Active(c), Take(k, c, "upsert", FALSE) PROVE Inv'
  BY <1>0, <1>1, TakeInv DEF FindOpen, Active
<1>2. CASE Goto(k, "reopen")
  <2> DEFINE x == [d[k] EXCEPT !.pc = "reopen"]
  <2>1. x \in Delivery /\ SlotOK(x, conv, arrived, Known, closes)
    BY <1>0, Here DEF Delivery, Running, SlotOK, Local, Alone, After
  <2> QED
    BY <1>2, <2>1, MoveInv DEF FindOpen, Goto
<1> QED
  BY <1>1, <1>2 DEF FindOpen

LEMMA SelectEndedKept ==
  ASSUME Inv, NEW k \in Slots, SelectEnded(k) PROVE Inv'
<1>0. d[k].pc = "reopen" /\ ~d[k].timer
  BY Here DEF SelectEnded, At, SlotOK, Local
<1>1. ASSUME NEW c \in Convs, Ended(c),
             Put(k, [d[k] EXCEPT !.pc = "reopenRow", !.c = c])
      PROVE  Inv'
  <2> DEFINE x == [d[k] EXCEPT !.pc = "reopenRow", !.c = c]
  <2>1. x \in Delivery /\ SlotOK(x, conv, arrived, Known, closes)
    BY <1>0, <1>1, Here DEF Delivery, Running, SlotOK, Local, Alone, After, Ended
  <2> QED
    BY <1>1, <2>1, MoveInv DEF SelectEnded
<1>2. ASSUME \A c \in Convs : ~Ended(c), Create(k) PROVE Inv'
  <2>1. \A c \in Convs : conv[c].st \in {"none", "active"}
    BY <1>2 DEF Ended, Inv, TypeOK, ConvRow, Status
  <2> QED
    BY <1>0, <1>2, <2>1, CreateInv DEF SelectEnded
<1> QED
  BY <1>1, <1>2 DEF SelectEnded

LEMMA ReopenRowKept ==
  ASSUME Inv, NEW k \in Slots, ReopenRow(k) PROVE Inv'
<1> DEFINE c == d[k].c
<1>0. d[k].pc = "reopenRow" /\ ~d[k].timer /\ c \in Convs /\ conv[c].st # "none"
  BY Here DEF ReopenRow, At, SlotOK, Local
<1>1. CASE /\ conv' = [conv EXCEPT ![c] = NewConv] /\ Goto(k, "reload")
  <2>1. NewConv \in ConvRow /\ NewConv.st = "active"
    BY DEF NewConv, NoConv, ConvRow, Status
  <2>2. closes' = closes /\ closes' \in 0..MaxEvents /\ faults' = faults
    BY DEF ReopenRow, counts, Inv, TypeOK
  <2>3. DataStep /\ Known' = Known
    BY <1>0, <1>1, <2>1, <2>2, ConvData DEF ReopenRow
  <2> DEFINE x == [d[k] EXCEPT !.pc = "reload"]
  <2>4. conv'[c].st = "active"
    BY <1>0, <1>1, <2>1 DEF Inv, TypeOK
  <2>5. x \in Delivery /\ SlotOK(x, conv', arrived', Known', closes')
    BY <1>0, <2>2, <2>3, <2>4, Here
      DEF Delivery, Running, SlotOK, Local, Alone, After, ReopenRow, world
  <2> QED
    BY <1>1, <2>3, <2>5, PutInv DEF Goto
<1>2. CASE Fail(k) /\ UNCHANGED conv
  <2>1. DataStep
    BY <1>2, SameData DEF ReopenRow
  <2> QED
    BY <1>0, <1>2, <2>1, FailInv
<1>3. CASE ~Ended(c) /\ Create(k) /\ UNCHANGED conv
  <2>1. ASSUME closes = 0, NEW o \in Convs PROVE conv[o].st \in {"none", "active"}
    <3>1. conv[c].st = "active"
      BY <1>0, <1>3 DEF Ended, Inv, TypeOK, ConvRow, Status
    <3> QED
      BY <1>0, <2>1, <3>1 DEF Inv, DataOK, SameConversation
  <2> QED
    BY <1>0, <1>3, <2>1, CreateInv DEF ReopenRow
<1> QED
  BY <1>1, <1>2, <1>3 DEF ReopenRow

LEMMA ReloadKept ==
  ASSUME Inv, NEW k \in Slots, Reload(k) PROVE Inv'
<1>0. /\ d[k].pc = "reload" /\ ~d[k].timer /\ d[k].c \in Convs
      /\ conv[d[k].c].st # "none" /\ (closes = 0 => conv[d[k].c].st = "active")
  BY Here DEF Reload, At, SlotOK, Local, Alone
<1> QED
  BY <1>0, TakeInv DEF Reload

-----------------------------------------------------------------------------
(* Storing the conversation and the message.                               *)

LEMMA CopyHere ==
  ASSUME Inv, NEW k \in Slots, d[k].pc \in {"upsert", "save"}
  PROVE  /\ d[k].c \in Convs /\ d[k].cv \in ConvRow /\ d[k].cv.st # "none"
         /\ closes = 0 => d[k].cv.st = "active"
  BY Here DEF SlotOK, Local, Alone, After, Delivery

LEMMA UpsertConvKept ==
  ASSUME Inv, NEW k \in Slots, UpsertConv(k) PROVE Inv'
<1> DEFINE c == d[k].c
<1>0. d[k].pc = "upsert" /\ ~d[k].timer
  BY Here DEF UpsertConv, At, SlotOK, Local
<1>1. CASE Goto(k, "adopt") /\ UNCHANGED conv
  <2> DEFINE x == [d[k] EXCEPT !.pc = "adopt"]
  <2>1. x \in Delivery /\ SlotOK(x, conv, arrived, Known, closes)
    BY <1>0, Here DEF Delivery, Running, SlotOK, Local, Alone, After
  <2> QED
    BY <1>1, <2>1, MoveInv DEF UpsertConv, Goto
<1>2. CASE ~Violates(k) /\ Write(k) /\ Goto(k, "conflict")
  <2>1. ASSUME closes = 0
        PROVE  conv[c].st # "none" \/ \A o \in Convs : conv[o].st = "none"
    <3>1. d[k].cv.st = "active" /\ \A o \in Convs \ {c} : conv[o].st # "active"
      BY <1>0, <1>2, <2>1, CopyHere DEF Violates, Refused, Active
    <3>2. conv[c].st = "active" \/ \A o \in Convs : conv[o].st \in {"none", "active"}
      BY <1>0, <2>1, Here DEF SlotOK, Alone
    <3> QED
      BY <3>1, <3>2
  <2>2. closes' = closes /\ closes' \in 0..MaxEvents /\ faults' = faults
    BY DEF UpsertConv, counts, Inv, TypeOK
  <2>3. DataStep /\ Known' = Known
    BY <1>0, <1>2, <2>1, <2>2, CopyHere, ConvData DEF UpsertConv, Write
  <2> DEFINE x == [d[k] EXCEPT !.pc = "conflict"]
  <2>4. conv'[c] = d[k].cv
    BY <1>0, <1>2, CopyHere DEF Write, Inv, TypeOK
  <2>5. x \in Delivery /\ SlotOK(x, conv', arrived', Known', closes')
    BY <1>0, <2>2, <2>3, <2>4, CopyHere, Here
      DEF Delivery, Running, SlotOK, Local, Alone, After, UpsertConv, world
  <2> QED
    BY <1>2, <2>3, <2>5, PutInv DEF Goto
<1> QED
  BY <1>1, <1>2 DEF UpsertConv

LEMMA AdoptKept ==
  ASSUME Inv, NEW k \in Slots, Adopt(k) PROVE Inv'
<1>0. d[k].pc = "adopt" /\ ~d[k].timer
  BY Here DEF Adopt, At, SlotOK, Local
<1>1. ASSUME NEW c \in Convs, Active(c),
             Put(k, [d[k] EXCEPT !.pc = "conflict", !.c = c])
      PROVE  Inv'
  <2> DEFINE x == [d[k] EXCEPT !.pc = "conflict", !.c = c]
  <2>1. x \in Delivery /\ SlotOK(x, conv, arrived, Known, closes)
    BY <1>0, <1>1, Here DEF Delivery, Running, SlotOK, Local, Alone, After, Active
  <2> QED
    BY <1>1, <2>1, MoveInv DEF Adopt
<1>2. CASE Fail(k)
  <2>1. DataStep
    BY SameData DEF Adopt
  <2> QED
    BY <1>0, <1>2, <2>1, FailInv
<1> QED
  BY <1>1, <1>2 DEF Adopt

LEMMA ConflictKept ==
  ASSUME Inv, NEW k \in Slots, Conflict(k) PROVE Inv'
<1>0. d[k].pc = "conflict" /\ ~d[k].timer /\ d[k].m \in Messages
        /\ d[k].c \in Convs /\ conv[d[k].c].st # "none"
  BY Here DEF Conflict, At, SlotOK, Local, After
<1> DEFINE t == stored[d[k].m] \notin {NULL, d[k].c}
<1> DEFINE x == [d[k] EXCEPT !.pc = "store", !.twin = t]
<1>1. ASSUME closes = 0 PROVE ~t
  <2>1. stored[d[k].m] \in Convs \cup {NULL}
    BY <1>0 DEF Inv, TypeOK
  <2>2. stored[d[k].m] # NULL => conv[stored[d[k].m]].st # "none"
    BY <1>0 DEF Inv, DataOK, StoredInConversation
  <2> QED
    BY <1>0, <1>1, <2>1, <2>2 DEF Inv, DataOK, SameConversation
<1>2. t \in BOOLEAN /\ (t => d[k].m \in Known)
  BY <1>0 DEF Known, Settled
<1> HIDE DEF t
<1>3. x \in Delivery /\ SlotOK(x, conv, arrived, Known, closes)
  BY <1>0, <1>1, <1>2, Here DEF Delivery, Running, SlotOK, Local, Alone, After
<1>4. Put(k, x)
  BY DEF Conflict, t
<1> QED
  BY <1>3, <1>4, MoveInv DEF Conflict

LEMMA StoreKept ==
  ASSUME Inv, NEW k \in Slots, Store(k) PROVE Inv'
<1> DEFINE c == d[k].c
<1> DEFINE m == d[k].m
<1>0. d[k].pc = "store" /\ ~d[k].timer /\ m \in Messages /\ m \in arrived
        /\ c \in Convs /\ conv[c].st # "none"
  BY Here DEF Store, At, SlotOK, Local, After
<1>1. /\ stored' \in [Messages -> Convs \cup {NULL}]
      /\ twin' \in [Messages -> Convs \cup {NULL}]
      /\ \A o \in Messages : stored'[o] \in {stored[o], c} /\ twin'[o] \in {twin[o], c}
      /\ \A o \in Messages \ {m} : stored'[o] = stored[o]
      /\ closes = 0 => twin' = twin
  BY <1>0, Here DEF Store, Inv, TypeOK, SlotOK, Alone
<1>2. m \in Known'
  <2>1. CASE d[k].twin
    BY <2>1, Here DEF Store, SlotOK, Local, Known, Settled
  <2>2. CASE ~d[k].twin
    BY <1>0, <2>2, InboundAssumption DEF Store, Known, Settled, Inv, TypeOK
  <2> QED
    BY <2>1, <2>2
<1>3. Known \subseteq Known' /\ Known' \subseteq Known \cup {m}
  BY <1>0, <1>1, InboundAssumption DEF Store, Known, Settled
<1>4. StoredInConversation'
  BY <1>0, <1>1 DEF Inv, DataOK, StoredInConversation, Store
<1>5. SameConversation'
  BY <1>1 DEF Inv, DataOK, SameConversation, Store, counts
<1>6. DataStep
  <2>1. TypesButSlots
    BY <1>1 DEF Inv, TypeOK, TypesButSlots, Store, memory, world, counts
  <2>2. Grows
    BY <1>3 DEF Grows, Store, world, counts, Inv, TypeOK
  <2>3. DataOK'
    BY <1>0, <1>3, <1>4, <1>5 DEF Inv, DataOK, BufferOK, Store, memory, world, counts
  <2> QED
    BY <2>1, <2>2, <2>3 DEF DataStep
<1> DEFINE l == IF d[k].re THEN "waiting" ELSE "mark"
<1> DEFINE x == [d[k] EXCEPT !.pc = l, !.re = FALSE, !.twin = FALSE]
<1>7. l \in {"waiting", "mark"}
  OBVIOUS
<1> HIDE DEF l
<1>8. x \in Delivery /\ SlotOK(x, conv', arrived', Known', closes')
  BY <1>0, <1>2, <1>7, Here
    DEF Delivery, Running, SlotOK, Local, Alone, After, Store, world, counts
<1>9. Put(k, x)
  BY DEF Store, l
<1> QED
  BY <1>6, <1>8, <1>9, PutInv

LEMMA EnsureWaitingKept ==
  ASSUME Inv, NEW k \in Slots, EnsureWaiting(k) PROVE Inv'
<1> DEFINE c == d[k].c
<1> DEFINE x == [d[k] EXCEPT !.pc = "mark"]
<1>0. d[k].pc = "waiting" /\ ~d[k].timer /\ c \in Convs /\ conv[c].st # "none"
        /\ (closes = 0 => conv[c].st = "active")
  BY Here DEF EnsureWaiting, At, SlotOK, Local, Alone, After
<1>1. CASE conv' = [conv EXCEPT ![c].st = "active"] /\ Goto(k, "mark")
  <2> DEFINE r == [conv[c] EXCEPT !.st = "active"]
  <2>1. r \in ConvRow /\ r.st = "active" /\ conv' = [conv EXCEPT ![c] = r]
    BY <1>0, <1>1 DEF ConvRow, Status, Inv, TypeOK
  <2>2. closes' = closes /\ closes' \in 0..MaxEvents /\ faults' = faults
    BY DEF EnsureWaiting, counts, Inv, TypeOK
  <2> HIDE DEF r
  <2>3. DataStep /\ Known' = Known
    BY <1>0, <2>1, <2>2, ConvData DEF EnsureWaiting
  <2>4. conv'[c] = r
    BY <1>0, <2>1 DEF Inv, TypeOK
  <2>5. x \in Delivery /\ SlotOK(x, conv', arrived', Known', closes')
    BY <1>0, <2>1, <2>2, <2>3, <2>4, Here
      DEF Delivery, Running, SlotOK, Local, Alone, After, EnsureWaiting, world
  <2> QED
    BY <1>1, <2>3, <2>5, PutInv DEF Goto
<1>2. CASE Fail(k) /\ UNCHANGED conv
  <2>1. DataStep
    BY <1>2, SameData DEF EnsureWaiting
  <2> QED
    BY <1>0, <1>2, <2>1, FailInv
<1>3. CASE Goto(k, "mark") /\ UNCHANGED conv
  <2>1. x \in Delivery /\ SlotOK(x, conv, arrived, Known, closes)
    BY <1>0, Here DEF Delivery, Running, SlotOK, Local, Alone, After
  <2> QED
    BY <1>3, <2>1, MoveInv DEF EnsureWaiting, Goto
<1> QED
  BY <1>1, <1>2, <1>3 DEF EnsureWaiting

LEMMA MarkKept ==
  ASSUME Inv, NEW k \in Slots, Mark(k) PROVE Inv'
<1> DEFINE c == d[k].c
<1>0. /\ d[k].pc = "mark" /\ ~d[k].timer /\ d[k].m \in Messages
      /\ d[k].m \in arrived /\ d[k].m \in Known
      /\ c \in Convs /\ conv[c].st # "none" /\ (closes = 0 => conv[c].st = "active")
  BY Here DEF Mark, At, SlotOK, Local, Alone, After
<1>1. BufferOK' /\ buffer' \in [Convs -> Messages \cup {NULL}]
  BY <1>0 DEF Mark, Inv, TypeOK, DataOK, BufferOK, counts
<1>2. DataStep
  BY <1>0, <1>1, MarkData DEF Mark
<1>3. CASE Finish(k)
  BY <1>0, <1>2, <1>3, FinishInv DEF DataStep, Grows
<1>4. CASE Goto(k, "flow")
  <2> DEFINE x == [d[k] EXCEPT !.pc = "flow"]
  <2>1. x \in Delivery /\ SlotOK(x, conv', arrived', Known', closes')
    BY <1>0, <1>2, Here
      DEF Delivery, Running, Triggering, SlotOK, Local, Alone, After, Mark, world,
          counts, DataStep, Grows
  <2> QED
    BY <1>2, <1>4, <2>1, PutInv DEF Goto
<1> QED
  BY <1>3, <1>4 DEF Mark

-----------------------------------------------------------------------------
(* The flow trigger.                                                       *)

LEMMA DebounceKept ==
  ASSUME Inv, NEW c \in Convs, Debounce(c) PROVE Inv'
<1>1. PICK k \in Slots :
        /\ At(k, "free")
        /\ Put(k, [Free EXCEPT !.pc = "retrieve", !.timer = TRUE, !.m = buffer[c],
                               !.c = c])
  BY DEF Debounce
<1> DEFINE x == [Free EXCEPT !.pc = "retrieve", !.timer = TRUE, !.m = buffer[c],
                             !.c = c]
<1>2. /\ buffer[c] \in Messages /\ conv[c].st # "none"
      /\ closes = 0 => conv[c].st = "active"
  BY DEF Debounce, Inv, TypeOK, DataOK, BufferOK
<1>3. x \in Delivery /\ SlotOK(x, conv, arrived, Known, closes)
  BY <1>2, FreeOK DEF Delivery, Running, Triggering, Free, SlotOK, Local, Alone, After
<1>4. Known' = Known /\ DataStep
  <2>1. Known' = Known
    BY DEF Debounce, rows, Known, Settled
  <2>2. BufferOK' /\ buffer' \in [Convs -> Messages \cup {NULL}]
    BY DEF Debounce, Inv, TypeOK, DataOK, BufferOK, counts
  <2>3. DataOK'
    BY <2>1, <2>2 DEF Debounce, Inv, DataOK, rows, world, counts,
      StoredInConversation, SameConversation
  <2>4. TypesButSlots
    BY <2>2 DEF Debounce, Inv, TypeOK, TypesButSlots, rows, world, counts
  <2>5. Grows
    BY <2>1 DEF Debounce, Grows, world, counts, Inv, TypeOK
  <2> QED
    BY <2>1, <2>3, <2>4, <2>5 DEF DataStep
<1>5. SlotOK(x, conv', arrived', Known', closes')
  BY <1>3, <1>4 DEF Debounce, world, counts
<1> QED
  BY <1>1, <1>3, <1>4, <1>5, PutInv

LEMMA RetrieveKept ==
  ASSUME Inv, NEW k \in Slots, Retrieve(k) PROVE Inv'
<1> DEFINE c == d[k].c
<1>0. /\ d[k].pc = "retrieve" /\ d[k].timer /\ c \in Convs /\ conv[c].st # "none"
      /\ closes = 0 => conv[c].st = "active"
  BY Here DEF Retrieve, At, SlotOK, Local, Alone
<1>1. CASE Put(k, Free)
  <2>1. DataStep
    BY SameData DEF Retrieve
  <2> QED
    BY <1>1, <2>1, FreeInv
<1>2. CASE Put(k, [d[k] EXCEPT !.pc = "flow", !.cv = conv[c]])
  <2> DEFINE x == [d[k] EXCEPT !.pc = "flow", !.cv = conv[c]]
  <2>1. conv[c] \in ConvRow
    BY <1>0 DEF Inv, TypeOK
  <2>2. x \in Delivery /\ SlotOK(x, conv, arrived, Known, closes)
    BY <1>0, <2>1, Here
      DEF Delivery, Running, Triggering, SlotOK, Local, Alone, After
  <2> QED
    BY <1>2, <2>2, MoveInv DEF Retrieve
<1> QED
  BY <1>1, <1>2 DEF Retrieve

LEMMA ArrivedCount ==
  ASSUME Inv, Eventful
  PROVE  closes + 1 \in 0..MaxEvents /\ faults + 1 \in 0..MaxEvents
<1>1. Cardinality(arrived) \in Nat
  BY FS_CardinalityType DEF Inv, DataOK
<1> QED
  BY <1>1, InboundAssumption DEF Inv, TypeOK, Eventful

LEMMA FlowKept ==
  ASSUME Inv, NEW k \in Slots, Flow(k) PROVE Inv'
<1> DEFINE c == d[k].c
<1>0. /\ d[k].pc = "flow" /\ c \in Convs /\ conv[c].st # "none"
      /\ d[k].m \in Messages /\ d[k].cv.st # "none"
      /\ ~d[k].timer => d[k].m \in Known
      /\ closes = 0 => conv[c].st = "active" /\ d[k].cv.st = "active"
  BY Here DEF Flow, At, SlotOK, Local, Alone, After
<1>1. CASE Finish(k) /\ UNCHANGED <<conv, closes>>
  <2>1. DataStep /\ Known' = Known
    BY <1>1, SameData DEF Flow, counts
  <2> QED
    BY <1>0, <1>1, <2>1, FinishInv
<1>2. ASSUME NEW act \in BOOLEAN, conv' = [conv EXCEPT ![c].act = act],
             NEW st \in {d[k].cv.st, "closed"},
             closes' \in 0..MaxEvents, closes' = closes \/ closes' # 0,
             closes' = closes => st = d[k].cv.st,
             Finish(k) \/ Put(k, [d[k] EXCEPT !.pc = "save", !.cv.act = act,
                                              !.cv.st = st])
      PROVE  Inv'
  <2> DEFINE r == [conv[c] EXCEPT !.act = act]
  <2>1. r \in ConvRow /\ r.st = conv[c].st /\ conv' = [conv EXCEPT ![c] = r]
    BY <1>0, <1>2 DEF ConvRow, Inv, TypeOK
  <2> HIDE DEF r
  <2>2. DataStep /\ Known' = Known
    BY <1>0, <1>2, <2>1, ConvData DEF Flow
  <2>3. CASE Finish(k)
    BY <1>0, <2>2, <2>3, FinishInv
  <2> DEFINE x == [d[k] EXCEPT !.pc = "save", !.cv.act = act, !.cv.st = st]
  <2>4. CASE Put(k, x)
    <3>1. conv'[c].st = conv[c].st
      BY <1>0, <2>1 DEF Inv, TypeOK
    <3>2. x \in Delivery /\ x.cv.st = st /\ x.pc = "save" /\ x.timer = d[k].timer
            /\ x.m = d[k].m /\ x.c = c /\ x.twin = d[k].twin
      BY <1>2, Here DEF Delivery, Running, Triggering, ConvRow, Status
    <3>3. arrived' = arrived
      BY DEF Flow, world
    <3>4. Local(x, conv', arrived', Known')
      BY <1>0, <1>2, <2>2, <3>1, <3>2, <3>3, Here DEF SlotOK, Local, After
    <3>5. closes' = 0 => Alone(x, conv')
      BY <1>0, <1>2, <3>1, <3>2, Here DEF SlotOK, Alone, After
    <3> QED
      BY <2>2, <2>4, <3>2, <3>4, <3>5, PutInv DEF SlotOK
  <2> QED
    BY <1>2, <2>3, <2>4
<1>3. closes \in 0..MaxEvents
  BY DEF Inv, TypeOK
<1>4. ASSUME NEW act \in BOOLEAN, conv' = [conv EXCEPT ![c].act = act],
             UNCHANGED closes,
             Finish(k) \/ Put(k, [d[k] EXCEPT !.pc = "save", !.cv.act = act])
      PROVE  Inv'
  <2>1. [d[k] EXCEPT !.pc = "save", !.cv.act = act]
          = [d[k] EXCEPT !.pc = "save", !.cv.act = act, !.cv.st = d[k].cv.st]
    BY Here DEF Delivery, ConvRow
  <2> QED
    BY <1>2, <1>3, <1>4, <2>1
<1>5. ASSUME NEW act \in BOOLEAN, conv' = [conv EXCEPT ![c].act = act],
             ~act, Eventful, closes' = closes + 1,
             Put(k, [d[k] EXCEPT !.pc = "save", !.cv.act = FALSE, !.cv.st = "closed"])
      PROVE  Inv'
  <2>1. closes' \in 0..MaxEvents /\ closes' # 0 /\ closes' # closes
    BY <1>3, <1>5, ArrivedCount
  <2> QED
    BY <1>2, <1>5, <2>1
<1> QED
  BY <1>1, <1>4, <1>5 DEF Flow

LEMMA SaveKept ==
  ASSUME Inv, NEW k \in Slots, Save(k) PROVE Inv'
<1> DEFINE c == d[k].c
<1>0. /\ d[k].pc = "save" /\ c \in Convs /\ conv[c].st # "none"
      /\ ~d[k].timer => d[k].m \in Known
  BY Here DEF Save, At, SlotOK, Local, Alone, After
<1>1. DataStep /\ Known' = Known
  <2>1. CASE UNCHANGED conv
    BY <2>1, SameData DEF Save
  <2>2. CASE Write(k)
    <3>1. closes' = closes /\ closes' \in 0..MaxEvents /\ faults' = faults
      BY DEF Save, counts, Inv, TypeOK
    <3> QED
      BY <1>0, <2>2, <3>1, CopyHere, ConvData DEF Save, Write
  <2> QED
    BY <2>1, <2>2 DEF Save
<1> QED
  BY <1>0, <1>1, FinishInv DEF Save

-----------------------------------------------------------------------------
(* The provider, the attendants, the crons and failures.                   *)

LEMMA ArriveKept ==
  ASSUME Inv, NEW m \in Messages, Arrive(m) PROVE Inv'
<1>1. PICK K \in SUBSET Slots :
        d' = [k \in Slots |-> IF k \in K THEN Queued(m, 0) ELSE d[k]]
  BY DEF Arrive
<1>2. Known' = Known
  BY DEF Arrive, rows, Known, Settled
<1>3. IsFiniteSet(arrived')
  BY FS_AddElement DEF Arrive, Inv, DataOK
<1>4. DataStep
  <2>1. TypesButSlots
    BY DEF Arrive, Inv, TypeOK, TypesButSlots, rows, memory, counts
  <2>2. Grows
    BY <1>2 DEF Arrive, Grows, counts, Inv, TypeOK
  <2>3. DataOK'
    BY <1>2, <1>3 DEF Arrive, Inv, DataOK, BufferOK, rows, memory, counts,
      StoredInConversation, SameConversation
  <2> QED
    BY <2>1, <2>2, <2>3 DEF DataStep
<1>5. 0 \in 0..(MaxRetries + 1) /\ m \in arrived'
  BY InboundAssumption DEF Arrive
<1>6. Queued(m, 0) \in Delivery
        /\ SlotOK(Queued(m, 0), conv', arrived', Known', closes')
  BY <1>5, QueuedPlain
<1>7. \A k \in Slots : d'[k] \in Delivery
                         /\ SlotOK(d'[k], conv', arrived', Known', closes')
  BY <1>1, <1>4, <1>6, Here, Untouched
<1>8. d' \in [Slots -> Delivery]
  BY <1>1, <1>7
<1> QED
  BY <1>4, <1>7, <1>8 DEF Inv, TypeOK, DataStep, TypesButSlots

(* Steps that leave every delivery alone.                                  *)
LEMMA StillInv ==
  ASSUME Inv, DataStep, d' = d PROVE Inv'
<1>1. \A k \in Slots : SlotOK(d'[k], conv', arrived', Known', closes')
  BY Here, Untouched
<1> QED
  BY <1>1 DEF Inv, TypeOK, DataStep, TypesButSlots

LEMMA RegisterKept == ASSUME Inv, Register PROVE Inv'
<1>1. Known' = Known
  BY DEF Register, rows, Known, Settled
<1>2. TypesButSlots
  BY DEF Register, Inv, TypeOK, TypesButSlots, rows, memory, counts
<1>3. Grows
  BY <1>1 DEF Register, Grows, counts, Inv, TypeOK
<1>4. DataOK'
  BY <1>1 DEF Register, Inv, DataOK, BufferOK, rows, memory, counts,
    StoredInConversation, SameConversation
<1> QED
  BY <1>2, <1>3, <1>4, StillInv DEF DataStep, Register

LEMMA ReprocessKept ==
  ASSUME Inv, NEW k \in Slots, Reprocess(k) PROVE Inv'
<1>0. d[k].pc = "dlq" /\ ~d[k].timer /\ d[k].m \in Messages /\ d[k].m \in arrived
  BY Here DEF Reprocess, At, SlotOK, Local
<1>1. Known' = Known
  BY DEF Reprocess, rows, Known, Settled
<1>2. DataStep
  <2>1. dropped' \subseteq Messages /\ dropped' \subseteq arrived
    BY <1>0 DEF Reprocess, Inv, TypeOK, DataOK
  <2>2. TypesButSlots
    BY <2>1 DEF Reprocess, Inv, TypeOK, TypesButSlots, rows, memory, counts
  <2>3. Grows
    BY <1>1 DEF Reprocess, Grows, counts, Inv, TypeOK
  <2>4. DataOK'
    BY <1>1, <2>1 DEF Reprocess, Inv, DataOK, BufferOK, rows, memory, counts,
      StoredInConversation, SameConversation
  <2> QED
    BY <2>2, <2>3, <2>4 DEF DataStep
<1>3. CASE registered
  <2> DEFINE x == [Queued(d[k].m, 0) EXCEPT !.pc = "queue"]
  <2>1. 0 \in 0..(MaxRetries + 1) /\ arrived' = arrived
    BY InboundAssumption DEF Reprocess
  <2>2. x \in Delivery /\ SlotOK(x, conv', arrived', Known', closes')
          /\ x = Queued(d[k].m, 0)
    BY <1>0, <2>1, QueuedOK
  <2> QED
    BY <1>2, <1>3, <2>2, PutInv DEF Reprocess
<1>4. CASE ~registered
  BY <1>2, <1>4, FreeInv DEF Reprocess
<1> QED
  BY <1>3, <1>4

LEMMA AttendKept ==
  ASSUME Inv, NEW c \in Convs, Assign(c) \/ End(c) PROVE Inv'
<1>1. CASE Assign(c)
  <2>1. NewConv \in ConvRow /\ NewConv.st = "active"
    BY DEF NewConv, NoConv, ConvRow, Status
  <2>2. closes' = closes /\ closes' \in 0..MaxEvents /\ faults' = faults
    BY <1>1 DEF Assign, counts, Inv, TypeOK
  <2>3. DataStep
    BY <1>1, <2>1, <2>2, ConvData DEF Assign
  <2> QED
    BY <1>1, <2>3, StillInv DEF Assign
<1>2. CASE End(c)
  <2>1. PICK st \in {"closed", "expired"} :
          conv' = [conv EXCEPT ![c].st = st, ![c].act = FALSE]
    BY <1>2 DEF End
  <2> DEFINE r == [conv[c] EXCEPT !.st = st, !.act = FALSE]
  <2>2. r \in ConvRow /\ r.st # "none" /\ conv' = [conv EXCEPT ![c] = r]
    BY <2>1 DEF Inv, TypeOK, ConvRow, Status
  <2>3. closes' \in 0..MaxEvents /\ closes' # 0
    BY <1>2, ArrivedCount DEF End, Inv, TypeOK
  <2> HIDE DEF r
  <2>4. DataStep
    BY <1>2, <2>2, <2>3, ConvData DEF End
  <2> QED
    BY <1>2, <2>4, StillInv DEF End
<1> QED
  BY <1>1, <1>2

LEMMA FaultData ==
  ASSUME Inv, Fault, UNCHANGED <<conv, rows, processed, world, closes>>,
         recent' \subseteq recent,
         buffer' \in [Convs -> Messages \cup {NULL}],
         \A c \in Convs : buffer'[c] \in {buffer[c], NULL}
  PROVE  DataStep /\ Known' = Known
<1>1. Known' = Known
  BY DEF rows, Known, Settled
<1>2. TypesButSlots
  BY ArrivedCount DEF Inv, TypeOK, TypesButSlots, rows, world, Fault
<1>3. Grows
  BY <1>1 DEF Grows, world, Inv, TypeOK
<1>4. DataOK'
  BY <1>1 DEF Inv, DataOK, BufferOK, rows, world, StoredInConversation,
    SameConversation
<1> QED
  BY <1>1, <1>2, <1>3, <1>4 DEF DataStep

LEMMA ThrowKept ==
  ASSUME Inv, NEW k \in Slots, Throw(k) PROVE Inv'
<1>1. DataStep /\ Known' = Known
  BY FaultData DEF Throw, memory, Inv, TypeOK
<1>2. CASE Finish(k) /\ d[k].pc \in {"flow", "save"}
  BY <1>1, <1>2, FinishInv, Here DEF SlotOK, Local
<1>3. CASE Fail(k)
  BY <1>1, <1>3, FailInv DEF Throw, Running, Triggering
<1> QED
  BY <1>2, <1>3 DEF Throw

LEMMA CrashKept == ASSUME Inv, Crash PROVE Inv'
<1>1. DataStep /\ Known' = Known /\ arrived' = arrived
  BY FaultData DEF Crash, world, Inv, TypeOK
<1>2. ASSUME NEW k \in Slots
      PROVE  d'[k] \in Delivery /\ SlotOK(d'[k], conv', arrived', Known', closes')
  <2>1. CASE d'[k] = d[k]
    BY <2>1, <1>1, Here, Untouched
  <2>2. CASE d'[k] = Free
    BY <2>2, FreeOK
  <2>3. CASE d[k].pc \notin Resting /\ ~d[k].timer /\ d'[k] = Queued(d[k].m, d[k].n)
    <3>1. d[k].m \in Messages /\ d[k].m \in arrived' /\ d[k].n \in 0..(MaxRetries + 1)
      BY <1>1, <2>3, Here DEF SlotOK, Local, Resting, Delivery
    <3> DEFINE x == [Queued(d[k].m, d[k].n) EXCEPT !.pc = "queue"]
    <3>2. x \in Delivery /\ SlotOK(x, conv', arrived', Known', closes')
            /\ x = Queued(d[k].m, d[k].n)
      BY <3>1, QueuedOK
    <3> QED
      BY <2>3, <3>2
  <2> QED
    BY <2>1, <2>2, <2>3 DEF Crash
<1>3. d' \in [Slots -> Delivery]
  BY <1>2 DEF Crash
<1> QED
  BY <1>1, <1>2, <1>3 DEF Inv, TypeOK, DataStep, TypesButSlots

LEMMA HandleKept ==
  ASSUME Inv, NEW k \in Slots, Handle(k) PROVE Inv'
  BY ExistsKept, FindChannelKept, SkipOutboundKept, AckKept, FindOpenKept,
     SelectEndedKept, ReopenRowKept, ReloadKept, UpsertConvKept, AdoptKept,
     ConflictKept, StoreKept, EnsureWaitingKept, MarkKept, RetrieveKept, FlowKept,
     SaveKept DEF Handle

LEMMA StutterKept == ASSUME Inv, UNCHANGED vars PROVE Inv'
<1>1. DataStep
  BY SameData DEF vars, rows, memory, world, counts
<1> QED
  BY <1>1, StillInv DEF vars

LEMMA NextKept == ASSUME Inv, [Next]_vars PROVE Inv'
<1>1. CASE UNCHANGED vars
  BY <1>1, StutterKept
<1>2. ASSUME NEW k \in Slots,
             Deliver(k) \/ Handle(k) \/ Reprocess(k) \/ Throw(k)
      PROVE  Inv'
  BY <1>2, DeliverKept, HandleKept, ReprocessKept, ThrowKept
<1>3. ASSUME NEW c \in Convs, Debounce(c) \/ Assign(c) \/ End(c) PROVE Inv'
  BY <1>3, DebounceKept, AttendKept
<1>4. ASSUME NEW m \in Messages, Arrive(m) PROVE Inv'
  BY <1>4, ArriveKept
<1>5. CASE Register \/ Crash \/ Quiet
  BY <1>5, RegisterKept, CrashKept, StutterKept DEF Quiet
<1> QED
  BY <1>1, <1>2, <1>3, <1>4, <1>5 DEF Next

LEMMA InvHolds == Spec => []Inv
  BY InitInv, NextKept, PTL DEF Spec

(* Every variable keeps its type.                                          *)
THEOREM InboundTypes == Spec => []TypeOK
<1>1. Inv => TypeOK
  BY DEF Inv
<1> QED
  BY <1>1, InvHolds, PTL

(* A stored message belongs to a conversation that exists, whichever copy  *)
(* the index refused (ConversationsRepository.upsert).                     *)
THEOREM StoredWhereItBelongs == Spec => []StoredInConversation
<1>1. Inv => StoredInConversation
  BY DEF Inv, DataOK
<1> QED
  BY <1>1, InvHolds, PTL

(* While nothing is closed, any number of deliveries at once leave one     *)
(* conversation and one row for each message (execute, reopenAtomically,   *)
(* upsert and the unique index together).                                  *)
THEOREM OneConversation == Spec => []SameConversation
<1>1. Inv => SameConversation
  BY DEF Inv, DataOK
<1> QED
  BY <1>1, InvHolds, PTL

=============================================================================
