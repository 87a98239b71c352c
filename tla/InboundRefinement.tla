------------------------- MODULE InboundRefinement -------------------------
(***************************************************************************)
(* Inbound implements Delivery, for any messages, deliveries at once,      *)
(* retries and events: each step of the consumer, its handlers, the broker *)
(* or a crash accepts a message, delivers it or discards it, or leaves     *)
(* every message as it stands.                                             *)
(***************************************************************************)
EXTENDS InboundProofs

(* The delivery x keeps the message m from being lost.                     *)
Holds(x, m) == x.m = m /\ x.pc # "free" /\ ~x.timer

(* A step of slot k that lets go of no message but a known one.            *)
Keeps(k) ==
  /\ \A q \in Slots \ {k} : d'[q] = d[q]
  /\ \A m \in Messages : m \notin Known' => (Holds(d'[k], m) <=> Holds(d[k], m))

(* The delivery goes on with the same message.                             *)
GoesOn(k, x) == x.m = d[k].m /\ x.timer = d[k].timer /\ x.pc # "free"

Undropped == dropped' = dropped

QueueStep == Standing' = Standing \/ Queue!Next

-----------------------------------------------------------------------------
LEMMA HeldBy ==
  ASSUME NEW m \in Messages
  PROVE  Held(m) <=> \E k \in Slots : Holds(d[k], m)
  BY DEF Held, Holds, At

LEMMA HeldNext ==
  ASSUME NEW m \in Messages
  PROVE  Held(m)' <=> \E k \in Slots : Holds(d'[k], m)
  BY DEF Held, Holds, At

(* The deliveries go on holding the messages that are not known.           *)
LEMMA SameStanding ==
  ASSUME Known' = Known, Undropped,
         \A m \in Messages : m \notin Known' => (Held(m)' <=> Held(m))
  PROVE  Standing' = Standing
<1>1. ASSUME NEW m \in Messages PROVE Settled(m)' <=> Settled(m)
  BY DEF Known
<1> QED
  BY <1>1 DEF Standing, Undropped, Known

LEMMA KeptHeld ==
  ASSUME NEW k \in Slots, Keeps(k), NEW m \in Messages, m \notin Known'
  PROVE  Held(m)' <=> Held(m)
<1>1. \A q \in Slots : Holds(d'[q], m) <=> Holds(d[q], m)
  BY DEF Keeps
<1> QED
  BY <1>1, HeldBy, HeldNext

LEMMA KeptStanding ==
  ASSUME NEW k \in Slots, Keeps(k), Known' = Known, Undropped
  PROVE  QueueStep
  BY KeptHeld, SameStanding DEF QueueStep

(* A handler makes its message known.                                      *)
LEMMA Delivers ==
  ASSUME NEW k \in Slots, Keeps(k), Undropped,
         Holds(d[k], d[k].m), d[k].m \in Messages,
         Known' = Known \cup {d[k].m}
  PROVE  QueueStep
<1> DEFINE n == d[k].m
<1>1. CASE n \in Known
  BY <1>1, KeptStanding
<1>2. CASE n \notin Known
  <2>1. Held(n) /\ Standing[n] \in {"pending", "discarded"}
    BY <1>2, HeldBy DEF Standing, Known
  <2>2. \A m \in Messages :
          /\ Settled(m)' <=> (Settled(m) \/ m = n)
          /\ m # n /\ ~Settled(m) => (Held(m)' <=> Held(m))
    BY KeptHeld DEF Known
  <2>3. Standing' = [Standing EXCEPT ![n] = "delivered"]
    BY <2>2 DEF Standing, Undropped
  <2>4. Queue!Deliver(n)
    BY <2>1, <2>3 DEF Queue!Deliver
  <2> QED
    BY <2>4 DEF Queue!Next, QueueStep
<1> QED
  BY <1>1, <1>2

-----------------------------------------------------------------------------
(* How a handler goes on or ends.                                          *)

LEMMA PutSlot ==
  ASSUME Inv, NEW k \in Slots, NEW x, Put(k, x)
  PROVE  d'[k] = x /\ \A q \in Slots \ {k} : d'[q] = d[q]
  BY DEF Put, Inv, TypeOK

LEMMA MoveKeeps ==
  ASSUME Inv, NEW k \in Slots, NEW x, Put(k, x), GoesOn(k, x), d[k].pc # "free"
  PROVE  Keeps(k)
  BY PutSlot DEF Keeps, Holds, GoesOn

LEMMA FreeKeeps ==
  ASSUME Inv, NEW k \in Slots, Put(k, Free),
         d[k].timer \/ d[k].m \in Known' \/ d[k].pc = "free"
  PROVE  Keeps(k)
  BY PutSlot DEF Keeps, Holds, Free

LEMMA FinishKeeps ==
  ASSUME Inv, NEW k \in Slots, Finish(k), d[k].pc # "free"
  PROVE  Keeps(k)
<1> DEFINE x == [Free EXCEPT !.pc = "ack", !.timer = d[k].timer, !.m = d[k].m]
<1>1. Put(k, x)
  BY DEF Finish
<1>2. GoesOn(k, x)
  BY FreeOK DEF Delivery, GoesOn
<1> QED
  BY <1>1, <1>2, MoveKeeps

(* A message that returns to the broker.                                   *)
LEMMA QueueKeeps ==
  ASSUME Inv, NEW k \in Slots, d[k].pc # "free", ~d[k].timer,
         NEW n \in 0..(MaxRetries + 1), NEW l \in {"queue", "dlq"},
         Put(k, [Queued(d[k].m, n) EXCEPT !.pc = l])
  PROVE  Keeps(k)
<1> DEFINE x == [Queued(d[k].m, n) EXCEPT !.pc = l]
<1>1. d[k].timer = FALSE
  BY Here DEF Delivery
<1>2. x.m = d[k].m /\ x.timer = FALSE /\ x.pc = l
  BY DEF Queued, Free
<1>3. GoesOn(k, x)
  BY <1>1, <1>2 DEF GoesOn
<1> QED
  BY <1>3, MoveKeeps

LEMMA FailKeeps ==
  ASSUME Inv, NEW k \in Slots, Fail(k), d[k].pc # "free"
  PROVE  Keeps(k)
<1>1. PICK n \in 0..(MaxRetries + 1), l \in {"queue", "dlq"} :
        Put(k, IF d[k].timer THEN Free ELSE [Queued(d[k].m, n) EXCEPT !.pc = l])
  <2>1. d[k].n \in 0..(MaxRetries + 1)
    BY Here DEF Delivery
  <2>2. (IF d[k].n > MaxRetries THEN d[k].n ELSE d[k].n + 1) \in 0..(MaxRetries + 1)
    BY <2>1, InboundAssumption
  <2> QED
    BY <2>2 DEF Fail
<1>2. CASE d[k].timer
  BY <1>1, <1>2, FreeKeeps
<1>3. CASE ~d[k].timer
  BY <1>1, <1>3, QueueKeeps
<1> QED
  BY <1>2, <1>3

-----------------------------------------------------------------------------
(* Each action, as a step of the queue.                                    *)

LEMMA DeliverStep ==
  ASSUME Inv, NEW k \in Slots, Deliver(k) PROVE QueueStep
<1>1. Known' = Known /\ Undropped
  BY DEF Deliver, Known, Settled, rows, world, Undropped
<1>2. CASE d[k].m \in recent /\ Put(k, Free)
  <2>1. d[k].m \in Known'
    BY <1>1, <1>2 DEF Inv, DataOK
  <2> QED
    BY <1>1, <1>2, <2>1, FreeKeeps, KeptStanding
<1>3. CASE Goto(k, "exists")
  BY <1>1, <1>3, Here, MoveKeeps, KeptStanding DEF Goto, GoesOn, Delivery, Deliver, At
<1> QED
  BY <1>2, <1>3 DEF Deliver

(* A handler goes on, whatever else it changes of its own.                 *)
Onward(k) ==
  /\ \A q \in Slots \ {k} : d'[q] = d[q]
  /\ GoesOn(k, d'[k])

LEMMA OnwardKeeps ==
  ASSUME NEW k \in Slots, d[k].pc # "free", Onward(k)
  PROVE  Keeps(k)
  BY DEF Onward, GoesOn, Keeps, Holds

(* Awaits whose handler goes on, or fails.                                 *)
Reads(k) ==
  \/ FindOpen(k) \/ SelectEnded(k) \/ ReopenRow(k) \/ Reload(k)
  \/ UpsertConv(k) \/ Adopt(k) \/ Conflict(k) \/ EnsureWaiting(k)

LEMMA ReadStep ==
  ASSUME Inv, NEW k \in Slots, Reads(k) PROVE QueueStep
<1>1. Known' = Known /\ Undropped /\ d[k].pc # "free"
  BY DEF Reads, FindOpen, SelectEnded, ReopenRow, Reload, UpsertConv, Adopt,
    Conflict, EnsureWaiting, At, Known, Settled, rows, world, Undropped
<1>2. d[k] \in Delivery /\ d \in [Slots -> Delivery]
  BY DEF Inv, TypeOK
<1>3. ASSUME NEW c, NEW label, NEW re, Take(k, c, label, re), label # "free"
       PROVE  Onward(k)
  <2> DEFINE x == [d[k] EXCEPT !.pc = label, !.c = c, !.cv = conv[c], !.re = re]
  <2>1. Put(k, x)
    BY <1>3 DEF Take
  <2>2. GoesOn(k, x)
    BY <1>2, <1>3 DEF GoesOn, Delivery
  <2> QED
    BY <2>1, <2>2, PutSlot DEF Onward
<1>4. ASSUME Create(k) PROVE Onward(k)
  <2>1. PICK c : Put(k, [d[k] EXCEPT !.pc = "upsert", !.c = c, !.cv = NewConv,
                                     !.re = FALSE])
    BY <1>4 DEF Create
  <2> DEFINE x == [d[k] EXCEPT !.pc = "upsert", !.c = c, !.cv = NewConv, !.re = FALSE]
  <2>2. GoesOn(k, x)
    BY <1>2 DEF GoesOn, Delivery
  <2> QED
    BY <2>1, <2>2, PutSlot DEF Onward
<1>5. ASSUME FindOpen(k) \/ Reload(k) PROVE Onward(k) \/ Fail(k)
  <2>1. CASE FindOpen(k) /\ Goto(k, "reopen")
    BY <1>2, <2>1 DEF Onward, GoesOn, Put, Goto, Delivery
  <2> QED
    BY <1>5, <1>3, <2>1 DEF FindOpen, Reload
<1> USE <1>2 DEF Onward, GoesOn, Put, Goto, Delivery
<1>6. ASSUME SelectEnded(k) PROVE Onward(k) \/ Fail(k)
  <2>1. CASE \E c \in Convs : Put(k, [d[k] EXCEPT !.pc = "reopenRow", !.c = c])
    BY <2>1
  <2> QED
    BY <1>6, <1>4, <2>1 DEF SelectEnded
<1>7. ASSUME ReopenRow(k) PROVE Onward(k) \/ Fail(k)
  <2>1. CASE Goto(k, "reload")
    BY <2>1
  <2> QED
    BY <1>7, <1>4, <2>1 DEF ReopenRow
<1>8. ASSUME UpsertConv(k) \/ Conflict(k) PROVE Onward(k) \/ Fail(k)
  BY <1>8 DEF UpsertConv, Conflict
<1>9. ASSUME Adopt(k) PROVE Onward(k) \/ Fail(k)
  BY <1>9 DEF Adopt
<1>10. ASSUME EnsureWaiting(k) PROVE Onward(k) \/ Fail(k)
  BY <1>10 DEF EnsureWaiting
<1>11. Onward(k) \/ Fail(k)
  BY <1>5, <1>6, <1>7, <1>8, <1>9, <1>10 DEF Reads
<1> QED
  BY <1>1, <1>11, OnwardKeeps, FailKeeps, KeptStanding

LEMMA GotoKeeps ==
  ASSUME Inv, NEW k \in Slots, NEW l, Goto(k, l), l # "free", d[k].pc # "free"
  PROVE  Keeps(k)
<1>1. d[k] \in Delivery
  BY Here
<1> QED
  BY <1>1, MoveKeeps DEF Goto, GoesOn, Delivery

(* Awaits that may end the delivery.                                       *)
LEMMA EndStep ==
  ASSUME Inv, NEW k \in Slots,
         Exists(k) \/ FindChannel(k) \/ Ack(k) \/ Retrieve(k)
  PROVE  QueueStep
<1>1. Known' = Known /\ Undropped /\ d[k].pc # "free"
  BY DEF Exists, FindChannel, Ack, Retrieve, At, Known, Settled, rows, world,
    Undropped
<1>2. ASSUME Exists(k) PROVE Keeps(k)
  <2>1. d[k].m \in processed => d[k].m \in Known'
    BY <1>1 DEF Inv, TypeOK, Known, Settled
  <2> QED
    BY <1>1, <1>2, <2>1, FreeKeeps, GotoKeeps DEF Exists, Done
<1>3. ASSUME FindChannel(k) PROVE Keeps(k)
  <2>1. ~d[k].timer /\ 0 \in 0..(MaxRetries + 1)
    BY <1>3, Here, InboundAssumption DEF FindChannel, At, SlotOK, Local
  <2> QED
    BY <1>1, <1>3, <2>1, QueueKeeps, GotoKeeps DEF FindChannel
<1>4. ASSUME Ack(k) PROVE Keeps(k)
  <2>1. d[k].timer \/ d[k].m \in Known'
    BY <1>1, <1>4, Here DEF Ack, At, SlotOK, Local
  <2> QED
    BY <1>4, <2>1, FreeKeeps DEF Ack, Done
<1>5. d[k] \in Delivery
  BY Here
<1>6. ASSUME Retrieve(k) PROVE Keeps(k)
  <2>1. d[k].timer
    BY <1>6, Here DEF Retrieve, At, SlotOK, Local
  <2> QED
    BY <1>1, <1>6, <2>1, <1>5, FreeKeeps, MoveKeeps DEF Retrieve, GoesOn, Delivery
<1>7. Keeps(k)
  BY <1>2, <1>3, <1>4, <1>6
<1> QED
  BY <1>1, <1>7, KeptStanding

LEMMA FlowStep ==
  ASSUME Inv, NEW k \in Slots, Flow(k) \/ Save(k) PROVE QueueStep
<1>1. Known' = Known /\ Undropped /\ d[k].pc # "free"
  BY DEF Flow, Save, At, Known, Settled, rows, world, Undropped
<1>2. d[k] \in Delivery /\ d \in [Slots -> Delivery]
  BY DEF Inv, TypeOK
<1>3. ASSUME NEW act \in BOOLEAN,
             \/ Put(k, [d[k] EXCEPT !.pc = "save", !.cv.act = act])
             \/ Put(k, [d[k] EXCEPT !.pc = "save", !.cv.act = FALSE,
                                    !.cv.st = "closed"])
      PROVE  Onward(k)
  <2> DEFINE x == [d[k] EXCEPT !.pc = "save", !.cv.act = act]
             y == [d[k] EXCEPT !.pc = "save", !.cv.act = FALSE, !.cv.st = "closed"]
  <2>1. GoesOn(k, x) /\ GoesOn(k, y)
    BY <1>2 DEF GoesOn, Delivery
  <2> QED
    BY <1>3, <2>1, PutSlot DEF Onward
<1>4. Onward(k) \/ Finish(k)
  BY <1>3 DEF Flow, Save
<1> QED
  BY <1>1, <1>4, FinishKeeps, OnwardKeeps, KeptStanding

(* Awaits that make the message known.                                     *)
LEMMA MarkStep ==
  ASSUME Inv, NEW k \in Slots, SkipOutbound(k) \/ Store(k) \/ Mark(k)
  PROVE  QueueStep
<1>1. /\ Undropped /\ d[k].pc # "free" /\ ~d[k].timer /\ d[k].m \in Messages
      /\ d[k].c \in Convs \/ d[k].pc = "skip"
      /\ d[k].twin => d[k].m \in Known
  BY Here DEF SkipOutbound, Store, Mark, At, rows, world, Undropped, SlotOK, Local,
    After
<1>2. Keeps(k)
  <2>1. d[k] \in Delivery /\ d \in [Slots -> Delivery]
    BY DEF Inv, TypeOK
  <2>2. ASSUME Store(k) PROVE Onward(k)
    <3> DEFINE x == [d[k] EXCEPT !.pc = IF d[k].re THEN "waiting" ELSE "mark",
                                 !.re = FALSE, !.twin = FALSE]
    <3>1. GoesOn(k, x) /\ Put(k, x)
      BY <2>1, <2>2 DEF Store, GoesOn, Delivery
    <3> QED
      BY <3>1, PutSlot DEF Onward
  <2>3. ASSUME Mark(k) PROVE Onward(k) \/ Finish(k)
    BY <2>1, <2>3 DEF Mark, Onward, GoesOn, Put, Goto, Delivery
  <2>4. Onward(k) \/ Finish(k)
    BY <2>2, <2>3 DEF SkipOutbound
  <2> QED
    BY <1>1, <2>4, FinishKeeps, OnwardKeeps
<1>3. Known' = Known \cup {d[k].m}
  <2>1. CASE SkipOutbound(k) \/ Mark(k)
    BY <1>1, <2>1 DEF SkipOutbound, Mark, Known, Settled, rows
  <2>2. CASE Store(k)
    BY <1>1, <2>2, InboundAssumption DEF Store, Known, Settled, Inv, TypeOK, At
  <2> QED
    BY <2>1, <2>2
<1>4. Holds(d[k], d[k].m)
  BY <1>1 DEF Holds
<1> QED
  BY <1>1, <1>2, <1>3, <1>4, Delivers

LEMMA HandleStep ==
  ASSUME Inv, NEW k \in Slots, Handle(k) PROVE QueueStep
  BY ReadStep, EndStep, FlowStep, MarkStep DEF Handle, Reads

LEMMA ThrowStep ==
  ASSUME Inv, NEW k \in Slots, Throw(k) PROVE QueueStep
<1>1. Known' = Known /\ Undropped /\ d[k].pc # "free"
  BY DEF Throw, Known, Settled, rows, world, Undropped, Running, Triggering
<1>2. Keeps(k)
  BY <1>1, FinishKeeps, FailKeeps DEF Throw
<1> QED
  BY <1>1, <1>2, KeptStanding

-----------------------------------------------------------------------------
(* The timers, the broker, the attendants and failures.                    *)

LEMMA DebounceStep ==
  ASSUME Inv, NEW c \in Convs, Debounce(c) PROVE QueueStep
<1>1. Known' = Known /\ Undropped
  BY DEF Debounce, Known, Settled, rows, world, Undropped
<1>2. PICK k \in Slots :
        /\ d[k].pc = "free"
        /\ Put(k, [Free EXCEPT !.pc = "retrieve", !.timer = TRUE,
                               !.m = buffer[c], !.c = c])
  BY DEF Debounce, At
<1> DEFINE x == [Free EXCEPT !.pc = "retrieve", !.timer = TRUE,
                             !.m = buffer[c], !.c = c]
<1>3. x.timer = TRUE
  BY DEF Free
<1>4. d'[k] = x /\ \A q \in Slots \ {k} : d'[q] = d[q]
  BY <1>2, PutSlot
<1> HIDE DEF x
<1>5. Keeps(k)
  BY <1>2, <1>3, <1>4 DEF Keeps, Holds
<1> QED
  BY <1>1, <1>5, KeptStanding

LEMMA ArriveStep ==
  ASSUME Inv, NEW m \in Messages, Arrive(m) PROVE QueueStep
<1>1. Known' = Known /\ Undropped /\ m \notin arrived
  BY DEF Arrive, Known, Settled, rows, Undropped
<1>2. PICK K \in SUBSET {k \in Slots : At(k, "free")} :
        /\ Cardinality(K) \in 1..2
        /\ d' = [k \in Slots |-> IF k \in K THEN Queued(m, 0) ELSE d[k]]
  BY DEF Arrive
<1>3. K # {}
  BY <1>2, FS_EmptySet
<1>4. Queued(m, 0).m = m /\ Queued(m, 0).pc = "queue" /\ Queued(m, 0).timer = FALSE
  BY DEF Queued, Free
<1>5. \A n \in Messages : n # m => (Held(n)' <=> Held(n))
  <2> SUFFICES ASSUME NEW n \in Messages, n # m
               PROVE  \A k \in Slots : Holds(d'[k], n) <=> Holds(d[k], n)
    BY HeldBy, HeldNext
  <2> QED
    BY <1>2, <1>4 DEF Holds, At
<1>6. Held(m)'
  BY <1>2, <1>3, <1>4, HeldNext DEF Holds
<1>7. Standing[m] = "absent"
  <2>1. ~Settled(m) /\ m \notin dropped
    BY <1>1 DEF Inv, DataOK, Known
  <2>2. ~Held(m)
    BY <1>1, Here, HeldBy DEF Holds, SlotOK, Local
  <2> QED
    BY <2>1, <2>2 DEF Standing
<1>8. Standing' = [Standing EXCEPT ![m] = "pending"]
  <2>1. \A n \in Messages : Settled(n)' <=> Settled(n)
    BY <1>1 DEF Known
  <2>2. ~Settled(m)' /\ m \notin dropped'
    BY <1>1, <2>1 DEF Inv, DataOK, Known, Undropped
  <2> QED
    BY <1>1, <1>5, <1>6, <2>1, <2>2 DEF Standing, Undropped
<1>9. Queue!Accept(m)
  BY <1>7, <1>8 DEF Queue!Accept
<1> QED
  BY <1>9 DEF Queue!Next, QueueStep

LEMMA ReprocessStep ==
  ASSUME Inv, NEW k \in Slots, Reprocess(k) PROVE QueueStep
<1>1. /\ Known' = Known /\ d[k].pc = "dlq" /\ ~d[k].timer
      /\ d[k].m \in Messages
  BY Here DEF Reprocess, At, Known, Settled, rows, SlotOK, Local
<1>2. CASE registered
  <2>1. Undropped /\ Put(k, Queued(d[k].m, 0))
    BY <1>2 DEF Reprocess, Undropped
  <2>2. GoesOn(k, Queued(d[k].m, 0))
    BY <1>1, Here DEF GoesOn, Queued, Free, Delivery
  <2>3. Keeps(k)
    BY <1>1, <2>1, <2>2, MoveKeeps
  <2> QED
    BY <1>1, <2>1, <2>3, KeptStanding
<1>3. CASE ~registered
  <2> DEFINE n == d[k].m
  <2>1. dropped' = dropped \cup {n} /\ Put(k, Free)
    BY <1>3 DEF Reprocess
  <2>2. \A m \in Messages : Settled(m)' <=> Settled(m)
    BY <1>1 DEF Known
  <2>3. \A m \in Messages : m # n => (Held(m)' <=> Held(m))
    <3> SUFFICES ASSUME NEW m \in Messages, m # n
                 PROVE  \A q \in Slots : Holds(d'[q], m) <=> Holds(d[q], m)
      BY HeldBy, HeldNext
    <3>1. d'[k] = Free /\ \A q \in Slots \ {k} : d'[q] = d[q]
      BY <2>1, PutSlot
    <3> QED
      BY <3>1 DEF Holds, Free
  <2>4. Held(n)
    BY <1>1, HeldBy DEF Holds
  <2>5. CASE Settled(n) \/ n \in dropped
    <3>1. Standing' = Standing
      BY <2>1, <2>2, <2>3, <2>5 DEF Standing
    <3> QED
      BY <3>1 DEF QueueStep
  <2>6. CASE ~Settled(n) /\ n \notin dropped
    <3>1. Standing[n] = "pending"
      BY <1>1, <2>4, <2>6 DEF Standing
    <3>2. Standing' = [m \in Messages |-> IF m \in {n} THEN "discarded"
                                          ELSE Standing[m]]
      BY <1>1, <2>1, <2>2, <2>3, <2>6 DEF Standing
    <3>3. Queue!Discard({n})
      BY <3>1, <3>2 DEF Queue!Discard
    <3>4. {n} \in SUBSET Messages
      BY <1>1
    <3> QED
      BY <3>3, <3>4 DEF Queue!Next, QueueStep
  <2> QED
    BY <2>5, <2>6
<1> QED
  BY <1>2, <1>3

LEMMA CrashStep ==
  ASSUME Inv, Crash PROVE QueueStep
<1>1. Known' = Known /\ Undropped
  BY DEF Crash, Known, Settled, rows, world, Undropped
<1>2. \A m \in Messages : Held(m)' <=> Held(m)
  <2> SUFFICES ASSUME NEW m \in Messages, NEW k \in Slots
               PROVE  Holds(d'[k], m) <=> Holds(d[k], m)
    BY HeldBy, HeldNext
  <2>1. d'[k] = IF d[k].pc \in Resting THEN d[k]
                ELSE IF d[k].timer THEN Free ELSE Queued(d[k].m, d[k].n)
    BY DEF Crash
  <2>2. /\ ~Free.timer /\ Free.pc = "free"
        /\ Queued(d[k].m, d[k].n).m = d[k].m
        /\ Queued(d[k].m, d[k].n).pc = "queue"
        /\ Queued(d[k].m, d[k].n).timer = FALSE
    BY DEF Queued, Free
  <2> QED
    BY <2>1, <2>2 DEF Holds, Resting
<1> QED
  BY <1>1, <1>2, SameStanding DEF QueueStep

(* Steps that change no delivery.                                          *)
LEMMA AsideStep ==
  ASSUME UNCHANGED <<stored, processed, dropped, d>> PROVE Standing' = Standing
  BY DEF Standing, Settled, Held, At

LEMMA QueueNext ==
  ASSUME Inv, [Next]_vars PROVE [Queue!Next]_Standing
<1>1. CASE UNCHANGED vars
  <2>1. UNCHANGED <<stored, processed, dropped, d>>
    BY <1>1 DEF vars
  <2>2. Standing' = Standing
    BY <2>1, AsideStep
  <2> QED
    BY <2>2
<1>2. ASSUME NEW k \in Slots,
             Deliver(k) \/ Handle(k) \/ Reprocess(k) \/ Throw(k)
      PROVE  QueueStep
  BY <1>2, DeliverStep, HandleStep, ReprocessStep, ThrowStep
<1>3. ASSUME NEW c \in Convs, Debounce(c) \/ Assign(c) \/ End(c) PROVE QueueStep
  <2>1. CASE Debounce(c)
    BY <2>1, DebounceStep
  <2>2. CASE Assign(c) \/ End(c)
    <3>1. UNCHANGED <<stored, processed, dropped, d>>
      BY <2>2 DEF Assign, End, rows, world
    <3> QED
      BY <3>1, AsideStep DEF QueueStep
  <2> QED
    BY <1>3, <2>1, <2>2
<1>4. ASSUME NEW m \in Messages, Arrive(m) PROVE QueueStep
  BY <1>4, ArriveStep
<1>5. ASSUME Register \/ Crash \/ Quiet PROVE QueueStep
  <2>1. CASE Crash
    BY <2>1, CrashStep
  <2>2. CASE Register \/ Quiet
    <3>1. UNCHANGED <<stored, processed, dropped, d>>
      BY <2>2 DEF Register, Quiet, vars, rows
    <3> QED
      BY <3>1, AsideStep DEF QueueStep
  <2> QED
    BY <1>5, <2>1, <2>2
<1>6. CASE Next
  <2>1. QueueStep
    BY <1>2, <1>3, <1>4, <1>5, <1>6 DEF Next
  <2> QED
    BY <2>1 DEF QueueStep
<1> QED
  BY <1>1, <1>6

LEMMA QueueInit ==
  ASSUME Init PROVE Queue!Init
<1>1. \A m \in Messages : ~Settled(m) /\ ~Held(m) /\ m \notin dropped
  BY DEF Init, Settled, Held, At, Free
<1> QED
  BY <1>1 DEF Queue!Init, Standing

(* Each message the provider sent is stored, or held by the broker or a    *)
(* handler, until it is dropped with its channel: RabbitMQConsumerDriver   *)
(* and ProcessInboundMessage together lose none.                           *)
THEOREM NoMessageLost == Spec => NeverLost
  BY QueueInit, QueueNext, InvHolds, PTL DEF Spec, NeverLost, Queue!Spec

=============================================================================
