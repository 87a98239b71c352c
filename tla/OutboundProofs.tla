--------------------------- MODULE OutboundProofs ---------------------------
(***************************************************************************)
(* Proofs about Outbound, for any replies, ids, receipts and faults:       *)
(*   OutboundTypes  every variable keeps its type,                         *)
(*   ShownOnce      a reply is not shown twice.                            *)
(* OutboundRefinement and OutboundOrder use the same invariant.            *)
(***************************************************************************)
EXTENDS Outbound, FiniteSetTheorems, TLAPS

In(s, r) == \E i \in DOMAIN s : s[i] = r

(* What the gateway's label says.                                          *)
GwOK ==
  /\ gw.pc = "idle" => gw = Idle
  /\ gw.pc # "idle" => gw.r \in Replies /\ In(sent, gw.r)
  /\ gw.pc \in {"confirm", "ack"} => gw.e \in Ids /\ owner[gw.e] = gw.r

(* Nothing is known of an id that the provider has not given.              *)
Fresh ==
  \A e \in Ids : owner[e] = NULL =>
    /\ conf[e] = "none" /\ screen[e] = "none"
    /\ \A s \in Receipts : rc[e][s] = "none"

QueueSent == \A r \in Replies : In(queue, r) => In(sent, r)

Inv ==
  /\ TypeOK /\ crashes <= faults
  /\ GwOK /\ Fresh /\ OneBubble /\ QueueSent

-----------------------------------------------------------------------------
(* Sequences as queues.                                                    *)

LEMMA InAppend ==
  ASSUME NEW q \in Seq(Replies), NEW x \in Replies, NEW r
  PROVE  /\ Append(q, x) \in Seq(Replies)
         /\ In(Append(q, x), r) <=> r = x \/ In(q, r)
<1>1. /\ Append(q, x) \in Seq(Replies) /\ DOMAIN q = 1..Len(q)
      /\ DOMAIN Append(q, x) = 1..(Len(q) + 1) /\ Len(q) \in Nat
      /\ \A i \in 1..Len(q) : Append(q, x)[i] = q[i]
      /\ Append(q, x)[Len(q) + 1] = x
  OBVIOUS
<1> QED
  BY <1>1 DEF In

LEMMA InCons ==
  ASSUME NEW q \in Seq(Replies), NEW x \in Replies, NEW r
  PROVE  /\ <<x>> \o q \in Seq(Replies)
         /\ In(<<x>> \o q, r) <=> r = x \/ In(q, r)
<1>1. /\ <<x>> \o q \in Seq(Replies) /\ DOMAIN q = 1..Len(q) /\ Len(q) \in Nat
      /\ DOMAIN (<<x>> \o q) = 1..(Len(q) + 1)
      /\ (<<x>> \o q)[1] = x
      /\ \A i \in 1..Len(q) : (<<x>> \o q)[i + 1] = q[i]
  OBVIOUS
<1>2. ASSUME In(<<x>> \o q, r), r # x PROVE In(q, r)
  <2>1. PICK i \in 1..(Len(q) + 1) : (<<x>> \o q)[i] = r
    BY <1>1, <1>2 DEF In
  <2>2. i - 1 \in 1..Len(q) /\ i = (i - 1) + 1
    BY <1>1, <1>2, <2>1
  <2> QED
    BY <1>1, <2>1, <2>2 DEF In
<1>3. ASSUME In(q, r) PROVE In(<<x>> \o q, r)
  <2>1. PICK i \in 1..Len(q) : q[i] = r
    BY <1>1, <1>3 DEF In
  <2>2. i + 1 \in 1..(Len(q) + 1)
    BY <1>1
  <2> QED
    BY <1>1, <2>1, <2>2 DEF In
<1>4. In(<<x>> \o q, x)
  BY <1>1 DEF In
<1> QED
  BY <1>1, <1>2, <1>3, <1>4

LEMMA InTail ==
  ASSUME NEW q \in Seq(Replies), q # <<>>, NEW r
  PROVE  /\ Tail(q) \in Seq(Replies) /\ Head(q) \in Replies
         /\ In(q, r) <=> r = Head(q) \/ In(Tail(q), r)
<1>1. /\ Tail(q) \in Seq(Replies) /\ DOMAIN q = 1..Len(q) /\ Len(q) \in Nat \ {0}
      /\ DOMAIN Tail(q) = 1..(Len(q) - 1) /\ Head(q) = q[1]
      /\ \A i \in 1..(Len(q) - 1) : Tail(q)[i] = q[i + 1]
  OBVIOUS
<1>2. ASSUME In(q, r), r # Head(q) PROVE In(Tail(q), r)
  <2>1. PICK i \in 1..Len(q) : q[i] = r
    BY <1>1, <1>2 DEF In
  <2>2. i - 1 \in 1..(Len(q) - 1) /\ i = (i - 1) + 1
    BY <1>1, <1>2, <2>1
  <2> QED
    BY <1>1, <2>1, <2>2 DEF In
<1>3. ASSUME In(Tail(q), r) PROVE In(q, r)
  <2>1. PICK i \in 1..(Len(q) - 1) : Tail(q)[i] = r
    BY <1>1, <1>3 DEF In
  <2>2. i + 1 \in 1..Len(q)
    BY <1>1
  <2> QED
    BY <1>1, <2>1, <2>2 DEF In
<1>4. In(q, Head(q)) /\ Head(q) \in Replies
  BY <1>1 DEF In
<1> QED
  BY <1>1, <1>2, <1>3, <1>4

-----------------------------------------------------------------------------
LEMMA InitInv == Init => Inv
<1> SUFFICES ASSUME Init PROVE Inv
  OBVIOUS
<1>1. TypeOK
  BY OutboundAssumption DEF Init, TypeOK, Idle, ConfPCs, ReceiptPCs, Statuses, Receipts
<1>2. crashes <= faults /\ GwOK /\ Fresh
  BY DEF Init, GwOK, Fresh, Idle
<1>3. OneBubble /\ QueueSent
  BY DEF Init, OneBubble, QueueSent, In
<1> QED
  BY <1>1, <1>2, <1>3 DEF Inv

LEMMA SendKept ==
  ASSUME Inv, NEW r \in Replies, Send(r) PROVE Inv'
<1>1. TypeOK'
  BY DEF Inv, TypeOK, Send, gateway, server, Statuses, Receipts
<1>2. GwOK' /\ QueueSent' /\ crashes' <= faults'
  BY DEF Inv, GwOK, QueueSent, Send, gateway
<1>3. Fresh'
  BY OutboundAssumption DEF Inv, TypeOK, Fresh, Send, gateway
<1>4. OneBubble'
  BY OutboundAssumption DEF Inv, TypeOK, OneBubble, Send, gateway
<1> QED
  BY <1>1, <1>2, <1>3, <1>4 DEF Inv

LEMMA PublishKept ==
  ASSUME Inv, NEW r \in Replies, Publish(r) PROVE Inv'
<1>1. queue \in Seq(Replies) /\ sent \in Seq(Replies)
  BY DEF Inv, TypeOK
<1>2. queue' \in Seq(Replies) /\ sent' \in Seq(Replies)
  <2>1. Append(queue, r) \in Seq(Replies) /\ Append(sent, r) \in Seq(Replies)
    BY <1>1
  <2> QED
    BY <1>1, <2>1 DEF Publish
<1>3. TypeOK'
  BY <1>2 DEF Inv, TypeOK, Publish, server, browser
<1>4. ASSUME NEW x, In(sent, x) PROVE In(sent', x)
  BY <1>1, <1>4, InAppend DEF Publish
<1>5. QueueSent'
  <2> SUFFICES ASSUME NEW x \in Replies, In(queue', x) PROVE In(sent', x)
    BY DEF QueueSent
  <2>1. In(queue, x) => In(sent, x)
    BY DEF Inv, QueueSent
  <2>2. CASE queue' = Append(queue, r) /\ sent' = Append(sent, r)
    <3>1. In(Append(queue, r), x) <=> x = r \/ In(queue, x)
      BY <1>1, InAppend
    <3>2. In(Append(sent, r), x) <=> x = r \/ In(sent, x)
      BY <1>1, InAppend
    <3> QED
      BY <2>1, <2>2, <3>1, <3>2
  <2> QED
    BY <2>1, <2>2 DEF Publish
<1>6. GwOK'
  BY <1>4 DEF Inv, GwOK, Publish
<1>7. Fresh' /\ OneBubble' /\ crashes' <= faults'
  BY DEF Inv, Fresh, OneBubble, Publish, browser
<1> QED
  BY <1>3, <1>5, <1>6, <1>7 DEF Inv

LEMMA TakeKept ==
  ASSUME Inv, Take PROVE Inv'
<1>1. queue \in Seq(Replies) /\ queue # <<>>
  BY DEF Inv, TypeOK, Take
<1>2. Tail(queue) \in Seq(Replies) /\ Head(queue) \in Replies
  BY <1>1, InTail
<1>3. gw' = [pc |-> "send", r |-> Head(queue), e |-> NULL]
  BY DEF Take, Idle
<1>4. TypeOK'
  <2>1. gw' \in [pc: {"idle", "send", "confirm", "ack"},
                r: Replies \cup {NULL}, e: Ids \cup {NULL}]
    BY <1>2, <1>3
  <2>2. queue' \in Seq(Replies)
    BY <1>2 DEF Take
  <2> QED
    BY <2>1, <2>2 DEF Inv, TypeOK, Take, server, browser
<1>5. In(queue, Head(queue))
  BY <1>1, InTail
<1>6. GwOK'
  BY <1>2, <1>3, <1>5 DEF GwOK, Inv, QueueSent, Take
<1>7. QueueSent'
  BY <1>1, InTail DEF Inv, QueueSent, Take
<1>8. Fresh' /\ OneBubble' /\ crashes' <= faults'
  BY DEF Inv, Fresh, OneBubble, Take, browser
<1> QED
  BY <1>4, <1>6, <1>7, <1>8 DEF Inv

LEMMA GwType ==
  ASSUME Inv
  PROVE  /\ gw = [pc |-> gw.pc, r |-> gw.r, e |-> gw.e]
         /\ gw.pc \in {"idle", "send", "confirm", "ack"}
         /\ Idle \in [pc: {"idle", "send", "confirm", "ack"},
                      r: Replies \cup {NULL}, e: Ids \cup {NULL}]
         /\ Idle.pc = "idle"
  BY DEF Inv, TypeOK, Idle

LEMMA SendToApiKept ==
  ASSUME Inv, SendToApi PROVE Inv'
<1>1. gw.pc = "send" /\ gw.r \in Replies /\ In(sent, gw.r)
        /\ phone \in Seq(Replies)
  BY DEF Inv, TypeOK, GwOK, SendToApi
<1>2. ASSUME NEW e \in Ids, Reach(e)
      PROVE  /\ owner[e] = NULL /\ owner' = [owner EXCEPT ![e] = gw.r]
             /\ phone' = Append(phone, gw.r)
  BY <1>2 DEF Reach, Unused
<1>3. phone' \in Seq(Replies)
  <2>1. Append(phone, gw.r) \in Seq(Replies)
    BY <1>1
  <2> QED
    BY <1>1, <1>2, <2>1 DEF SendToApi
<1>4. owner' \in [Ids -> Replies \cup {NULL}]
  BY <1>1, <1>2 DEF SendToApi, Inv, TypeOK
<1>5. /\ gw' \in [pc: {"idle", "send", "confirm", "ack"},
                  r: Replies \cup {NULL}, e: Ids \cup {NULL}]
      /\ dead' \subseteq Replies /\ UNCHANGED queue
  BY <1>1, GwType DEF SendToApi, Nack, Inv, TypeOK
<1>6. TypeOK'
  BY <1>3, <1>4, <1>5 DEF Inv, TypeOK, SendToApi, server, browser
<1>7. GwOK'
  <2>1. CASE Nack
    BY <2>1, GwType DEF Nack, GwOK
  <2>2. ASSUME NEW e \in Ids, Reach(e), gw' = [gw EXCEPT !.pc = "confirm", !.e = e]
        PROVE  GwOK'
    <3>1. gw'.pc = "confirm" /\ gw'.r = gw.r /\ gw'.e = e
      BY <2>2, GwType
    <3>2. owner'[e] = gw.r
      BY <1>2, <2>2 DEF Inv, TypeOK
    <3>3. sent' = sent
      BY DEF SendToApi
    <3> QED
      BY <1>1, <3>1, <3>2, <3>3 DEF GwOK
  <2> QED
    BY <2>1, <2>2 DEF SendToApi
<1>8. Fresh'
  BY <1>1, <1>2, OutboundAssumption DEF Fresh, SendToApi, Inv, TypeOK, browser
<1>9. OneBubble'
  BY <1>1, <1>2 DEF OneBubble, Fresh, SendToApi, Inv, TypeOK, browser
<1>10. QueueSent' /\ crashes' <= faults'
  BY <1>5 DEF QueueSent, SendToApi, Inv
<1> QED
  BY <1>6, <1>7, <1>8, <1>9, <1>10 DEF Inv

LEMMA PublishConfirmationKept ==
  ASSUME Inv, PublishConfirmation PROVE Inv'
<1>1. gw.pc = "confirm" /\ gw.r \in Replies /\ In(sent, gw.r)
        /\ gw.e \in Ids /\ owner[gw.e] = gw.r
  BY DEF Inv, GwOK, PublishConfirmation
<1>2. gw' = [pc |-> "ack", r |-> gw.r, e |-> gw.e]
  BY GwType DEF PublishConfirmation
<1>3. conf' \in [Ids -> ConfPCs]
  BY DEF PublishConfirmation, Inv, TypeOK, ConfPCs
<1>4. TypeOK'
  BY <1>1, <1>2, <1>3 DEF Inv, TypeOK, PublishConfirmation, server, browser
<1>5. GwOK'
  BY <1>1, <1>2 DEF GwOK, PublishConfirmation
<1>6. Fresh'
  BY <1>1, OutboundAssumption DEF Fresh, PublishConfirmation, Inv, TypeOK, browser
<1>7. OneBubble' /\ QueueSent' /\ crashes' <= faults'
  BY DEF OneBubble, QueueSent, PublishConfirmation, Inv, browser
<1> QED
  BY <1>4, <1>5, <1>6, <1>7 DEF Inv

LEMMA AckKept ==
  ASSUME Inv, Ack PROVE Inv'
<1>1. TypeOK'
  BY GwType DEF Inv, TypeOK, Ack, server, browser
<1>2. GwOK'
  BY GwType DEF GwOK, Ack
<1>3. Fresh' /\ OneBubble' /\ QueueSent' /\ crashes' <= faults'
  BY DEF Fresh, OneBubble, QueueSent, Ack, Inv, browser
<1> QED
  BY <1>1, <1>2, <1>3 DEF Inv

LEMMA GatewayCrashKept ==
  ASSUME Inv, GatewayCrash PROVE Inv'
<1>1. gw.r \in Replies /\ In(sent, gw.r) /\ queue \in Seq(Replies)
  BY DEF Inv, TypeOK, GwOK, GatewayCrash
<1>2. queue' \in Seq(Replies)
  <2>1. <<gw.r>> \o queue \in Seq(Replies)
    BY <1>1
  <2> QED
    BY <2>1 DEF GatewayCrash
<1>3. crashes' \in 0..MaxFaults /\ faults' \in 0..MaxFaults /\ crashes' <= faults'
  BY OutboundAssumption DEF GatewayCrash, Inv, TypeOK
<1>4. TypeOK'
  BY <1>2, <1>3, GwType DEF Inv, TypeOK, GatewayCrash, server, browser
<1>5. GwOK'
  BY GwType DEF GwOK, GatewayCrash
<1>6. QueueSent'
  BY <1>1, InCons DEF QueueSent, GatewayCrash, Inv
<1>7. Fresh' /\ OneBubble'
  BY DEF Fresh, OneBubble, GatewayCrash, Inv, browser
<1> QED
  BY <1>3, <1>4, <1>5, <1>6, <1>7 DEF Inv

(* Steps of the web process and the browser leave the queue alone.         *)
LEMMA QueueAlone ==
  ASSUME Inv, UNCHANGED <<sent, queue, gw, owner>>
  PROVE  GwOK' /\ QueueSent'
  BY DEF Inv, GwOK, QueueSent

LEMMA HigherType ==
  ASSUME NEW s \in Statuses, NEW t \in Statuses
  PROVE  Higher(s, t) \in Statuses
  BY DEF Higher

LEMMA ConfirmKept ==
  ASSUME Inv, NEW e \in Ids, Confirm(e) PROVE Inv'
<1>1. GwOK' /\ QueueSent' /\ crashes' <= faults'
  BY QueueAlone DEF Confirm, Exists, UpsertRow, MarkProcessed, EmitConfirmed,
    gateway, Inv
<1>2. conf[e] # "none" /\ conf \in [Ids -> ConfPCs]
  BY DEF Confirm, Exists, UpsertRow, MarkProcessed, EmitConfirmed, Inv, TypeOK
<1>3. owner[e] \in Replies
  BY <1>2 DEF Inv, Fresh, TypeOK
<1>4. CASE Exists(e) \/ UpsertRow(e) \/ MarkProcessed(e)
  <2>1. PICK l \in ConfPCs : conf' = [conf EXCEPT ![e] = l]
    BY <1>4 DEF Exists, UpsertRow, MarkProcessed, ConfPCs
  <2>2. conf' \in [Ids -> ConfPCs]
    BY <1>2, <2>1
  <2>3. row' \in [Ids -> Statuses] /\ processed' \subseteq Ids
    <3>1. FirstStatus \in Statuses
      BY OutboundAssumption DEF Statuses, Receipts
    <3>2. row \in [Ids -> Statuses] /\ processed \subseteq Ids
      BY DEF Inv, TypeOK
    <3>3. CASE Exists(e)
      BY <3>2, <3>3 DEF Exists, server
    <3>4. CASE UpsertRow(e)
      BY <3>1, <3>2, <3>4 DEF UpsertRow
    <3>5. CASE MarkProcessed(e)
      BY <3>2, <3>5 DEF MarkProcessed
    <3> QED
      BY <1>4, <3>3, <3>4, <3>5
  <2>4. TypeOK'
    BY <1>4, <2>2, <2>3 DEF Exists, UpsertRow, MarkProcessed, gateway, browser,
      Inv, TypeOK
  <2>5. Fresh'
    BY <1>2, <1>3, <1>4, <2>1, OutboundAssumption DEF Exists, UpsertRow,
      MarkProcessed, gateway, browser, Inv, Fresh
  <2>6. OneBubble'
    BY <1>4 DEF Exists, UpsertRow, MarkProcessed, gateway, browser, Inv, OneBubble
  <2> QED
    BY <1>1, <2>4, <2>5, <2>6 DEF Inv
<1>5. CASE EmitConfirmed(e)
  <2>1. Confirmed(e) \in Statuses
    <3>1. /\ pending[e] \in Statuses /\ screen[e] \in Statuses
          /\ FirstStatus \in Statuses
      BY OutboundAssumption DEF Inv, TypeOK, Statuses, Receipts
    <3> QED
      BY <3>1, HigherType DEF Confirmed
  <2>2. /\ screen' = [screen EXCEPT ![owner[e]] = "none", ![e] = Confirmed(e)]
        /\ conf' = [conf EXCEPT ![e] = "done"]
        /\ pending' = [pending EXCEPT ![e] = "none"]
        /\ UNCHANGED <<calls, sent, gateway, server, rc, crashes, faults>>
    BY <1>5 DEF EmitConfirmed, Reconcile
  <2>3. TypeOK'
    BY <1>3, <2>1, <2>2 DEF gateway, server, Inv, TypeOK, ConfPCs, Statuses
  <2>4. Fresh'
    BY <1>2, <1>3, <2>2, OutboundAssumption DEF gateway, Inv, TypeOK, Fresh
  <2>5. OneBubble'
    BY <1>3, <2>2, OutboundAssumption DEF gateway, Inv, TypeOK, OneBubble
  <2> QED
    BY <1>1, <2>3, <2>4, <2>5 DEF Inv
<1> QED
  BY <1>4, <1>5 DEF Confirm

LEMMA ReportKept ==
  ASSUME Inv, NEW e \in Ids, NEW s \in Receipts, Report(e, s) PROVE Inv'
<1>1. GwOK' /\ QueueSent' /\ crashes' <= faults' /\ OneBubble'
  BY QueueAlone DEF Report, gateway, browser, OneBubble, Inv
<1>2. TypeOK'
  BY DEF Report, gateway, server, browser, Inv, TypeOK, ReceiptPCs
<1>3. Fresh'
  BY DEF Report, gateway, browser, Inv, Fresh, TypeOK
<1> QED
  BY <1>1, <1>2, <1>3 DEF Inv

LEMMA RaiseKept ==
  ASSUME Inv, NEW e \in Ids, NEW s \in Receipts, Raise(e, s) PROVE Inv'
<1>1. GwOK' /\ QueueSent' /\ crashes' <= faults'
  BY QueueAlone DEF Raise, ReadRow, WriteRow, EmitStatus, gateway, Inv
<1>2. /\ rc[e][s] # "none" /\ rc \in [Ids -> [Receipts -> ReceiptPCs]]
      /\ s \in Statuses
  BY DEF Raise, ReadRow, WriteRow, EmitStatus, Inv, TypeOK, Statuses
<1>3. owner[e] \in Replies
  BY <1>2 DEF Inv, Fresh, TypeOK
<1>4. PICK l \in ReceiptPCs : rc' = [rc EXCEPT ![e][s] = l]
  BY DEF Raise, ReadRow, WriteRow, EmitStatus, ReceiptPCs
<1>5. rc' \in [Ids -> [Receipts -> ReceiptPCs]]
  BY <1>2, <1>4
<1>6. row' \in [Ids -> Statuses]
  BY <1>2 DEF Raise, ReadRow, WriteRow, EmitStatus, server, Inv, TypeOK
<1>7. /\ screen' \in [Replies \cup Ids -> Statuses]
      /\ pending' \in [Ids -> Statuses]
      /\ \A b \in Replies \cup Ids : b # e \/ screen[b] = "none" =>
           screen'[b] = screen[b]
  <2>1. CASE ReadRow(e, s) \/ WriteRow(e, s)
    BY <2>1 DEF ReadRow, WriteRow, browser, Inv, TypeOK
  <2>2. CASE EmitStatus(e, s)
    <3>1. /\ Higher(screen[e], s) \in Statuses
          /\ Higher(pending[e], s) \in Statuses /\ "none" \in Statuses
      BY <1>2, HigherType DEF Inv, TypeOK, Statuses
    <3>2. /\ screen \in [Replies \cup Ids -> Statuses]
          /\ pending \in [Ids -> Statuses] /\ e \in Replies \cup Ids
      BY DEF Inv, TypeOK
    <3>3. CASE screen' = [screen EXCEPT ![e] = Higher(screen[e], s)]
               /\ pending' = [pending EXCEPT ![e] = "none"] /\ screen[e] # "none"
      BY <3>1, <3>2, <3>3
    <3>4. CASE screen' = screen
               /\ pending' = [pending EXCEPT ![e] = Higher(pending[e], s)]
      BY <3>1, <3>2, <3>4
    <3> QED
      BY <2>2, <3>3, <3>4 DEF EmitStatus
  <2> QED
    BY <2>1, <2>2 DEF Raise
<1>8. TypeOK'
  BY <1>5, <1>6, <1>7 DEF Raise, ReadRow, WriteRow, EmitStatus, gateway, server,
    Inv, TypeOK
<1>9. Fresh'
  BY <1>2, <1>3, <1>4, <1>7, OutboundAssumption DEF Raise, ReadRow, WriteRow,
    EmitStatus, gateway, Inv, Fresh
<1>10. OneBubble'
  <2>1. owner' = owner
    BY DEF Raise, ReadRow, WriteRow, EmitStatus, gateway
  <2>2. \A f \in Ids : owner[f] # NULL => owner[f] \in Replies /\ owner[f] # e
    BY OutboundAssumption DEF Inv, TypeOK
  <2> QED
    BY <1>3, <1>7, <2>1, <2>2 DEF OneBubble, Inv
<1> QED
  BY <1>1, <1>8, <1>9, <1>10 DEF Inv

LEMMA WebCrashKept ==
  ASSUME Inv, WebCrash PROVE Inv'
<1>1. GwOK' /\ QueueSent' /\ OneBubble'
  BY QueueAlone DEF WebCrash, OneBubble, Inv
<1>2. faults' \in 0..MaxFaults /\ crashes' <= faults'
  BY OutboundAssumption DEF WebCrash, WebFault, Inv, TypeOK
<1>3. conf' \in [Ids -> ConfPCs]
  BY DEF WebCrash, Inv, TypeOK, ConfPCs
<1>4. rc' \in [Ids -> [Receipts -> ReceiptPCs]]
  BY DEF WebCrash, Redelivered, Inv, TypeOK, ReceiptPCs
<1>5. TypeOK'
  BY <1>2, <1>3, <1>4 DEF WebCrash, server, Inv, TypeOK, Statuses
<1>6. Fresh'
  BY DEF WebCrash, Redelivered, Inv, Fresh
<1> QED
  BY <1>1, <1>2, <1>5, <1>6 DEF Inv

LEMMA ThrowKept ==
  ASSUME Inv, NEW e \in Ids, Throw(e) PROVE Inv'
<1>1. GwOK' /\ QueueSent' /\ OneBubble'
  BY QueueAlone DEF Throw, gateway, browser, OneBubble, Inv
<1>2. faults' \in 0..MaxFaults /\ crashes' <= faults'
  BY OutboundAssumption DEF Throw, WebFault, Inv, TypeOK
<1>3. conf' \in [Ids -> ConfPCs]
  BY DEF Throw, Inv, TypeOK, ConfPCs
<1>4. rc' \in [Ids -> [Receipts -> ReceiptPCs]]
  <2>1. rc \in [Ids -> [Receipts -> ReceiptPCs]]
    BY DEF Inv, TypeOK
  <2>2. ASSUME NEW s \in Receipts, rc' = [rc EXCEPT ![e][s] = Redelivered(@)]
        PROVE  rc' \in [Ids -> [Receipts -> ReceiptPCs]]
    <3>1. Redelivered(rc[e][s]) \in ReceiptPCs
      BY <2>1 DEF Redelivered, ReceiptPCs
    <3> QED
      BY <2>1, <2>2, <3>1
  <2> QED
    BY <2>1, <2>2 DEF Throw
<1>5. TypeOK'
  <2>1. TypeOK
    BY DEF Inv
  <2>2. UNCHANGED <<calls, sent, gateway, server, browser, crashes>>
    BY DEF Throw
  <2> QED
    BY <1>2, <1>3, <1>4, <2>1, <2>2 DEF gateway, server, browser, TypeOK
<1>6. Fresh'
  <2>1. Fresh /\ owner' = owner /\ screen' = screen
    BY DEF Throw, gateway, browser, Inv
  <2>2. conf \in [Ids -> ConfPCs] /\ rc \in [Ids -> [Receipts -> ReceiptPCs]]
    BY DEF Inv, TypeOK
  <2>3. ASSUME conf[e] # "none", conf' = [conf EXCEPT ![e] = "queue"], rc' = rc
        PROVE  Fresh'
    BY <2>1, <2>2, <2>3 DEF Fresh
  <2>4. ASSUME NEW s \in Receipts, rc[e][s] # "none", conf' = conf,
               rc' = [rc EXCEPT ![e][s] = Redelivered(@)]
        PROVE  Fresh'
    <3>1. owner[e] # NULL
      BY <2>1, <2>4 DEF Fresh
    <3>2. \A f \in Ids : f # e => rc'[f] = rc[f]
      BY <2>2, <2>4
    <3> QED
      BY <2>1, <2>4, <3>1, <3>2 DEF Fresh
  <2> QED
    BY <2>3, <2>4 DEF Throw
<1> QED
  BY <1>1, <1>2, <1>5, <1>6 DEF Inv

LEMMA StutterKept ==
  ASSUME Inv, UNCHANGED vars PROVE Inv'
  BY DEF Inv, TypeOK, GwOK, Fresh, OneBubble, QueueSent, vars, gateway, server,
    browser

LEMMA NextKept == ASSUME Inv, [Next]_vars PROVE Inv'
<1>1. ASSUME NEW r \in Replies, Send(r) \/ Publish(r) PROVE Inv'
  BY <1>1, SendKept, PublishKept
<1>2. CASE Gateway \/ GatewayCrash
  BY <1>2, TakeKept, SendToApiKept, PublishConfirmationKept, AckKept,
     GatewayCrashKept DEF Gateway
<1>3. ASSUME NEW e \in Ids, Confirm(e) \/ Throw(e) PROVE Inv'
  BY <1>3, ConfirmKept, ThrowKept
<1>4. ASSUME NEW e \in Ids, NEW s \in Receipts, Report(e, s) \/ Raise(e, s)
      PROVE  Inv'
  BY <1>4, ReportKept, RaiseKept
<1>5. CASE WebCrash \/ Quiet \/ UNCHANGED vars
  BY <1>5, WebCrashKept, StutterKept DEF Quiet
<1> QED
  BY <1>1, <1>2, <1>3, <1>4, <1>5 DEF Next

LEMMA InvHolds == Spec => []Inv
  BY InitInv, NextKept, PTL DEF Spec

(* Every variable keeps its type.                                          *)
THEOREM OutboundTypes == Spec => []TypeOK
<1>1. Inv => TypeOK
  BY DEF Inv
<1> QED
  BY <1>1, InvHolds, PTL

(* A reply is not shown both as the bubble that was being sent and as the  *)
(* stored message (reconcileSentConfirmation).                             *)
THEOREM ShownOnce == Spec => []OneBubble
<1>1. Inv => OneBubble
  BY DEF Inv
<1> QED
  BY <1>1, InvHolds, PTL

=============================================================================
