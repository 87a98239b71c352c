--------------------------- MODULE OutboundScreen ---------------------------
(***************************************************************************)
(* The attendant's screen in Outbound, for any replies, ids and receipts:  *)
(* while the web process has not failed, the screen catches up with the    *)
(* stored status, in whatever order the events are emitted.                *)
(***************************************************************************)
EXTENDS OutboundProofs

(* The status t of e is shown, remembered or on its way to the browser.    *)
Coming(e, t) ==
  \/ Priority[screen[e]] >= t \/ Priority[pending[e]] >= t
  \/ \E s \in Receipts : rc[e][s] = "emit" /\ Priority[s] >= t
  \/ conf[e] # "done" /\ Priority[FirstStatus] >= t

(* Without a failure each confirmation is handled once.                    *)
Track(e) ==
  /\ gw.pc = "confirm" /\ gw.e = e => conf[e] = "none"
  /\ conf[e] \in {"none", "queue", "upsert", "mark"} => e \notin processed
  /\ conf[e] = "done" =>
       Priority[screen[e]] >= Priority[FirstStatus] /\ pending[e] = "none"
  /\ screen[e] # "none" => pending[e] = "none"
  /\ Coming(e, Priority[row[e]])

Tracked == faults = crashes => \A e \in Ids : Track(e)

-----------------------------------------------------------------------------
LEMMA Priorities ==
  /\ \A s \in Statuses : Priority[s] \in 0..3
  /\ Priority["none"] = 0
  /\ FirstStatus \in Statuses /\ Priority[FirstStatus] \in 1..3
  /\ \A s, t \in Statuses :
       /\ Higher(s, t) \in Statuses
       /\ Priority[Higher(s, t)] >= Priority[s]
       /\ Priority[Higher(s, t)] >= Priority[t]
<1>1. \A s \in Statuses : Priority[s] \in 0..3
  BY DEF Priority, Statuses, Receipts
<1>2. FirstStatus \in Statuses /\ Priority[FirstStatus] \in 1..3
  BY OutboundAssumption DEF Priority, Statuses, Receipts
<1>3. Priority["none"] = 0
  BY DEF Priority
<1>4. ASSUME NEW s \in Statuses, NEW t \in Statuses
      PROVE  /\ Higher(s, t) \in Statuses
             /\ Priority[Higher(s, t)] >= Priority[s]
             /\ Priority[Higher(s, t)] >= Priority[t]
  BY <1>1 DEF Higher
<1> QED
  BY <1>1, <1>2, <1>3, <1>4

LEMMA Typed ==
  ASSUME Inv, NEW e \in Ids
  PROVE  /\ conf[e] \in ConfPCs
         /\ row[e] \in Statuses /\ screen[e] \in Statuses
         /\ pending[e] \in Statuses
         /\ \A s \in Receipts : s \in Statuses /\ rc[e][s] \in ReceiptPCs
         /\ owner[e] # NULL => owner[e] \in Replies
  BY DEF Inv, TypeOK, Statuses

LEMMA InitTracked == Init => Tracked
<1> SUFFICES ASSUME Init, NEW e \in Ids PROVE Track(e)
  BY DEF Tracked
<1>1. screen[e] = "none" /\ row[e] = "none"
  BY DEF Init
<1>2. Coming(e, Priority[row[e]])
  BY <1>1, Priorities DEF Coming
<1> QED
  BY <1>2 DEF Init, Track, Idle

(* Steps that change nothing of e.                                         *)
LEMMA TrackAside ==
  ASSUME Inv, Inv', NEW e \in Ids, Track(e), row'[e] = row[e],
         screen'[e] = screen[e], pending'[e] = pending[e], rc'[e] = rc[e],
         conf'[e] = conf[e], e \in processed' => e \in processed,
         gw'.pc = "confirm" /\ gw'.e = e => conf[e] = "none"
  PROVE  Track(e)'
  BY DEF Track, Coming

-----------------------------------------------------------------------------
LEMMA CallTracked ==
  ASSUME Inv, Inv', Tracked, NEW r \in Replies, Send(r) \/ Publish(r)
  PROVE  Tracked'
<1> SUFFICES ASSUME NEW e \in Ids, faults' = crashes' PROVE Track(e)'
  BY DEF Tracked
<1>1. /\ UNCHANGED <<row, pending, rc, conf, processed, gw, faults, crashes>>
      /\ screen'[e] = screen[e]
  BY OutboundAssumption DEF Send, Publish, gateway, server, browser, Inv, TypeOK
<1>2. Track(e)
  BY <1>1 DEF Tracked
<1> QED
  BY <1>1, <1>2, TrackAside DEF Track

LEMMA GatewayTracked ==
  ASSUME Inv, Inv', Tracked, Gateway \/ GatewayCrash
  PROVE  Tracked'
<1> SUFFICES ASSUME NEW e \in Ids, faults' = crashes' PROVE Track(e)'
  BY DEF Tracked
<1>1. UNCHANGED <<row, screen, pending, rc, processed>>
  BY DEF Gateway, Take, SendToApi, PublishConfirmation, Ack, GatewayCrash, server,
    browser
<1>2. Track(e)
  <2>1. crashes \in Nat /\ faults \in Nat
    BY DEF Inv, TypeOK
  <2>2. faults = crashes
    <3>1. CASE GatewayCrash
      BY <2>1, <3>1 DEF GatewayCrash
    <3>2. CASE Gateway
      BY <3>2 DEF Gateway, Take, SendToApi, PublishConfirmation, Ack
    <3> QED
      BY <3>1, <3>2
  <2> QED
    BY <2>2 DEF Tracked
<1>3. CASE Take \/ Ack \/ GatewayCrash
  <2>1. gw'.pc # "confirm" /\ conf' = conf
    <3>1. Idle.pc = "idle" /\ [Idle EXCEPT !.pc = "send", !.r = Head(queue)].pc = "send"
      BY DEF Idle
    <3> QED
      BY <1>3, <3>1 DEF Take, Ack, GatewayCrash
  <2> QED
    BY <1>1, <1>2, <2>1, TrackAside
<1>4. CASE SendToApi
  <2>1. conf' = conf
    BY <1>4 DEF SendToApi
  <2>2. gw'.pc = "confirm" /\ gw'.e = e => owner[e] = NULL
    <3>1. CASE Nack
      BY <3>1 DEF Nack, Idle
    <3>2. ASSUME NEW f \in Ids, Reach(f), gw' = [gw EXCEPT !.pc = "confirm", !.e = f]
          PROVE  gw'.e = f /\ owner[f] = NULL
      BY <3>2, GwType DEF Reach, Unused
    <3> QED
      BY <1>4, <3>1, <3>2 DEF SendToApi
  <2>3. gw'.pc = "confirm" /\ gw'.e = e => conf[e] = "none"
    BY <2>2 DEF Inv, Fresh
  <2> QED
    BY <1>1, <1>2, <2>1, <2>3, TrackAside
<1>5. CASE PublishConfirmation
  <2>1. /\ gw'.pc = "ack" /\ gw.pc = "confirm"
        /\ conf' = conf \/ conf' = [conf EXCEPT ![gw.e] = "queue"]
    BY <1>5, GwType DEF PublishConfirmation
  <2>2. CASE conf'[e] = conf[e]
    BY <1>1, <1>2, <2>1, <2>2, TrackAside
  <2>3. CASE gw.e = e /\ conf'[e] = "queue"
    BY <1>1, <1>2, <2>1, <2>3 DEF Track, Coming
  <2> QED
    BY <2>1, <2>2, <2>3 DEF Inv, TypeOK
<1> QED
  BY <1>3, <1>4, <1>5 DEF Gateway

LEMMA ConfirmTracked ==
  ASSUME Inv, Inv', Tracked, NEW f \in Ids, Confirm(f)
  PROVE  Tracked'
<1> SUFFICES ASSUME NEW e \in Ids, faults' = crashes' PROVE Track(e)'
  BY DEF Tracked
<1>1. UNCHANGED <<gw, rc, faults, crashes>> /\ Track(e)
  BY DEF Tracked, Confirm, Exists, UpsertRow, MarkProcessed, EmitConfirmed, gateway
<1>2. owner[f] \in Replies /\ owner[f] # e
  BY OutboundAssumption DEF Confirm, Exists, UpsertRow, MarkProcessed,
    EmitConfirmed, Inv, Fresh, TypeOK
<1>3. CASE e # f
  <2>1. /\ row'[e] = row[e] /\ screen'[e] = screen[e] /\ pending'[e] = pending[e]
        /\ conf'[e] = conf[e] /\ (e \in processed' => e \in processed)
    BY <1>2, <1>3 DEF Confirm, Exists, UpsertRow, MarkProcessed, EmitConfirmed,
      Reconcile, server, browser, Inv, TypeOK
  <2> QED
    BY <1>1, <2>1, TrackAside DEF Track
<1>4. CASE e = f /\ (Exists(e) \/ UpsertRow(e) \/ MarkProcessed(e))
  <2>1. /\ conf'[e] \in {"upsert", "mark", "emit"} /\ conf[e] # "none"
        /\ UNCHANGED <<screen, pending>>
        /\ row'[e] \in {row[e], FirstStatus}
        /\ conf'[e] # "emit" => processed' = processed
        /\ conf[e] \notin {"none", "done", "emit"}
    BY <1>1, <1>4 DEF Exists, UpsertRow, MarkProcessed, Track, server, browser,
      Inv, TypeOK
  <2>2. Coming(e, Priority[row[e]])'
    BY <1>1, <2>1, Priorities DEF Track, Coming
  <2>3. conf[e] \in {"queue", "upsert", "mark"}
    BY <2>1, Typed DEF ConfPCs
  <2> QED
    BY <1>1, <2>1, <2>2, <2>3 DEF Track
<1>5. CASE e = f /\ EmitConfirmed(e)
  <2>1. /\ screen'[e] = Confirmed(e) /\ pending'[e] = "none" /\ conf'[e] = "done"
        /\ conf[e] = "emit" /\ UNCHANGED row
    BY <1>2, <1>5 DEF EmitConfirmed, Reconcile, server, Inv, TypeOK
  <2>2. /\ Confirmed(e) \in Statuses
        /\ Priority[Confirmed(e)] >= Priority[FirstStatus]
        /\ Priority[Confirmed(e)] >= Priority[pending[e]]
        /\ Priority[Confirmed(e)] >= Priority[screen[e]]
    <3> DEFINE h == Higher(FirstStatus, pending[e])
    <3>1. /\ h \in Statuses /\ Priority[h] >= Priority[FirstStatus]
          /\ Priority[h] >= Priority[pending[e]]
      BY Typed, Priorities
    <3>2. /\ Higher(h, screen[e]) \in Statuses
          /\ Priority[Higher(h, screen[e])] >= Priority[h]
          /\ Priority[Higher(h, screen[e])] >= Priority[screen[e]]
      BY <3>1, Typed, Priorities
    <3>3. /\ Priority[FirstStatus] \in 0..3 /\ Priority[pending[e]] \in 0..3
          /\ Priority[h] \in 0..3 /\ Priority[Higher(h, screen[e])] \in 0..3
      BY <3>1, <3>2, Typed, Priorities
    <3> HIDE DEF h
    <3>4. Confirmed(e) = Higher(h, screen[e])
      BY DEF Confirmed, h
    <3> QED
      BY <3>1, <3>2, <3>3, <3>4
  <2>3. Coming(e, Priority[row[e]])'
    BY <1>1, <2>1, <2>2, Typed, Priorities DEF Track, Coming
  <2> QED
    BY <1>1, <2>1, <2>2, <2>3 DEF Track
<1> QED
  BY <1>3, <1>4, <1>5 DEF Confirm

LEMMA ReceiptTracked ==
  ASSUME Inv, Inv', Tracked, NEW f \in Ids, NEW s \in Receipts,
         Report(f, s) \/ Raise(f, s)
  PROVE  Tracked'
<1> SUFFICES ASSUME NEW e \in Ids, faults' = crashes' PROVE Track(e)'
  BY DEF Tracked
<1>1. UNCHANGED <<gw, conf, processed, faults, crashes>> /\ Track(e)
  BY DEF Tracked, Report, Raise, ReadRow, WriteRow, EmitStatus, gateway, server
<1>2. CASE e # f
  <2>1. /\ row'[e] = row[e] /\ screen'[e] = screen[e] /\ pending'[e] = pending[e]
        /\ rc'[e] = rc[e]
    BY <1>2 DEF Report, Raise, ReadRow, WriteRow, EmitStatus, server, browser,
      Inv, TypeOK
  <2> QED
    BY <1>1, <2>1, TrackAside DEF Track
<1>3. CASE e = f /\ (Report(e, s) \/ ReadRow(e, s))
  <2>1. /\ UNCHANGED <<row, screen, pending>>
        /\ \A t \in Receipts : rc[e][t] = "emit" => rc'[e][t] = "emit"
    BY <1>3 DEF Report, ReadRow, Reported, server, browser, Inv, TypeOK
  <2> QED
    BY <1>1, <2>1 DEF Track, Coming
<1>4. CASE e = f /\ WriteRow(e, s)
  <2>1. /\ UNCHANGED <<screen, pending>> /\ row'[e] = s /\ rc'[e][s] = "emit"
    BY <1>4 DEF WriteRow, browser, Inv, TypeOK
  <2>2. Coming(e, Priority[row[e]])'
    BY <2>1, Typed, Priorities DEF Coming
  <2> QED
    BY <1>1, <2>1, <2>2 DEF Track
<1>5. CASE e = f /\ EmitStatus(e, s)
  <2>1. /\ row'[e] = row[e] /\ conf[e] = conf'[e]
        /\ \A t \in Receipts : t # s => rc'[e][t] = rc[e][t]
        /\ \/ /\ screen[e] # "none" /\ pending'[e] = "none"
              /\ screen'[e] = Higher(screen[e], s)
           \/ /\ screen[e] = "none" /\ pending'[e] = Higher(pending[e], s)
              /\ screen'[e] = screen[e]
    BY <1>5 DEF EmitStatus, server, Inv, TypeOK
  <2>2. /\ Priority[Higher(screen[e], s)] >= Priority[screen[e]]
        /\ Priority[Higher(screen[e], s)] >= Priority[s]
        /\ Priority[Higher(pending[e], s)] >= Priority[pending[e]]
        /\ Priority[Higher(pending[e], s)] >= Priority[s]
        /\ Higher(screen[e], s) \in Statuses /\ Higher(pending[e], s) \in Statuses
    BY Typed, Priorities
  <2>3. /\ Priority[screen[e]] \in 0..3 /\ Priority[pending[e]] \in 0..3
        /\ Priority[s] \in 0..3 /\ Priority[row[e]] \in 0..3
        /\ Priority[Higher(screen[e], s)] \in 0..3
        /\ Priority[Higher(pending[e], s)] \in 0..3
        /\ Priority[FirstStatus] \in 1..3 /\ Priority["none"] = 0
    BY <2>2, Typed, Priorities
  <2>4. CASE screen[e] # "none"
    <3>1. pending[e] = "none" /\ pending'[e] = "none"
            /\ screen'[e] = Higher(screen[e], s)
      BY <1>1, <2>1, <2>4 DEF Track
    <3>2. Coming(e, Priority[row[e]])'
      BY <1>1, <2>1, <2>2, <2>3, <3>1, Typed, Priorities DEF Track, Coming
    <3> QED
      BY <1>1, <2>1, <2>2, <2>3, <3>1, <3>2 DEF Track
  <2>5. CASE screen[e] = "none"
    <3>1. pending'[e] = Higher(pending[e], s) /\ screen'[e] = "none"
      BY <2>1, <2>5
    <3>2. Coming(e, Priority[row[e]])'
      BY <1>1, <2>1, <2>2, <2>3, <2>5, <3>1, Typed, Priorities DEF Track, Coming
    <3>3. conf[e] # "done"
      BY <1>1, <2>3, <2>5 DEF Track
    <3> QED
      BY <1>1, <2>1, <3>1, <3>2, <3>3 DEF Track
  <2> QED
    BY <2>4, <2>5
<1> QED
  BY <1>2, <1>3, <1>4, <1>5 DEF Raise

(* A failure of the web process, after which nothing is claimed.           *)
LEMMA FailureTracked ==
  ASSUME Inv, WebCrash \/ \E e \in Ids : Throw(e) PROVE Tracked'
<1>1. faults' = faults + 1 /\ crashes' = crashes /\ crashes <= faults
        /\ crashes \in Nat /\ faults \in Nat
  BY DEF WebCrash, Throw, WebFault, Inv, TypeOK
<1> QED
  BY <1>1 DEF Tracked

LEMMA StutterTracked ==
  ASSUME Inv, Tracked, UNCHANGED vars PROVE Tracked'
  BY DEF Tracked, Track, Coming, vars, gateway, server, browser

LEMMA NextTracked == ASSUME Inv, Tracked, [Next]_vars PROVE Tracked'
<1>1. Inv'
  BY NextKept
<1>2. ASSUME NEW r \in Replies, Send(r) \/ Publish(r) PROVE Tracked'
  BY <1>1, <1>2, CallTracked
<1>3. CASE Gateway \/ GatewayCrash
  BY <1>1, <1>3, GatewayTracked
<1>4. ASSUME NEW e \in Ids, Confirm(e) \/ Throw(e) PROVE Tracked'
  BY <1>1, <1>4, ConfirmTracked, FailureTracked
<1>5. ASSUME NEW e \in Ids, NEW s \in Receipts, Report(e, s) \/ Raise(e, s)
      PROVE  Tracked'
  BY <1>1, <1>5, ReceiptTracked
<1>6. CASE WebCrash \/ Quiet \/ UNCHANGED vars
  BY <1>6, FailureTracked, StutterTracked DEF Quiet
<1> QED
  BY <1>2, <1>3, <1>4, <1>5, <1>6 DEF Next

LEMMA TrackedHolds == Spec => []Tracked
  BY InitTracked, NextTracked, InvHolds, PTL DEF Spec

(* Without a failure of the web process, the screen of a confirmed message *)
(* shows at least its stored status once nothing more is being emitted     *)
(* (reconcileSentConfirmation, handleMessageStatusUpdate).                 *)
THEOREM ScreenShowsTheStatus == Spec => []ScreenCatchesUp
<1>1. Inv /\ Tracked => ScreenCatchesUp
  <2> SUFFICES ASSUME Inv, Tracked, NEW e \in Ids, conf[e] = "done",
                      faults = crashes, \A s \in Receipts : rc[e][s] # "emit"
               PROVE  Priority[screen[e]] >= Priority[row[e]]
    BY DEF ScreenCatchesUp
  <2>1. Track(e)
    BY DEF Tracked
  <2>2. /\ Priority[screen[e]] \in 0..3 /\ Priority[row[e]] \in 0..3
        /\ Priority["none"] = 0
    BY Typed, Priorities
  <2> QED
    BY <2>1, <2>2 DEF Track, Coming
<1> QED
  BY <1>1, InvHolds, TrackedHolds, PTL

=============================================================================
