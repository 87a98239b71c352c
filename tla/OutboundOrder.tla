--------------------------- MODULE OutboundOrder ----------------------------
(***************************************************************************)
(* What reaches the customer in Outbound, for any replies, ids, receipts   *)
(* and faults: the order of the replies and how often one is sent again.   *)
(***************************************************************************)
EXTENDS OutboundProofs

(* A reply is published once, so that its place among the published ones   *)
(* is fixed.                                                               *)
Distinct == \A i, j \in DOMAIN sent : sent[i] = sent[j] => i = j
CallsNew == \A r \in calls : ~In(sent, r)

Placed == [r \in Replies |-> Place(r)]

(* The customer's replies come before the gateway's, and that one before   *)
(* the queue's.                                                            *)
QueueSorted ==
  \A i, j \in DOMAIN queue : i < j => Placed[queue[i]] < Placed[queue[j]]
GwFirst ==
  gw.pc # "idle" =>
    \A y \in Replies : In(queue, y) => Placed[gw.r] < Placed[y]
PhoneFirst ==
  \A x \in Replies : In(phone, x) =>
    /\ In(sent, x)
    /\ gw.pc # "idle" => Placed[x] <= Placed[gw.r]
    /\ \A y \in Replies : In(queue, y) => Placed[x] <= Placed[y]

(* InOrder, by places.                                                     *)
PhoneSorted ==
  \A i, j \in DOMAIN phone : i < j => Placed[phone[i]] <= Placed[phone[j]]

(* A reply that the provider may yet get for the first time since the      *)
(* last crash.                                                             *)
Live(r) == In(queue, r) \/ (gw.r = r /\ gw.pc = "send") \/ ~In(sent, r)
CopiesOK ==
  \A r \in Replies :
    /\ Copies(r) \in Nat
    /\ Copies(r) <= crashes + (IF Live(r) THEN 0 ELSE 1)

Order ==
  /\ Distinct /\ CallsNew /\ QueueSorted /\ GwFirst /\ PhoneFirst
  /\ PhoneSorted /\ CopiesOK

-----------------------------------------------------------------------------
LEMMA SentPlaces ==
  ASSUME Inv, Distinct, NEW r \in Replies, In(sent, r)
  PROVE  /\ Placed[r] \in 1..Len(sent) /\ sent[Placed[r]] = r
         /\ \A i \in DOMAIN sent : sent[i] = r => Placed[r] = i
<1>1. DOMAIN sent = 1..Len(sent)
  BY DEF Inv, TypeOK
<1>2. Place(r) \in DOMAIN sent /\ sent[Place(r)] = r
  BY DEF In, Place
<1> QED
  BY <1>1, <1>2 DEF Placed, Distinct

(* Steps that publish nothing keep the places.                             *)
LEMMA SamePlaces ==
  ASSUME sent' = sent PROVE Placed' = Placed
  BY DEF Placed, Place

(* Steps that send nothing: a reply becomes live by a crash only.          *)
LEMMA CopiesKept ==
  ASSUME Inv, Order, phone' = phone, crashes' \in Nat, crashes' >= crashes,
         \A r \in Replies : Live(r)' => Live(r) \/ crashes' >= crashes + 1
  PROVE  CopiesOK'
<1>1. \A r \in Replies : Copies(r)' = Copies(r)
  BY DEF Copies
<1>2. crashes \in Nat
  BY DEF Inv, TypeOK
<1> QED
  BY <1>1, <1>2 DEF CopiesOK, Order

LEMMA CopiesAppend ==
  ASSUME Inv, NEW x \in Replies, phone' = Append(phone, x), NEW r \in Replies,
         Copies(r) \in Nat
  PROVE  Copies(r)' = IF r = x THEN Copies(r) + 1 ELSE Copies(r)
<1> DEFINE A == {i \in DOMAIN phone : phone[i] = r}
           n == Len(phone)
<1>1. /\ phone \in Seq(Replies) /\ n \in Nat /\ DOMAIN phone = 1..n
      /\ DOMAIN phone' = 1..(n + 1) /\ phone'[n + 1] = x
      /\ \A i \in 1..n : phone'[i] = phone[i]
  BY DEF Inv, TypeOK
<1>2. IsFiniteSet(A)
  <2>1. IsFiniteSet(1..n)
    BY <1>1, FS_Interval
  <2> QED
    BY <1>1, <2>1, FS_Subset
<1>3. {i \in DOMAIN phone' : phone'[i] = r} = IF r = x THEN A \cup {n + 1} ELSE A
  BY <1>1
<1>4. n + 1 \notin A
  BY <1>1
<1>5. Cardinality(A \cup {n + 1}) = Cardinality(A) + 1
  BY <1>2, <1>4, FS_AddElement
<1> QED
  BY <1>3, <1>5 DEF Copies

-----------------------------------------------------------------------------
LEMMA InitOrder == Init => Order
<1> SUFFICES ASSUME Init PROVE Order
  OBVIOUS
<1>1. \A r \in Replies : Copies(r) = 0
  <2>1. \A r \in Replies : {i \in DOMAIN phone : phone[i] = r} = {}
    BY DEF Init
  <2> QED
    BY <2>1, FS_EmptySet DEF Copies
<1>2. CopiesOK
  BY <1>1 DEF Init, CopiesOK
<1> QED
  BY <1>2 DEF Init, Order, Distinct, CallsNew, QueueSorted, GwFirst, PhoneFirst,
    PhoneSorted, In, Idle

(* Steps that change neither the queue nor what the customer has.          *)
LEMMA AsideOrder ==
  ASSUME Inv, Order, UNCHANGED <<sent, queue, phone, crashes>>,
         \A r \in calls' : ~In(sent, r),
         gw'.pc # "idle" => gw.pc # "idle" /\ gw'.r = gw.r,
         gw'.pc = "send" => gw.pc = "send"
  PROVE  Order'
<1>1. Placed' = Placed
  BY SamePlaces
<1>2. Distinct' /\ CallsNew' /\ QueueSorted' /\ GwFirst' /\ PhoneFirst'
  BY <1>1 DEF Order, Distinct, CallsNew, QueueSorted, GwFirst, PhoneFirst
<1>3. PhoneSorted'
  BY <1>1 DEF Order, PhoneSorted
<1>4. crashes' \in Nat /\ crashes' >= crashes
  BY DEF Inv, TypeOK
<1>5. \A r \in Replies : Live(r)' => Live(r)
  BY DEF Live
<1>6. CopiesOK'
  BY <1>4, <1>5, CopiesKept
<1> QED
  BY <1>2, <1>3, <1>6 DEF Order

LEMMA TakeOrder ==
  ASSUME Inv, Order, Take PROVE Order'
<1>1. /\ queue \in Seq(Replies) /\ queue # <<>> /\ queue' = Tail(queue)
      /\ UNCHANGED <<sent, calls, phone, crashes>>
      /\ gw'.pc = "send" /\ gw'.r = Head(queue) /\ gw.pc = "idle"
  BY DEF Take, Inv, TypeOK, Idle
<1>2. Placed' = Placed
  BY <1>1, SamePlaces
<1>3. /\ DOMAIN queue = 1..Len(queue) /\ Len(queue) \in Nat \ {0}
      /\ DOMAIN queue' = 1..(Len(queue) - 1) /\ Head(queue) = queue[1]
      /\ \A i \in DOMAIN queue' : queue'[i] = queue[i + 1]
  BY <1>1
<1>4. QueueSorted'
  <2> SUFFICES ASSUME NEW i \in DOMAIN queue', NEW j \in DOMAIN queue', i < j
               PROVE  Placed[queue'[i]] < Placed[queue'[j]]
    BY <1>2 DEF QueueSorted
  <2>1. i + 1 \in DOMAIN queue /\ j + 1 \in DOMAIN queue /\ i + 1 < j + 1
    BY <1>3
  <2> QED
    BY <1>3, <2>1 DEF Order, QueueSorted
<1>5. GwFirst'
  <2> SUFFICES ASSUME NEW y \in Replies, In(queue', y)
               PROVE  Placed[Head(queue)] < Placed[y]
    BY <1>1, <1>2 DEF GwFirst
  <2>1. PICK i \in DOMAIN queue' : queue'[i] = y
    BY DEF In
  <2>2. 1 \in DOMAIN queue /\ i + 1 \in DOMAIN queue /\ 1 < i + 1
    BY <1>3
  <2> QED
    BY <1>3, <2>1, <2>2 DEF Order, QueueSorted
<1>6. \A x : In(queue, x) <=> x = Head(queue) \/ In(queue', x)
  BY <1>1, InTail
<1>7. Head(queue) \in Replies
  BY <1>1, InTail
<1>8. PhoneFirst'
  BY <1>1, <1>2, <1>6, <1>7 DEF PhoneFirst, Order
<1>9. Distinct' /\ CallsNew' /\ PhoneSorted'
  BY <1>1, <1>2 DEF Order, Distinct, CallsNew, PhoneSorted
<1>10. \A r \in Replies : Live(r)' => Live(r)
  BY <1>1, <1>6 DEF Live
<1>11. CopiesOK'
  <2>1. crashes' \in Nat /\ crashes' >= crashes
    BY <1>1 DEF Inv, TypeOK
  <2> QED
    BY <1>1, <1>10, <2>1, CopiesKept
<1> QED
  BY <1>4, <1>5, <1>8, <1>9, <1>11 DEF Order

LEMMA GatewayCrashOrder ==
  ASSUME Inv, Order, GatewayCrash PROVE Order'
<1>1. /\ queue \in Seq(Replies) /\ queue' = <<gw.r>> \o queue
      /\ UNCHANGED <<sent, calls, phone>> /\ crashes' = crashes + 1
      /\ gw'.pc = "idle" /\ gw.pc # "idle" /\ gw.r \in Replies /\ In(sent, gw.r)
  BY DEF GatewayCrash, Inv, TypeOK, GwOK, Idle
<1>2. Placed' = Placed
  BY <1>1, SamePlaces
<1>3. /\ DOMAIN queue = 1..Len(queue) /\ Len(queue) \in Nat
      /\ DOMAIN queue' = 1..(Len(queue) + 1) /\ queue'[1] = gw.r
      /\ \A i \in DOMAIN queue : queue'[i + 1] = queue[i]
  BY <1>1
<1>4. QueueSorted'
  <2> SUFFICES ASSUME NEW i \in DOMAIN queue', NEW j \in DOMAIN queue', i < j
               PROVE  Placed[queue'[i]] < Placed[queue'[j]]
    BY <1>2 DEF QueueSorted
  <2>1. j - 1 \in DOMAIN queue /\ queue'[j] = queue[j - 1]
    <3>1. j - 1 \in DOMAIN queue /\ j = (j - 1) + 1
      BY <1>3
    <3> QED
      BY <1>3, <3>1
  <2>2. queue[j - 1] \in Replies /\ In(queue, queue[j - 1])
    BY <1>1, <2>1 DEF In
  <2>3. CASE i = 1
    BY <1>1, <1>3, <2>1, <2>2, <2>3 DEF Order, GwFirst
  <2>4. CASE i # 1
    <3>1. i - 1 \in DOMAIN queue /\ i = (i - 1) + 1 /\ i - 1 < j - 1
      BY <1>3, <2>4
    <3>2. queue'[i] = queue[i - 1]
      BY <1>3, <3>1
    <3> QED
      BY <2>1, <3>1, <3>2 DEF Order, QueueSorted
  <2> QED
    BY <2>3, <2>4
<1>5. \A x : In(queue', x) <=> x = gw.r \/ In(queue, x)
  BY <1>1, InCons
<1>6. GwFirst' /\ PhoneFirst'
  BY <1>1, <1>2, <1>5 DEF GwFirst, PhoneFirst, Order
<1>7. Distinct' /\ CallsNew' /\ PhoneSorted'
  BY <1>1, <1>2 DEF Order, Distinct, CallsNew, PhoneSorted
<1>8. CopiesOK'
  <2>1. crashes' \in Nat /\ crashes' >= crashes + 1 /\ crashes' >= crashes
    BY <1>1 DEF Inv, TypeOK
  <2> QED
    BY <1>1, <2>1, CopiesKept
<1> QED
  BY <1>4, <1>6, <1>7, <1>8 DEF Order

(* The provider takes the gateway's reply.                                 *)
LEMMA ReachOrder ==
  ASSUME Inv, Order, SendToApi, NEW e \in Ids, Reach(e) PROVE Order'
<1> DEFINE r == gw.r
<1>1. /\ phone \in Seq(Replies) /\ phone' = Append(phone, r)
      /\ UNCHANGED <<sent, calls, crashes, queue>>
      /\ gw.pc = "send" /\ r \in Replies /\ In(sent, r)
  BY DEF SendToApi, Reach, Nack, Inv, TypeOK, GwOK
<1>2. gw'.pc # "send" /\ (gw'.pc # "idle" => gw'.r = r)
  <2>1. ASSUME NEW f, gw' = [gw EXCEPT !.pc = "confirm", !.e = f]
        PROVE  gw'.r = r /\ gw'.pc = "confirm"
    BY <2>1, GwType
  <2>2. CASE Nack
    BY <2>2 DEF Nack, Idle
  <2> QED
    BY <2>1, <2>2 DEF SendToApi
<1>3. Placed' = Placed
  BY <1>1, SamePlaces
<1>4. \A x : In(phone', x) <=> x = r \/ In(phone, x)
  BY <1>1, InAppend
<1>5. Placed[r] \in Int /\ \A y \in Replies : In(sent, y) => Placed[y] \in Int
  BY <1>1, SentPlaces DEF Order
<1>6. \A y \in Replies : In(queue, y) => Placed[r] < Placed[y]
  BY <1>1 DEF Order, GwFirst
<1>7. PhoneFirst'
  <2> SUFFICES ASSUME NEW x \in Replies, In(phone', x)
               PROVE  /\ In(sent, x) /\ Placed[x] <= Placed[r]
                      /\ \A y \in Replies : In(queue, y) => Placed[x] <= Placed[y]
    BY <1>1, <1>2, <1>3 DEF PhoneFirst
  <2>1. CASE In(phone, x)
    BY <1>1, <2>1 DEF Order, PhoneFirst
  <2>2. CASE x = r
    <3>1. ASSUME NEW y \in Replies, In(queue, y) PROVE Placed[r] <= Placed[y]
      <4>1. In(sent, y)
        BY <3>1 DEF Inv, QueueSent
      <4> QED
        BY <1>5, <1>6, <3>1, <4>1
    <3> QED
      BY <1>1, <1>5, <2>2, <3>1
  <2> QED
    BY <1>4, <2>1, <2>2
<1>8. PhoneSorted'
  <2> SUFFICES ASSUME NEW i \in DOMAIN phone', NEW j \in DOMAIN phone', i < j
               PROVE  Placed[phone'[i]] <= Placed[phone'[j]]
    BY <1>3 DEF PhoneSorted
  <2>1. /\ DOMAIN phone = 1..Len(phone) /\ Len(phone) \in Nat
        /\ DOMAIN phone' = 1..(Len(phone) + 1)
        /\ phone'[Len(phone) + 1] = r
        /\ \A l \in DOMAIN phone : phone'[l] = phone[l] /\ phone[l] \in Replies
    BY <1>1
  <2>2. i \in DOMAIN phone
    BY <2>1
  <2>3. CASE j \in DOMAIN phone
    BY <2>1, <2>2, <2>3 DEF Order, PhoneSorted
  <2>4. CASE j = Len(phone) + 1
    <3>1. In(phone, phone[i])
      BY <2>2 DEF In
    <3> QED
      BY <1>1, <2>1, <2>2, <2>4, <3>1 DEF Order, PhoneFirst
  <2> QED
    BY <2>1, <2>3, <2>4
<1>9. Distinct' /\ CallsNew' /\ QueueSorted' /\ GwFirst'
  BY <1>1, <1>2, <1>3, <1>6 DEF Order, Distinct, CallsNew, QueueSorted, GwFirst
<1>10. CopiesOK'
  <2> SUFFICES ASSUME NEW x \in Replies
               PROVE  /\ Copies(x)' \in Nat
                      /\ Copies(x)' <= crashes + (IF Live(x)' THEN 0 ELSE 1)
    BY <1>1 DEF CopiesOK
  <2>1. /\ Copies(x) \in Nat /\ crashes \in Nat
        /\ Copies(x) <= crashes + (IF Live(x) THEN 0 ELSE 1)
    BY DEF Order, CopiesOK, Inv, TypeOK
  <2>2. Copies(x)' = IF x = r THEN Copies(x) + 1 ELSE Copies(x)
    BY <1>1, <2>1, CopiesAppend
  <2>3. CASE x = r
    <3>1. ~In(queue, r)
      BY <1>1, <1>5, <1>6
    <3>2. ~Live(x)' /\ Live(x)
      BY <1>1, <1>2, <2>3, <3>1 DEF Live
    <3> QED
      BY <2>1, <2>2, <2>3, <3>2
  <2>4. CASE x # r
    <3>1. Live(x)' <=> Live(x)
      BY <1>1, <1>2, <2>4 DEF Live
    <3> QED
      BY <2>1, <2>2, <2>4, <3>1
  <2> QED
    BY <2>3, <2>4
<1> QED
  BY <1>7, <1>8, <1>9, <1>10 DEF Order

LEMMA GatewayOrder ==
  ASSUME Inv, Order, Gateway PROVE Order'
<1>1. CASE Take
  BY <1>1, TakeOrder
<1>2. CASE SendToApi /\ \E e \in Ids : Reach(e)
  BY <1>2, ReachOrder
<1>3. CASE SendToApi /\ Nack /\ UNCHANGED phone
  <2>1. gw'.pc = "idle" /\ UNCHANGED <<sent, queue, phone, crashes, calls>>
    BY <1>3 DEF SendToApi, Nack, Idle
  <2> QED
    BY <2>1, AsideOrder DEF Order, CallsNew
<1>4. CASE PublishConfirmation \/ Ack
  <2>1. /\ gw'.pc \in {"ack", "idle"} /\ (gw'.pc = "ack" => gw'.r = gw.r)
        /\ gw.pc # "idle" /\ UNCHANGED <<sent, queue, phone, crashes, calls>>
    BY <1>4, GwType DEF PublishConfirmation, Ack, Idle
  <2> QED
    BY <2>1, AsideOrder DEF Order, CallsNew
<1> QED
  BY <1>1, <1>2, <1>3, <1>4 DEF Gateway, SendToApi

(* A reply that is published comes after all the others.                   *)
LEMMA PublishOrder ==
  ASSUME Inv, Order, NEW r \in Replies, Publish(r), sent' = Append(sent, r),
         queue' = Append(queue, r)
  PROVE  Order'
<1>1. /\ sent \in Seq(Replies) /\ queue \in Seq(Replies) /\ phone \in Seq(Replies)
      /\ ~In(sent, r) /\ calls' = calls \ {r} /\ calls \subseteq Replies
      /\ UNCHANGED <<gw, phone, crashes>>
  BY DEF Publish, Inv, TypeOK, Order, CallsNew
<1>2. /\ DOMAIN sent = 1..Len(sent) /\ Len(sent) \in Nat
      /\ DOMAIN sent' = 1..(Len(sent) + 1) /\ sent'[Len(sent) + 1] = r
      /\ \A i \in DOMAIN sent : sent'[i] = sent[i]
  BY <1>1
<1>3. \A x : /\ In(sent', x) <=> x = r \/ In(sent, x)
             /\ In(queue', x) <=> x = r \/ In(queue, x)
  BY <1>1, InAppend
<1>4. Distinct'
  <2> SUFFICES ASSUME NEW i \in DOMAIN sent', NEW j \in DOMAIN sent',
                      sent'[i] = sent'[j]
               PROVE  i = j
    BY DEF Distinct
  <2>1. \A l \in DOMAIN sent : sent'[l] # r
    BY <1>1, <1>2 DEF In
  <2> QED
    BY <1>2, <2>1 DEF Order, Distinct
<1>5. CallsNew'
  BY <1>1, <1>3 DEF Order, CallsNew
<1>7. /\ Placed'[r] = Len(sent) + 1
      /\ \A x \in Replies : In(sent, x) =>
           /\ Placed'[x] = Placed[x] /\ Placed[x] \in 1..Len(sent)
  <2>1. \A x \in Replies : In(sent', x) =>
          \A i \in DOMAIN sent' : sent'[i] = x => Placed'[x] = i
    <3> SUFFICES ASSUME NEW x \in Replies, NEW i \in DOMAIN sent', sent'[i] = x
                 PROVE  Placed'[x] = i
      OBVIOUS
    <3> DEFINE first == CHOOSE l \in DOMAIN sent' : sent'[l] = x
    <3>1. first \in DOMAIN sent' /\ sent'[first] = x
      OBVIOUS
    <3>2. Placed'[x] = first
      BY DEF Placed, Place
    <3> HIDE DEF first
    <3> QED
      BY <1>4, <3>1, <3>2 DEF Distinct
  <2>2. Placed'[r] = Len(sent) + 1
    BY <1>2, <1>3, <2>1
  <2>3. ASSUME NEW x \in Replies, In(sent, x)
        PROVE  Placed'[x] = Placed[x] /\ Placed[x] \in 1..Len(sent)
    <3>1. Placed[x] \in 1..Len(sent) /\ sent[Placed[x]] = x
      BY <2>3, SentPlaces DEF Order
    <3> QED
      BY <1>2, <1>3, <2>1, <2>3, <3>1
  <2> QED
    BY <2>2, <2>3
<1>8. QueueSorted'
  <2> SUFFICES ASSUME NEW i \in DOMAIN queue', NEW j \in DOMAIN queue', i < j
               PROVE  Placed'[queue'[i]] < Placed'[queue'[j]]
    BY DEF QueueSorted
  <2>1. /\ DOMAIN queue = 1..Len(queue) /\ Len(queue) \in Nat
        /\ DOMAIN queue' = 1..(Len(queue) + 1) /\ queue'[Len(queue) + 1] = r
        /\ \A l \in DOMAIN queue : queue'[l] = queue[l] /\ queue[l] \in Replies
    BY <1>1
  <2>2. \A l \in DOMAIN queue : In(sent, queue[l])
    BY <2>1 DEF Inv, QueueSent, In
  <2>3. i \in DOMAIN queue
    BY <2>1
  <2>4. CASE j \in DOMAIN queue
    BY <1>7, <2>1, <2>2, <2>3, <2>4 DEF Order, QueueSorted
  <2>5. CASE j = Len(queue) + 1
    BY <1>2, <1>7, <2>1, <2>2, <2>3, <2>5
  <2> QED
    BY <2>1, <2>4, <2>5
<1>9. GwFirst'
  <2> SUFFICES ASSUME gw.pc # "idle", NEW y \in Replies, In(queue', y)
               PROVE  Placed'[gw.r] < Placed'[y]
    BY <1>1 DEF GwFirst
  <2>1. gw.r \in Replies /\ In(sent, gw.r)
    BY DEF Inv, GwOK
  <2>2. In(queue, y) => In(sent, y) /\ Placed[gw.r] < Placed[y]
    BY DEF Order, GwFirst, Inv, QueueSent
  <2> QED
    BY <1>2, <1>3, <1>7, <2>1, <2>2
<1>10. PhoneFirst'
  <2> SUFFICES ASSUME NEW x \in Replies, In(phone, x)
               PROVE  /\ In(sent', x)
                      /\ gw.pc # "idle" => Placed'[x] <= Placed'[gw.r]
                      /\ \A y \in Replies : In(queue', y) => Placed'[x] <= Placed'[y]
    BY <1>1 DEF PhoneFirst
  <2>1. /\ In(sent, x)
        /\ gw.pc # "idle" => Placed[x] <= Placed[gw.r]
        /\ \A y \in Replies : In(queue, y) => Placed[x] <= Placed[y]
    BY DEF Order, PhoneFirst
  <2>2. gw.pc # "idle" => gw.r \in Replies /\ In(sent, gw.r)
    BY DEF Inv, GwOK
  <2>3. \A y \in Replies : In(queue, y) => In(sent, y)
    BY DEF Inv, QueueSent
  <2>4. ASSUME NEW y \in Replies, In(queue', y) PROVE Placed'[x] <= Placed'[y]
    <3>1. CASE y = r
      BY <1>2, <1>7, <2>1, <3>1
    <3>2. CASE In(queue, y)
      BY <1>7, <2>1, <2>3, <3>2
    <3> QED
      BY <1>3, <2>4, <3>1, <3>2
  <2>5. gw.pc # "idle" => Placed'[x] <= Placed'[gw.r]
    BY <1>7, <2>1, <2>2
  <2> QED
    BY <1>3, <2>1, <2>4, <2>5
<1>11. PhoneSorted'
  <2> SUFFICES ASSUME NEW i \in DOMAIN phone, NEW j \in DOMAIN phone, i < j
               PROVE  Placed'[phone[i]] <= Placed'[phone[j]]
    BY <1>1 DEF PhoneSorted
  <2>1. phone[i] \in Replies /\ phone[j] \in Replies
    BY <1>1
  <2>2. In(phone, phone[i]) /\ In(phone, phone[j])
    BY DEF In
  <2>3. In(sent, phone[i]) /\ In(sent, phone[j])
    BY <2>1, <2>2 DEF Order, PhoneFirst
  <2> QED
    BY <1>7, <2>1, <2>3 DEF Order, PhoneSorted
<1>12. CopiesOK'
  <2>1. \A x \in Replies : Live(x)' => Live(x)
    BY <1>1, <1>3 DEF Live
  <2>2. crashes' \in Nat /\ crashes' >= crashes
    BY <1>1 DEF Inv, TypeOK
  <2> QED
    BY <1>1, <2>1, <2>2, CopiesKept
<1> QED
  BY <1>4, <1>5, <1>8, <1>9, <1>10, <1>11, <1>12 DEF Order

LEMMA CallOrder ==
  ASSUME Inv, Order, NEW r \in Replies, Send(r) \/ Publish(r) PROVE Order'
<1>1. CASE Publish(r) /\ sent' = Append(sent, r) /\ queue' = Append(queue, r)
  BY <1>1, PublishOrder
<1>2. CASE Publish(r) /\ UNCHANGED <<queue, sent>>
  BY <1>2, AsideOrder DEF Publish, Order, CallsNew
<1>3. CASE Send(r)
  <2>1. ~In(sent, r)
    BY <1>3 DEF Send, In
  <2> QED
    BY <1>3, <2>1, AsideOrder DEF Send, gateway, Order, CallsNew
<1> QED
  BY <1>1, <1>2, <1>3 DEF Publish

LEMMA NextOrder ==
  ASSUME Inv, Order, [Next]_vars PROVE Order'
<1>1. ASSUME NEW r \in Replies, Send(r) \/ Publish(r) PROVE Order'
  BY <1>1, CallOrder
<1>2. CASE Gateway \/ GatewayCrash
  BY <1>2, GatewayOrder, GatewayCrashOrder
<1>3. ASSUME UNCHANGED <<sent, queue, phone, crashes, gw>>, calls' \subseteq calls
      PROVE  Order'
  BY <1>3, AsideOrder DEF Order, CallsNew
<1>4. ASSUME NEW e \in Ids, Confirm(e) \/ Throw(e) PROVE Order'
  BY <1>3, <1>4 DEF Confirm, Exists, UpsertRow, MarkProcessed, EmitConfirmed,
    Throw, gateway
<1>5. ASSUME NEW e \in Ids, NEW s \in Receipts, Report(e, s) \/ Raise(e, s)
      PROVE  Order'
  BY <1>3, <1>5 DEF Report, Raise, ReadRow, WriteRow, EmitStatus, gateway
<1>6. CASE WebCrash \/ Quiet \/ UNCHANGED vars
  BY <1>3, <1>6 DEF WebCrash, Quiet, vars, gateway
<1> QED
  BY <1>1, <1>2, <1>4, <1>5, <1>6 DEF Next

LEMMA OrderHolds == Spec => []Order
  BY InitOrder, NextOrder, InvHolds, PTL DEF Spec

(* The replies reach the customer in the order in which they were          *)
(* published, however often the gateway dies (prefetch 1, acknowledgement  *)
(* after the call: RabbitMQConsumerService).                               *)
THEOREM RepliesInOrder == Spec => []InOrder
<1>1. Inv /\ Order => InOrder
  <2> SUFFICES ASSUME Inv, Order, NEW i \in DOMAIN phone, NEW j \in DOMAIN phone,
                      i < j
               PROVE  Place(phone[i]) <= Place(phone[j])
    BY DEF InOrder
  <2>1. phone[i] \in Replies /\ phone[j] \in Replies
    BY DEF Inv, TypeOK
  <2>2. Placed[phone[i]] <= Placed[phone[j]]
    BY DEF Order, PhoneSorted
  <2> QED
    BY <2>1, <2>2 DEF Placed
<1> QED
  BY <1>1, InvHolds, OrderHolds, PTL

(* A reply reaches the customer at most once more than the gateway died,   *)
(* since a nack does not put it back (handleMessage).                      *)
THEOREM SentAgainOnlyAfterCrash == Spec => []ResentOnlyAfterCrash
<1>1. Inv /\ Order => ResentOnlyAfterCrash
  <2> SUFFICES ASSUME Inv, Order, NEW r \in Replies
               PROVE  Copies(r) <= 1 + crashes
    BY DEF ResentOnlyAfterCrash
  <2>1. crashes \in Nat
    BY DEF Inv, TypeOK
  <2> QED
    BY <2>1 DEF Order, CopiesOK
<1> QED
  BY <1>1, InvHolds, OrderHolds, PTL

=============================================================================
