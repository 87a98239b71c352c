------------------------------ MODULE Delivery ------------------------------
(***************************************************************************)
(* What a queue with a dead-letter policy promises about each item it      *)
(* accepts: the item is pending until it has been delivered or discarded,  *)
(* it is never forgotten, and a delivery is final.  An item may exist in   *)
(* several copies, so one may be discarded before another is delivered.    *)
(***************************************************************************)
CONSTANT Items

VARIABLE status

Init == status = [i \in Items |-> "absent"]

Accept(i) ==
  status[i] = "absent" /\ status' = [status EXCEPT ![i] = "pending"]

Deliver(i) ==
  /\ status[i] \in {"pending", "discarded"}
  /\ status' = [status EXCEPT ![i] = "delivered"]

(* A crash may discard several items at once.                              *)
Discard(S) ==
  /\ \A i \in S : status[i] = "pending"
  /\ status' = [i \in Items |-> IF i \in S THEN "discarded" ELSE status[i]]

Settle(i) ==
  /\ status[i] = "pending"
  /\ Deliver(i) \/ \E S \in SUBSET Items : i \in S /\ Discard(S)

Next ==
  \/ \E i \in Items : Accept(i) \/ Deliver(i)
  \/ \E S \in SUBSET Items : Discard(S)

Spec == Init /\ [][Next]_status

FairSpec == Spec /\ \A i \in Items : WF_status(Settle(i))

=============================================================================
