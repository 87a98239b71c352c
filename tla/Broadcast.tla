----------------------------- MODULE Broadcast ------------------------------
(***************************************************************************)
(* What a bulk campaign promises, whoever runs it: messages go out only to *)
(* recipients whose outcome is still open, outcomes are recorded a batch   *)
(* at a time and once for each recipient, "sent" only after a message went *)
(* out, and the campaign is completed only when every outcome is recorded. *)
(* Its other changes of status are left open.                              *)
(***************************************************************************)
EXTENDS Naturals, FiniteSets

CONSTANTS Recipients, BatchSize

VARIABLES
  outcome,   \* outcome[r]: "pending" until it is recorded
  out,       \* out[r]: messages that went out to r
  completed

vars == <<outcome, out, completed>>

Open == {r \in Recipients : outcome[r] = "pending"}

Init ==
  /\ outcome = [r \in Recipients |-> "pending"]
  /\ out = [r \in Recipients |-> 0]
  /\ completed = FALSE

Send(r) ==
  /\ r \in Open
  /\ out' = [out EXCEPT ![r] = @ + 1]
  /\ UNCHANGED <<outcome, completed>>

(* The batch S is over: e[r] became of r.                                  *)
Record(S, e) ==
  /\ S \subseteq Open /\ Cardinality(S) <= BatchSize
  /\ \A r \in S : e[r] = "sent" => out[r] >= 1
  /\ outcome' = [r \in Recipients |-> IF r \in S THEN e[r] ELSE outcome[r]]
  /\ UNCHANGED <<out, completed>>

Complete ==
  /\ Open = {} /\ completed' = TRUE
  /\ UNCHANGED <<outcome, out>>

(* A start or a cancel that read the row before overwrites the completion. *)
Overwrite ==
  /\ completed' = FALSE
  /\ UNCHANGED <<outcome, out>>

Next ==
  \/ \E r \in Recipients : Send(r)
  \/ \E S \in SUBSET Recipients :
       \E e \in [S -> {"sent", "failed"}] : Record(S, e)
  \/ Complete \/ Overwrite

Spec == Init /\ [][Next]_vars

=============================================================================
