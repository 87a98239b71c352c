------------------------------- MODULE MCFlow -------------------------------
(***************************************************************************)
(* Small instances of FlowExecution: short flows over a few nodes, and     *)
(* which commands the two workers may run.                                 *)
(***************************************************************************)
EXTENDS FlowExecution, TLC

CONSTANTS p1, p2, ask, wait, bye, send, move

(* ask -> wait -> bye: a question, an interval, the end node.              *)
AskWaitKind ==
  (ask :> "input") @@ (wait :> "interval") @@ (bye :> "end")
AskWaitTarget == (ask :> wait) @@ (wait :> bye) @@ (bye :> NULL)

(* send -> ask -> wait -> move -> bye: every kind of node, the flow ends   *)
(* by closing the conversation.                                            *)
LongKind == (send :> "message") @@ (ask :> "input") @@ (wait :> "interval")
              @@ (move :> "transfer") @@ (bye :> "endClose")
LongTarget == (send :> ask) @@ (ask :> wait) @@ (wait :> move)
                @@ (move :> bye) @@ (bye :> NULL)

(* send -> ask: a greeting and a question.                                 *)
SendAskKind == (send :> "message") @@ (ask :> "input")
SendAskTarget == (send :> ask) @@ (ask :> NULL)

BotAndConsumer ==
  (p1 :> {"trigger", "assign", "close"}) @@ (p2 :> {"resume"})
StartersAndConsumer ==
  (p1 :> {"trigger", "manual", "assign", "close"}) @@ (p2 :> {"resume"})
BotAndRecovery ==
  (p1 :> {"trigger", "assign"}) @@ (p2 :> {"resume", "recover", "expire"})
BotAndPeople ==
  (p1 :> {"trigger"})
    @@ (p2 :> {"trigger", "assign", "reply", "transfer", "close", "reopen",
               "reconnect"})
BotAndAssign == (p1 :> {"trigger"}) @@ (p2 :> {"assign", "resume"})

=============================================================================
