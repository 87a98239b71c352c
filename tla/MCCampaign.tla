----------------------------- MODULE MCCampaign -----------------------------
(***************************************************************************)
(* Small instances of Campaign: a cron call, and a second call that is the *)
(* next cron call, a start or a cancel.                                    *)
(***************************************************************************)
EXTENDS Campaign, TLC

CONSTANTS c1, c2

CronAndUser == (c1 :> {"cron"}) @@ (c2 :> JobKinds)

=============================================================================
