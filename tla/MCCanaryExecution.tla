-------------------------- MODULE MCCanaryExecution -------------------------
(***************************************************************************)
(* Every kind of account that V2 has never had, with one change of plan    *)
(* for one of them, and what an earlier day may have left an account with. *)
(***************************************************************************)
EXTENDS CanaryExecution

Fresh == [kind |-> "newApi", plan |-> LastPlan, phase |-> "none", site |-> "unsigned",
          row |-> NoRow, migration |-> "candidate"]
Earlier == [Fresh EXCEPT !.kind = "oauthReward"]
Kept == [Pending EXCEPT !.expires = FALSE]
Succeeded == [Earlier EXCEPT !.phase = "succeeded", !.site = "signed"]
MCAccounts ==
    {[Fresh EXCEPT !.kind = k] : k \in AllKinds}
    \cup {[Earlier EXCEPT !.plan = 1],
          [Succeeded EXCEPT !.row = Owned, !.migration = "active"],
          [Succeeded EXCEPT !.row = Kept],
          [Earlier EXCEPT !.phase = "blocked", !.row = Pending]}
    \cup {[Earlier EXCEPT !.phase = "submission_unknown", !.site = s, !.row = Kept] :
            s \in {"unsigned", "signed"}}

=============================================================================
