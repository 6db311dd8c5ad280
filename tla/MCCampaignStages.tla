-------------------------- MODULE MCCampaignStages --------------------------
(* Four stages in a row; the approval binds the first of them. *)
EXTENDS CampaignStages

CONSTANTS source, plan, gate, run

MCOrder == <<source, plan, gate, run>>

MCKind ==
    [s \in {source, plan, gate, run} |->
        CASE s = source -> "snapshot" [] s = plan -> "build"
          [] s = gate -> "approval" [] s = run -> "run"]

MCRequires ==
    [s \in {source, plan, gate, run} |->
        CASE s = source -> {} [] s = plan -> {source}
          [] s = gate -> {plan} [] s = run -> {gate}]

MCBind == [g \in {gate} |-> {source}]
=============================================================================
