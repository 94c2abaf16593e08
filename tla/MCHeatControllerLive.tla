------------------------ MODULE MCHeatControllerLive ------------------------
(***************************************************************************)
(* Instance of HeatControllerLive for TLC, over the same environment as    *)
(* MCHeatController: either any of it may go on for ever, or the house     *)
(* comes to call for heat.                                                 *)
(***************************************************************************)
EXTENDS HeatControllerLive

Says(summary, freeze) == [summary |-> summary, gate_mean |-> 60, freeze |-> freeze]

MildEnvironment == {Says("all_idle", "clear"), Says("calling", "clear")}

CallingEnvironment == {Says("calling", "clear")}
=============================================================================
