----------------------- MODULE MCHeatControllerHistory -----------------------
(***************************************************************************)
(* Instances of HeatControllerHistory for TLC.  The environment offers     *)
(* each reason decide() has to stop, resume, hold or clear the latch:      *)
(* thermostats idle and calling, the freeze guard on and off, and a probe  *)
(* that reads below the cap, or at the lockout.                            *)
(***************************************************************************)
EXTENDS HeatControllerHistory

\* The gate stays armed: a disarmed gate only shortens what is explored here.
Says(summary, freeze) == [summary |-> summary, gate_mean |-> 60, freeze |-> freeze]

\* No freeze risk.
MildEnvironment == {Says("all_idle", "clear"), Says("calling", "clear")}

MCEnvironment == MildEnvironment \cup {Says("all_idle", "active")}
=============================================================================
