-------------------------- MODULE HeatControllerLive --------------------------
(***************************************************************************)
(* What HeatController must eventually do once the disturbances end: after *)
(* some moment Home Assistant does not restart, the user calls nothing,    *)
(* the miner starts only on command and the environment says only what is  *)
(* in After.  Polls and commands may still fail, though not for ever.      *)
(***************************************************************************)
EXTENDS HeatController

CONSTANT After    \* what the environment may say once settled

ASSUME AfterAssumption == After \subseteq Environment

VARIABLE settled  \* the disturbances are over

liveVars == <<allVars, settled>>

Settles == ~settled /\ settled' = TRUE /\ UNCHANGED allVars

LiveInit == ControllerInit /\ settled = FALSE

LiveNext ==
    \/ Runs(IF settled THEN After ELSE Environment) /\ UNCHANGED settled
    \/ ~settled /\ Disturbs /\ UNCHANGED settled
    \/ Settles

\* A listener step on a poll that the miner answered.
PollRunsStep == PollStep(TRUE) /\ StepMayRun /\ UNCHANGED settled

Under(A) == A /\ UNCHANGED settled

\* Tasks that wait for a reply get one (each await has a timeout), the clock
\* runs, the miner boots and stops hashing in finite time.  A miner that is
\* polled again and again answers at times, and takes a command sent again
\* and again.
Fairness ==
    /\ WF_liveVars(Settles)
    /\ WF_liveVars(Under(StepProceeds(IF settled THEN After ELSE Environment)))
    /\ WF_liveVars(Under(CallProceeds))
    /\ WF_liveVars(Under(Boots)) /\ WF_liveVars(Under(Drains))
    /\ SF_liveVars(Under(Passes))
    /\ SF_liveVars(PollRunsStep)
    /\ SF_liveVars(Under(ShutoffOn("done")))
    /\ SF_liveVars(Under(RelockSend("done")))

LiveSpec == LiveInit /\ [][LiveNext]_liveVars /\ Fairness

----------------------------------------------------------------------------
(* Properties *)

\* The supply lockout stops the miner for good: whatever command was lost and
\* whatever crash came before, a latched controller gets the miner to power
\* off, unless the latch is cleared.
LatchStopsMiner == (settled /\ latched) ~> (~miner.on \/ ~latched)

\* Once the house calls for heat and keeps calling, a miner that the shutoff
\* turned off hashes again, unless the user or the lockout took over: whatever
\* power_on was lost and wherever a crash hit.
StoppedMinerReturns ==
    (settled /\ offBy = "shutoff" /\ ~latched) ~> (miner.hashes \/ offBy # "shutoff" \/ latched)
=============================================================================
