------------------------ MODULE HeatControllerHistory ------------------------
(***************************************************************************)
(* HeatController with a record of the one thing a restart of it forgets:  *)
(* whether it has taken a stop that the user asked for as its own since,   *)
(* and so may undo it.  The record restricts no step; it names the three   *)
(* grounds on which decide() comes to own a stop, so that any other way    *)
(* to undo the user's stop shows.                                          *)
(***************************************************************************)
EXTENDS HeatController

VARIABLE retaken   \* the controller took the user's last stop for its own

RecordVars == <<allVars, retaken>>

\* The step decides, from now on as the owner of a stop that it did not own.
TakesOwnership ==
    /\ pc \in {"forecast", "trip_send"} /\ pc' # "idle"
    /\ ~shutoff.owned /\ shutoff'.owned

\* The grounds: the stop ends a start adopted a moment ago; a poll shows the
\* miner hashing when the user's off is no longer recent; the freeze guard
\* clears the latch.
EndsAdoption == AdoptedJustNow /\ action' = "none"
SeenToHash   == ~UserOffRecently /\ action' = "stop" /\ view'.fresh /\ view'.is_mining
Thaws        == action' = "unlatch"

Retakes == TakesOwnership /\ (EndsAdoption \/ SeenToHash \/ Thaws)

OffTakesOver == "off" \in Calls /\ calls["off"] = "wait" /\ calls'["off"] = "save"

\* The user's off is in force, or its call has taken effect and is yet to be sent.
TurnedOff == offBy = "user" \/ ("off" \in Calls /\ calls["off"] \in {"save", "send"})

RecordInit == ControllerInit /\ retaken = FALSE

RecordNext ==
    /\ ControllerNext
    /\ retaken' = (TurnedOff' /\ ~OffTakesOver /\ (retaken \/ Retakes))

RecordSpec == RecordInit /\ [][RecordNext]_RecordVars

----------------------------------------------------------------------------
(* Properties *)

\* A stop the user asked for stays: whatever the step was doing while the call
\* waited for the lock and between its save and its command, and whatever crash,
\* reload, reset, lingering hashrate or lost command comes then, the controller
\* sends no power_on until the user does or the miner starts by itself; unless
\* it has taken the stop for its own since, on one of the grounds named above:
\* within AdoptReclaim of an adoption, on a poll that shows the miner hashing
\* after the grace of the user's off, or for the freeze guard under the latch.
UserOffStays == pc = "on_send" /\ offBy = "user" => retaken
=============================================================================
