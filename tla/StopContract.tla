---------------------------- MODULE StopContract ----------------------------
(***************************************************************************)
(* What the controller promises of the stops and starts of the miner, as   *)
(* the Store, the lock and the history see them.  It sends a command only  *)
(* on grounds that the Store holds too, and changes its mind about them    *)
(* only when none is under way; a stop of the demand shutoff is owned      *)
(* until the miner was told to start, the user took over or the lockout    *)
(* did; and what a restart forgets is no ground of a stop in force.        *)
(***************************************************************************)

VARIABLES
    on,        \* what the miner was last told
    by,        \* whose stop is in force
    owned,     \* whether the controller owns a stop, and so will start the miner
    latched,   \* whether the supply lockout is latched
    kept,      \* what of the two the Store holds
    command,   \* the command of the controller that is under way
    pressed    \* the switch's commands that are still to go out

contractVars == <<on, by, owned, latched, kept, command, pressed>>

Memory == [owned |-> owned, latched |-> latched]

\* What each command rests on: a stop or a start of the demand shutoff on the
\* ownership, without the latch, and a stop of the lockout on the latch.
Grounded ==
    \/ command = "none"
    \/ command \in {"stop", "start"} /\ owned /\ ~latched /\ kept = Memory
    \/ command = "lock" /\ latched /\ kept = Memory

\* The shutoff's stop is given up by no decision; the latch falls only for the
\* freeze guard, which owns the stop from there on.
MayChange ==
    /\ owned' \in BOOLEAN /\ latched' \in BOOLEAN
    /\ by = "shutoff" => owned'
    /\ latched' => latched
    /\ latched /\ ~latched' => owned'

ContractInit ==
    /\ on \in BOOLEAN
    /\ by = "none"
    /\ owned = FALSE /\ latched = FALSE /\ kept = Memory
    /\ command = "none"
    /\ pressed = {}

\* A control step decides, trips the lockout, or saves.
Decides ==
    /\ command = "none"
    /\ MayChange /\ Grounded'
    /\ UNCHANGED <<on, by, kept, pressed>>

Trips ==
    /\ command = "none" /\ ~latched
    /\ latched' = TRUE
    /\ by' = "lockout"
    /\ UNCHANGED <<on, owned, kept, command, pressed>>

Saves ==
    /\ command = "none"
    /\ kept' = Memory
    /\ Grounded'
    /\ UNCHANGED <<on, by, owned, latched, pressed>>

\* The command is carried out, or lost.
Stops ==
    /\ command = "stop" /\ command' = "none"
    /\ (on' = FALSE /\ by' = "shutoff") \/ UNCHANGED <<on, by>>
    /\ UNCHANGED <<owned, latched, kept, pressed>>

Starts ==
    /\ command = "start" /\ command' = "none"
    /\ (on' = TRUE /\ by' = "none") \/ UNCHANGED <<on, by>>
    /\ UNCHANGED <<owned, latched, kept, pressed>>

\* After the lockout's the step goes on to decide.
Locks ==
    /\ command = "lock"
    /\ (on' = FALSE /\ by' \in {by, "lockout"}) \/ UNCHANGED <<on, by>>
    /\ MayChange /\ Grounded'
    /\ UNCHANGED <<kept, pressed>>

\* The user takes over, and the command goes out after the save; or resets the
\* lockout, which is no way to lose a stop.
Overrides ==
    /\ command = "none"
    /\ owned' = FALSE
    /\ by' = "none"
    /\ UNCHANGED <<on, latched, kept, command, pressed>>

Resets ==
    /\ command = "none" /\ by # "shutoff"
    /\ owned' = FALSE /\ latched' = FALSE
    /\ UNCHANGED <<on, by, kept, command, pressed>>

Presses(c) ==
    /\ command = "none"
    /\ kept' = Memory
    /\ pressed' = pressed \cup {c}
    /\ UNCHANGED <<on, by, owned, latched, command>>

Switches(c) ==
    /\ c \in pressed /\ pressed' = pressed \ {c}
    /\ \/ c = "on" /\ on' = TRUE /\ by' = "none"
       \/ c = "off" /\ on' = FALSE /\ by' = "user"
       \/ UNCHANGED <<on, by>>
    /\ UNCHANGED <<owned, latched, kept, command>>

\* The miner starts by itself; Home Assistant restarts from the Store.
StartsByItself ==
    /\ ~on /\ on' = TRUE
    /\ by' = "none"
    /\ UNCHANGED <<owned, latched, kept, command, pressed>>

Restarts ==
    /\ owned' = kept.owned /\ latched' = kept.latched
    /\ command' = "none"
    /\ pressed' = {}
    /\ UNCHANGED <<on, by, kept>>

ContractNext ==
    \/ Decides \/ Trips \/ Saves
    \/ Stops \/ Starts \/ Locks
    \/ Overrides \/ Resets
    \/ \E c \in {"on", "off"} : Presses(c) \/ Switches(c)
    \/ StartsByItself \/ Restarts

ContractSpec == ContractInit /\ [][ContractNext]_contractVars
=============================================================================
