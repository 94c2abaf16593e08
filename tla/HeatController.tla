---------------------------- MODULE HeatController ----------------------------
(***************************************************************************)
(* The controller around the demand shutoff: the control step of           *)
(* controller.py with its step lock and the awaits inside it, the supply   *)
(* lockout latch, the Store that survives a restart, the user's calls      *)
(* (Mining Control, Reset Supply Lockout), and the miner and its polls as  *)
(* the step sees them.  decide() itself is DemandShutoff's Decide.         *)
(*                                                                         *)
(* The step's code runs without interruption between two awaits, so one    *)
(* action stands for the code from one await to the next.  pc says which   *)
(* await the step is at: the forecast request, a save, or a command to the *)
(* miner.  Polls, user calls, ticks and crashes happen at any of them.     *)
(*                                                                         *)
(* Left out: power regulation, which runs at the end of a step, sends no   *)
(* power_on or power_off and changes nothing declared here.                *)
(***************************************************************************)
EXTENDS DemandShutoff, FiniteSets

CONSTANTS
    Environment,   \* what thermostats, outdoor mean and freeze source may say
    Supplies,      \* readings of the supply probe, None included
    Outcomes,      \* how a command to the miner may end, a subset of SendOutcomes
    Calls,         \* services the user may call, a subset of Services
    Relock,        \* LOCKOUT_REASSERT_INTERVAL, in ticks
    UserOffGrace,  \* USER_OFF_GRACE_S, in ticks
    Linger,        \* whether the hashrate outlives a power_off
    SlowPolls,     \* whether the timer may start a step on an old poll
    SelfStarts,    \* whether the miner may start without a command
    SaveFails      \* whether a write of the Store may fail

Services == {"on", "off", "reset"}

\* A command is carried out, or raises after the miner took it or without.
SendOutcomes == {"done", "landed", "lost"}

ASSUME ControllerAssumption ==
    /\ Environment \subseteq [summary   : {"calling", "all_idle", "unknown"},
                              gate_mean : Int,
                              freeze    : {"active", "clear", "unknown"}]
    /\ Supplies \subseteq Int
    /\ Outcomes \subseteq SendOutcomes /\ "done" \in Outcomes
    /\ Calls \subseteq Services
    /\ Relock \in Nat /\ UserOffGrace \in Nat
    /\ {Linger, SlowPolls, SelfStarts, SaveFails} \subseteq BOOLEAN

VARIABLES
    latched,     \* pid_state["lockout_latched"]
    pc,          \* where the control step waits, "idle" when none runs
    view,        \* what the running step has read
    calls,       \* where each of the user's calls waits
    disk,        \* what the Store holds
    delayed,     \* a delayed save is pending
    data,        \* the coordinator's last poll
    miner,       \* what the miner was last told, and whether it hashes
    userOff,     \* ticks since the user turned mining off
    lockOff,     \* ticks since the last power_off of the lockout
    offBy        \* history: whose stop is in force

machine == <<mode, shutoff, action>>
memory  == <<latched, userOff, lockOff>>
plant   == <<data, miner>>
allVars == <<machine, memory, pc, view, calls, disk, delayed, plant, offBy>>

NoView == [summary |-> "unread", gate_mean |-> None, freeze |-> "unread", supply |-> None,
           is_mining |-> FALSE, fresh |-> FALSE, latched |-> FALSE, user_off |-> FALSE]
NoPoll == [is_mining |-> FALSE, fresh |-> FALSE]

\* Faulty LockFree: a call holds no lock.
LockFreeFaulty == pc = "idle"

LockFree == pc = "idle" /\ \A c \in Calls : calls[c] # "save"

\* asyncio.Lock is first come, first served: no step passes a waiting call.
StepMayRun == LockFree /\ \A c \in Calls : calls[c] # "wait"

Stored == [latched |-> latched, shutoff |-> shutoff]

----------------------------------------------------------------------------
(* The miner, its polls, and the commands sent to it *)

\* A command that reached the miner.
Lands(o)  == o \in {"done", "landed"}
Raises(o) == o # "done"

PoweredOff(o) ==
    miner' = IF Lands(o) THEN [on |-> FALSE, hashes |-> miner.hashes /\ Linger] ELSE miner

PoweredOn(o) == miner' = IF Lands(o) THEN [miner EXCEPT !.on = TRUE] ELSE miner

Boots ==
    /\ miner.on /\ ~miner.hashes
    /\ miner' = [miner EXCEPT !.hashes = TRUE]
    /\ UNCHANGED <<machine, memory, pc, view, calls, disk, delayed, data, offBy>>

Drains ==
    /\ ~miner.on /\ miner.hashes
    /\ miner' = [miner EXCEPT !.hashes = FALSE]
    /\ UNCHANGED <<machine, memory, pc, view, calls, disk, delayed, data, offBy>>

StartsByItself ==
    /\ SelfStarts /\ ~miner.on
    /\ miner' = [miner EXCEPT !.on = TRUE]
    /\ offBy' = "none"
    /\ UNCHANGED <<machine, memory, pc, view, calls, disk, delayed, data>>

\* data keeps what the last successful poll said.
Polls(fresh) ==
    data' = IF fresh THEN [is_mining |-> miner.hashes, fresh |-> TRUE]
                     ELSE [data EXCEPT !.fresh = FALSE]

----------------------------------------------------------------------------
(* The control step *)

UserOffRecently == userOff < UserOffGrace

\* The step reads the probe and the poll before it waits for the forecast.
Begins(poll) ==
    /\ StepMayRun
    /\ \E t \in Supplies :
         view' = [NoView EXCEPT !.supply = t, !.fresh = poll.fresh, !.latched = latched,
                                !.is_mining = poll.is_mining /\ ~UserOffRecently,
                                !.user_off = UserOffRecently]
    /\ pc' = "forecast"

\* A poll runs the coordinator's listeners, and so a step unless one runs.
PollStep(fresh) ==
    /\ Polls(fresh)
    /\ IF StepMayRun THEN Begins(data') ELSE UNCHANGED <<pc, view>>
    /\ UNCHANGED <<machine, memory, calls, disk, delayed, miner, offBy>>

\* _handle_timer: a step on the last poll, when the coordinator is quiet.
TimerStep ==
    /\ SlowPolls \/ ~data.fresh
    /\ Begins(data)
    /\ UNCHANGED <<machine, memory, calls, disk, delayed, plant, offBy>>

Moves(p) == pc' = p /\ view' = IF p = "idle" THEN NoView ELSE view

\* Faulty Ends: a miner hashing under the latch is left alone.
EndsFaulty(v, l) == pc' = "idle" /\ view' = NoView /\ UNCHANGED lockOff

\* The latch is checked last: a miner seen hashing under it is stopped again.
Ends(v, l) ==
    IF l /\ v.is_mining /\ v.fresh /\ lockOff >= Relock
    THEN pc' = "relock_send" /\ view' = v /\ lockOff' = 0
    ELSE pc' = "idle" /\ view' = NoView /\ UNCHANGED lockOff

Transition == shutoff'.state # shutoff.state \/ shutoff'.owned # shutoff.owned

PowersOn(a) == a \in {"resume", "release", "unlatch"}

\* Faulty AwaitFor: each command is sent before the state is saved.
AwaitForFaulty(a) == IF PowersOn(a) THEN "on_send" ELSE "stop_send"

\* Every command but a reassert, which changes no ownership, is saved first.
AwaitFor(a) ==
    CASE a = "stop"     -> "stop_save"
      [] a = "reassert" -> "stop_send"
      [] PowersOn(a)    -> "on_save"

\* decide() on what was read, up to the first await of _apply_decision.
Deciding(i) ==
    /\ Decide(i)
    /\ latched' = (latched /\ action' # "unlatch")
    /\ \/ /\ action' \in {"stop", "reassert", "resume", "release", "unlatch"}
          /\ pc' = IF latched' /\ PowersOn(action') THEN "save" ELSE AwaitFor(action')
          /\ view' = i /\ UNCHANGED <<lockOff, delayed>>
       \/ /\ action' = "adopt" \/ (action' = "none" /\ Transition)
          /\ pc' = "save" /\ view' = i /\ UNCHANGED <<lockOff, delayed>>
       \/ /\ action' = "none" /\ ~Transition
          /\ delayed' = (delayed \/ shutoff' # shutoff)
          /\ Ends(i, latched')
    /\ UNCHANGED <<userOff, calls, disk, offBy, data>>

Overheated(i) == ~i.latched /\ SupplyAtLeast(i, Lockout) /\ i.freeze # "active"

WithEnvironment(e) ==
    [view EXCEPT !.summary = e.summary, !.gate_mean = e.gate_mean, !.freeze = e.freeze]

\* _trip_lockout up to its save; the rest of the step knows of the latch.
Trip(e) ==
    /\ pc = "forecast"
    /\ Overheated(WithEnvironment(e))
    /\ latched' = TRUE
    /\ view' = [WithEnvironment(e) EXCEPT !.latched = TRUE]
    /\ pc' = "trip_save"
    /\ offBy' = "lockout"
    /\ UNCHANGED <<machine, userOff, lockOff, calls, disk, delayed, plant>>

DecideStep(e) ==
    /\ pc = "forecast"
    /\ ~Overheated(WithEnvironment(e))
    /\ Deciding(WithEnvironment(e))
    /\ UNCHANGED miner

\* _save(): what memory holds now, and no delayed save after it.  It swallows
\* a failed write.
Saves == /\ delayed' = FALSE
         /\ \/ disk' = Stored
            \/ SaveFails /\ UNCHANGED disk

SaveStep ==
    /\ pc \in {"trip_save", "stop_save", "on_save", "fail_save"}
    /\ Saves
    /\ Moves(CASE pc = "trip_save" -> "trip_send" [] pc = "stop_save" -> "stop_send"
               [] pc = "on_save" -> "on_send"     [] pc = "fail_save" -> "save")
    /\ lockOff' = IF pc = "trip_save" THEN 0 ELSE lockOff
    /\ UNCHANGED <<machine, latched, userOff, calls, plant, offBy>>

\* The save at the end of _apply_decision, and the end of the step.
LastSave ==
    /\ pc = "save"
    /\ Saves
    /\ Ends(view, latched)
    /\ UNCHANGED <<machine, latched, userOff, calls, plant, offBy>>

\* The power_off of a trip, after which the step goes on to decide.
TripSend(o) ==
    /\ pc = "trip_send"
    /\ PoweredOff(o)
    /\ Deciding(view)

RelockSend(o) ==
    /\ pc = "relock_send"
    /\ PoweredOff(o)
    /\ Moves("idle")
    /\ offBy' = IF Lands(o) THEN "lockout" ELSE offBy
    /\ UNCHANGED <<machine, memory, calls, disk, delayed, data>>

ShutoffOff(o) ==
    /\ pc = "stop_send"
    /\ PoweredOff(o)
    /\ offBy' = IF Lands(o) THEN "shutoff" ELSE offBy
    /\ IF Raises(o) /\ action = "stop"
       THEN StopSendFailed /\ Moves("fail_save")
       ELSE UNCHANGED machine /\ Moves("save")
    /\ UNCHANGED <<memory, calls, disk, delayed, data>>

ShutoffOn(o) ==
    /\ pc = "on_send"
    /\ PoweredOn(o)
    /\ offBy' = IF Lands(o) THEN "none" ELSE offBy
    /\ IF Raises(o)
       THEN ResumeSendFailed /\ Moves("fail_save")
       ELSE UNCHANGED machine /\ Moves("save")
    /\ UNCHANGED <<memory, calls, disk, delayed, data>>

----------------------------------------------------------------------------
(* The user's calls: each takes the step lock, saves, and sends after it *)

Waits(c, from, to) == calls[c] = from /\ calls' = [calls EXCEPT ![c] = to]

\* The switch refuses to turn on under the latch, before it waits for the lock.
OnCalled ==
    /\ "on" \in Calls /\ ~latched
    /\ Waits("on", "idle", "wait")
    /\ UNCHANGED <<machine, memory, pc, view, disk, delayed, plant, offBy>>

OffCalled ==
    /\ "off" \in Calls
    /\ Waits("off", "idle", "wait")
    /\ UNCHANGED <<machine, memory, pc, view, disk, delayed, plant, offBy>>

\* So does the reset unless the loop reads cool, and it is under the latch.
ResetCalled ==
    /\ "reset" \in Calls /\ latched
    /\ \E t \in Supplies : t # None /\ t < SoftCap
    /\ Waits("reset", "idle", "wait")
    /\ UNCHANGED <<machine, memory, pc, view, disk, delayed, plant, offBy>>

\* async_user_mining_override, under the lock.
OnOverrides ==
    /\ "on" \in Calls /\ LockFree
    /\ Waits("on", "wait", "save")
    /\ UserMiningOn
    /\ offBy' = "none"
    /\ UNCHANGED <<memory, pc, view, disk, delayed, plant>>

OffOverrides ==
    /\ "off" \in Calls /\ LockFree
    /\ Waits("off", "wait", "save")
    /\ UserMiningOff
    /\ userOff' = 0
    /\ offBy' = "none"
    /\ UNCHANGED <<latched, lockOff, pc, view, disk, delayed, plant>>

ResetClears ==
    /\ "reset" \in Calls /\ LockFree
    /\ Waits("reset", "wait", "save")
    /\ LockoutReset
    /\ latched' = FALSE
    /\ UNCHANGED <<userOff, lockOff, pc, view, disk, delayed, plant, offBy>>

CallSaves(c) ==
    /\ Waits(c, "save", "send")
    /\ Saves
    /\ UNCHANGED <<machine, memory, pc, view, plant, offBy>>

\* The commands of the switch go out after the lock is released.
OnSends(o) ==
    /\ "on" \in Calls
    /\ Waits("on", "send", "idle")
    /\ PoweredOn(o)
    /\ offBy' = IF Lands(o) THEN "none" ELSE offBy
    /\ UNCHANGED <<machine, memory, pc, view, disk, delayed, data>>

OffSends(o) ==
    /\ "off" \in Calls
    /\ Waits("off", "send", "idle")
    /\ PoweredOff(o)
    /\ offBy' = IF Lands(o) THEN "user" ELSE offBy
    /\ UNCHANGED <<machine, memory, pc, view, disk, delayed, data>>

\* The reset sends nothing; it runs the listeners, and so a step on the last poll.
ResetNotifies ==
    /\ "reset" \in Calls
    /\ Waits("reset", "send", "idle")
    /\ IF StepMayRun THEN Begins(data) ELSE UNCHANGED <<pc, view>>
    /\ UNCHANGED <<machine, memory, disk, delayed, plant, offBy>>

----------------------------------------------------------------------------
(* Time, delayed saves, restarts *)

DelayedSave ==
    /\ delayed
    /\ Saves
    /\ UNCHANGED <<machine, memory, pc, view, calls, plant, offBy>>

\* A step or a call is over within a tick: its awaits time out in seconds.
Quiet == pc = "idle" /\ \A c \in Calls : calls[c] = "idle"

\* Nor does the hashrate outlive a power_off by a tick: it averages a minute.
Passes ==
    /\ Quiet /\ (miner.hashes => miner.on)
    /\ shutoff' = Aged(shutoff)
    /\ disk' = [disk EXCEPT !.shutoff = Aged(@)]
    /\ userOff' = Older(userOff, UserOffGrace)
    /\ lockOff' = Older(lockOff, Relock)
    /\ UNCHANGED <<mode, action, latched, pc, view, calls, delayed, plant, offBy>>

\* Faulty SetsUp: the latch is not restored.
SetsUpFaulty(stored, m) ==
    /\ mode' = m
    /\ shutoff' = Restored(stored.shutoff, m)
    /\ action' = "none"
    /\ latched' = FALSE
    /\ userOff' = UserOffGrace /\ lockOff' = Relock
    /\ pc' = "idle" /\ view' = NoView
    /\ delayed' = FALSE
    /\ data' = NoPoll

\* async_setup() from what the Store holds.
SetsUp(stored, m) ==
    /\ mode' = m
    /\ shutoff' = Restored(stored.shutoff, m)
    /\ action' = "none"
    /\ latched' = stored.latched
    /\ userOff' = UserOffGrace /\ lockOff' = Relock
    /\ pc' = "idle" /\ view' = NoView
    /\ delayed' = FALSE
    /\ data' = NoPoll

\* Home Assistant dies, at any await, and starts again.
Crash(m) ==
    /\ SetsUp(disk, m)
    /\ calls' = [c \in Calls |-> "idle"]
    /\ UNCHANGED <<disk, miner, offBy>>

\* async_unload waits for the step and saves; the options may have changed.
Reload(m) ==
    /\ Quiet
    /\ disk' = Stored
    /\ SetsUp(Stored, m)
    /\ UNCHANGED <<calls, miner, offBy>>

ControllerInit ==
    /\ Init
    /\ latched = FALSE
    /\ pc = "idle" /\ view = NoView
    /\ calls = [c \in Calls |-> "idle"]
    /\ disk = [latched |-> FALSE, shutoff |-> InitialState]
    /\ delayed = FALSE
    /\ data = NoPoll
    /\ miner \in {[on |-> b, hashes |-> b] : b \in BOOLEAN}
    /\ userOff = UserOffGrace /\ lockOff = Relock
    /\ offBy = "none"

\* One step of the control step, or of a call, that is already under way.
StepProceeds(environment) ==
    \/ \E e \in environment : Trip(e) \/ DecideStep(e)
    \/ SaveStep \/ LastSave
    \/ \E o \in Outcomes : TripSend(o) \/ RelockSend(o) \/ ShutoffOff(o) \/ ShutoffOn(o)

CallProceeds ==
    \/ OnOverrides \/ OffOverrides \/ ResetClears
    \/ \E c \in Calls : CallSaves(c)
    \/ \E o \in Outcomes : OnSends(o) \/ OffSends(o)
    \/ ResetNotifies

Runs(environment) ==
    \/ \E fresh \in BOOLEAN : PollStep(fresh)
    \/ TimerStep
    \/ StepProceeds(environment) \/ CallProceeds
    \/ Boots \/ Drains
    \/ DelayedSave \/ Passes

Disturbs ==
    \/ OnCalled \/ OffCalled \/ ResetCalled
    \/ StartsByItself
    \/ \E m \in Modes : Crash(m) \/ Reload(m)

ControllerNext == Runs(Environment) \/ Disturbs

ControllerSpec == ControllerInit /\ [][ControllerNext]_allVars

----------------------------------------------------------------------------
(* Properties *)

Waiting == {"idle", "wait", "save", "send"}

ControllerTypeOK ==
    /\ TypeOK
    /\ latched \in BOOLEAN /\ delayed \in BOOLEAN
    /\ pc \in {"idle", "forecast", "trip_save", "trip_send", "relock_send", "stop_save",
               "stop_send", "on_save", "on_send", "fail_save", "save"}
    /\ pc = "idle" => view = NoView
    /\ calls \in [Calls -> Waiting]
    /\ Cardinality({c \in Calls : calls[c] = "save"}
                     \cup (IF pc = "idle" THEN {} ELSE {"step"})) <= 1
    /\ disk \in [latched : BOOLEAN, shutoff : ShutoffState]
    /\ data \in [is_mining : BOOLEAN, fresh : BOOLEAN]
    /\ miner \in [on : BOOLEAN, hashes : BOOLEAN]
    /\ userOff \in 0..UserOffGrace /\ lockOff \in 0..Relock
    /\ offBy \in {"none", "shutoff", "lockout", "user"}

Resets == "reset" \in Calls /\ calls["reset"] = "wait" /\ calls'["reset"] = "save"

\* A miner the shutoff turned off is a miner the shutoff owns, and so turns on
\* again: no crash between two awaits, failed command, override or reload
\* leaves it off with nobody to resume it ("Persist ownership before the
\* command so a crash can't orphan a stop").
NoOrphanedStop == offBy = "shutoff" => shutoff.owned

\* The latch is on disk before the lockout's first power_off, and from then on
\* only a reset or the freeze guard clears it: not a crash, a reload or a
\* demand decision.
LatchOutlivesRestarts ==
    [][latched /\ ~latched' => \/ pc = "trip_save"
                              \/ action' = "unlatch"
                              \/ Resets]_allVars

\* While the supply lockout is latched the controller starts nothing: when its
\* power_on goes out the latch is off, and off on disk, so that a crash after
\* the command does not find the miner running under a latch.
NoPowerOnUnderLatch == ControllerTypeOK /\ (pc = "on_send" => ~latched /\ ~disk.latched)

\* The command a waiting step is at.
Command ==
    CASE pc = "stop_send"                    -> "stop"
      [] pc = "on_send"                      -> "start"
      [] pc \in {"trip_send", "relock_send"} -> "lock"
      [] OTHER                               -> "none"

\* The switch's calls that have still to send their command.
Pressed == {c \in Calls \ {"reset"} : calls[c] = "send"}

Contract == INSTANCE StopContract WITH
    on <- miner.on, by <- offBy, owned <- shutoff.owned, latched <- latched,
    kept <- [owned |-> disk.shutoff.owned, latched |-> disk.latched],
    command <- Command, pressed <- Pressed

\* The controller implements StopContract: whichever calls wait for the lock or
\* have left it, whatever is lost and wherever a crash hits, a command goes out
\* only on grounds that are in the Store, nothing changes them while it is under
\* way, and no stop of the demand shutoff loses its owner.
KeepsContract == Contract!ContractSpec
=============================================================================
