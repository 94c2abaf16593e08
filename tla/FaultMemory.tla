----------------------------- MODULE FaultMemory -----------------------------
(***************************************************************************)
(* What the controller learns from the polls about the powers the miner    *)
(* can hold: the crash floor, the fault ceiling and the proven maximum of  *)
(* controller.py, the restarts it attributes to the miner or to itself,    *)
(* and the bounds every power command is clamped into.                     *)
(*                                                                         *)
(* The bookkeeping of one poll runs without an await, so a poll is one     *)
(* action: Handled is the first half of _handle_coordinator_update.  Times *)
(* are ages in ticks, as in DemandShutoff.                                 *)
(*                                                                         *)
(* Left out: notifications; the fault evidence of a hashrate collapse, and *)
(* how a power is chosen and sent (PowerRegulation); a save that had not   *)
(* been written when Home Assistant died.                                  *)
(***************************************************************************)
EXTENDS Integers

CONSTANTS
    PowerMin, PowerMax,
    CrashStep,     \* CRASH_STEP_W
    ProvenMargin,  \* PROVEN_MARGIN_W
    DerateDelta,   \* DERATE_MIN_DELTA_W
    DeratePolls,   \* DERATE_POLLS
    \* Durations, in ticks
    StableRun, FaultTTL, ProvenRefresh, BootHold, DeratePostWrite, DerateMin,
    \* The miner and its network
    BootTime,      \* from a start of btminer to the first hashrate
    MaxUptime,     \* bound: the miner reboots at the latest then
    MaxSilence,    \* bound: ticks without a good poll
    MaxEvents,     \* bound: commands, faults, restarts
    Losses         \* whether a command that was carried out may raise

Powers == PowerMin..PowerMax
None == -1

ASSUME FaultAssumption ==
    /\ PowerMin \in Nat \ {0} /\ PowerMax \in Nat /\ PowerMin <= PowerMax
    /\ {CrashStep, ProvenMargin, DerateDelta, DeratePolls} \subseteq Nat
    /\ {StableRun, FaultTTL, ProvenRefresh, BootHold, DeratePostWrite, DerateMin}
         \subseteq Nat \ {0}
    /\ ProvenRefresh <= FaultTTL
    /\ {BootTime, MaxUptime, MaxSilence, MaxEvents} \subseteq Nat
    /\ Losses \in BOOLEAN

VARIABLES
    ctl,     \* the controller's attributes
    miner,   \* btminer's uptime, whether it hashes, the limit it reports
    fresh,   \* whether the last poll succeeded
    past,    \* history
    events   \* how many there were

vars == <<ctl, miner, fresh, past, events>>

Age(h) == 0..h \cup {None}
Power == Powers \cup {None}

Memory ==
    [crash_at : Age(FaultTTL), crash_floor : Nat \cup {None},
     fault_at : Age(FaultTTL), fault_power : Power,
     proven_max : Power, proven_at : Age(FaultTTL),
     limit : Power,                              \* _limit_w
     force : Power,                              \* _op_in_force
     commanded : Power, sent_at : Age(DeratePostWrite),
     hold_power : Power, hold_since : Age(StableRun), tainted : BOOLEAN,
     derated : BOOLEAN, candidate : Age(DerateMin),
     candidate_polls : 0..DeratePolls, match_polls : 0..DeratePolls,
     uptime : 0..MaxUptime \cup {None}, idle : 0..MaxUptime \cup {None},
     actuated : Age(BootHold),                   \* _pending_restart_at
     restart_ours : BOOLEAN,
     before : 0..MaxUptime \cup {None},          \* a pending regression, None
     ours : BOOLEAN, short : BOOLEAN,            \* when there is none
     regression_power : Power,
     mining : {"unknown", "yes", "no"}]

Started ==
    [crash_at |-> None, crash_floor |-> None, fault_at |-> None, fault_power |-> None,
     proven_max |-> None, proven_at |-> None, limit |-> None, force |-> None,
     commanded |-> None, sent_at |-> None, hold_power |-> None, hold_since |-> None,
     tainted |-> FALSE, derated |-> FALSE, candidate |-> None, candidate_polls |-> 0,
     match_polls |-> 0, uptime |-> None, idle |-> None, actuated |-> None,
     restart_ours |-> FALSE, before |-> None, ours |-> FALSE, short |-> FALSE,
     regression_power |-> None, mining |-> "unknown"]

Larger(a, b)  == IF a >= b THEN a ELSE b
Smaller(a, b) == IF a <= b THEN a ELSE b
Known(p, q)   == IF p # None THEN p ELSE q

----------------------------------------------------------------------------
(* The bounds *)

Armed(at) == at # None /\ at < FaultTTL

\* Faulty Witnessed: a run held before the fault still counts.
WitnessedFaulty(c) == c.proven_max # None

\* A proven maximum counts only if it postdates the fault.
Witnessed(c) == c.proven_max # None /\ c.proven_at # None /\ c.proven_at < c.fault_at

FaultReference(c) ==
    IF Witnessed(c) THEN c.proven_max ELSE Known(c.fault_power, PowerMin)

Ceiling(c) ==
    IF Armed(c.fault_at)
    THEN Larger(PowerMin, Smaller(PowerMax, FaultReference(c) + ProvenMargin))
    ELSE PowerMax

CrashFloor(c) ==
    IF Armed(c.crash_at) /\ c.crash_floor # None
    THEN Smaller(Larger(PowerMin, c.crash_floor), PowerMax)
    ELSE PowerMin

\* Faulty Floor: an inversion is left as it is.
FloorFaulty(c) == CrashFloor(c)

\* On an inversion the ceiling wins.
Floor(c) == Smaller(CrashFloor(c), Ceiling(c))

----------------------------------------------------------------------------
(* Evidence.  Each operator takes the attributes to what they become. *)

\* _limit_in_force() and _power_in_force(); r is the limit the poll reports.
LimitInForce(c, r) == Known(c.limit, r)
PowerInForce(c, r) == Known(c.force, LimitInForce(c, r))

NotesFault(c, p) ==
    [c EXCEPT !.fault_at = 0, !.fault_power = p, !.tainted = TRUE]

NotesCrash(c, p) ==
    [c EXCEPT !.crash_at = 0, !.crash_floor = Larger(@, p + CrashStep)]

HoldIsProof(c) ==
    c.hold_since # None /\ c.hold_since >= StableRun /\ ~c.tainted /\ ~c.derated

Settled(c) ==
    IF c.hold_power # None /\ HoldIsProof(c) /\ c.hold_power > c.proven_max
    THEN [c EXCEPT !.proven_max = c.hold_power, !.proven_at = 0]
    ELSE c

\* A new segment of the hold, at power p.
Holding(c, p) ==
    [c EXCEPT !.hold_power = p, !.hold_since = IF p = None THEN None ELSE 0]

CommandBoundary(c) ==
    [Settled(c) EXCEPT !.hold_power = c.force, !.hold_since = 0, !.tainted = FALSE]

HoldsAt(c, p) ==
    IF p = None \/ p # c.hold_power THEN Holding(Settled(c), p)
    ELSE IF c.hold_since = None THEN [c EXCEPT !.hold_since = 0]
    ELSE IF /\ p = c.proven_max /\ HoldIsProof(c)
            /\ c.proven_at = None \/ c.proven_at >= ProvenRefresh
         THEN [c EXCEPT !.proven_at = 0]
         ELSE c

\* Faulty NotesHold: a miner that is off holds its power, too.
NotesHoldFaulty(c, mining, r) == HoldsAt(c, PowerInForce(c, r))

NotesHold(c, mining, r) == HoldsAt(c, IF mining THEN PowerInForce(c, r) ELSE None)

NotesErrors(c, error, r) ==
    IF error THEN NotesFault(c, PowerInForce(c, r)) ELSE c

NoCandidate(c) == [c EXCEPT !.candidate = None, !.candidate_polls = 0]

NotesDerate(c, mining, tuned, r) ==
    LET n == Smaller(c.candidate_polls + 1, DeratePolls)
        seen == [c EXCEPT !.match_polls = 0, !.candidate_polls = n,
                          !.candidate = IF @ = None THEN 0 ELSE @]
        matched == [NoCandidate(c) EXCEPT !.match_polls = @ + 1] IN
    IF ~mining \/ c.commanded = None \/ ~tuned \/ c.sent_at < DeratePostWrite
    THEN NoCandidate(c)
    ELSE IF r < c.commanded - DerateDelta
    THEN IF ~c.derated /\ n >= DeratePolls /\ seen.candidate >= DerateMin
         THEN NotesFault([seen EXCEPT !.derated = TRUE], r)
         ELSE seen
    ELSE IF ~c.derated THEN NoCandidate(c)
    ELSE IF matched.match_polls >= DeratePolls
         THEN [matched EXCEPT !.derated = FALSE, !.match_polls = 0]
         ELSE matched

\* A start edge or an uptime regression: the miner is back at its limit.
NotesRestart(c, r) == [c EXCEPT !.force = LimitInForce(c, r)]

OursPending(c) == c.actuated # None /\ c.actuated < BootHold

\* _count_restart: a confirmed regression.
CountsRestart(c, thermal, r) ==
    LET s == [c EXCEPT !.actuated = IF c.ours THEN None ELSE @,
                       !.restart_ours = c.ours, !.regression_power = None]
        p == Known(c.regression_power, PowerInForce(c, r)) IN
    IF c.ours \/ ~c.short \/ p = None \/ thermal \/ Armed(c.fault_at) THEN s
    ELSE NotesCrash(s, p)

NoRegression(c) == [c EXCEPT !.before = None, !.ours = FALSE, !.short = FALSE]

Regresses(c, up, r) ==
    NotesRestart(
        Settled([c EXCEPT !.before = c.uptime, !.ours = OursPending(c),
                          !.short = c.uptime - Larger(c.idle, 0) < StableRun,
                          !.regression_power = PowerInForce(c, r)]), r)

\* Faulty NotesRegression: one poll's word is enough.
NotesRegressionFaulty(c, up, thermal, r) ==
    IF c.uptime # None /\ up < c.uptime
    THEN NoRegression(CountsRestart(Regresses(c, up, r), thermal, r))
    ELSE c

\* A regression counts once the next poll confirms it.
NotesRegression(c, up, thermal, r) ==
    IF c.before # None
    THEN IF up < c.before THEN NoRegression(CountsRestart(c, thermal, r))
         ELSE [NoRegression(c) EXCEPT !.regression_power = None]
    ELSE IF c.uptime # None /\ up < c.uptime THEN Regresses(c, up, r)
    ELSE c

NotesUptime(c, mining, up, thermal, r) ==
    LET s == NotesRegression(c, up, thermal, r)
        idle == IF s.idle # None /\ up < s.idle THEN None ELSE s.idle IN
    NotesHold([s EXCEPT !.uptime = up,
                        !.idle = IF mining THEN idle ELSE IF up > 0 THEN up ELSE None],
              mining, r)

\* A reported limit that persists is believed (_note_reported_limit).
Adopts(c, adopts, r) ==
    IF adopts /\ c.limit # None /\ r # c.force THEN [c EXCEPT !.limit = r] ELSE c

\* _claim_start: a start without a regression is ours after a recent command.
Claims(c) ==
    [c EXCEPT !.restart_ours = FALSE,
              !.actuated = IF c.before = None /\ ~c.restart_ours /\ OursPending(c)
                           THEN None ELSE @]

\* The mining edges of the handler.
Edges(c, mining, r) ==
    IF mining /\ c.mining = "unknown"
    THEN LET s == NotesRestart(c, r) IN Holding(s, PowerInForce(s, r))
    ELSE IF mining /\ c.mining = "no"
    THEN LET s == NotesRestart(Claims(c), r) IN Holding(Settled(s), PowerInForce(s, r))
    ELSE IF ~mining /\ c.mining = "yes"
    THEN Holding(Settled(c), None)
    ELSE c

\* What one good poll shows.
Shows == [mining : BOOLEAN, up : 0..MaxUptime, error : BOOLEAN, tuned : BOOLEAN,
          thermal : BOOLEAN, adopts : BOOLEAN]

\* Faulty Evidence: the uptime, and so the hold, comes before the faults.
EvidenceFaulty(c, i, r) ==
    NotesDerate(NotesErrors(NotesUptime(c, i.mining, i.up, i.thermal, r), i.error, r),
                i.mining, i.tuned, r)

Evidence(c, i, r) ==
    NotesUptime(NotesDerate(NotesErrors(c, i.error, r), i.mining, i.tuned, r),
                i.mining, i.up, i.thermal, r)

Handled(c, i, r) ==
    [Edges(Adopts(Evidence(c, i, r), i.adopts, r), i.mining, r)
        EXCEPT !.mining = IF i.mining THEN "yes" ELSE "no"]

----------------------------------------------------------------------------
(* Polls, commands, resets, restarts *)

\* Fault evidence in this poll.
FaultShown(i) ==
    \/ i.error
    \/ NotesDerate(ctl, i.mining, i.tuned, miner.limit).derated /\ ~ctl.derated

Event == events < MaxEvents /\ events' = events + 1

PollShows(i, garbled) ==
    /\ ctl' = Handled(ctl, i, miner.limit)
    /\ fresh' = TRUE
    /\ past' = [past EXCEPT
                  !.clean = IF FaultShown(i) THEN 0 ELSE @,
                  !.held = IF past.broken \/ ~miner.hashes THEN 0 ELSE @,
                  !.broken = FALSE, !.silent = 0, !.garbled = garbled,
                  !.boots = IF ctl'.before = None THEN {} ELSE @]
    /\ UNCHANGED miner

PollSucceeds ==
    \E i \in Shows :
        /\ i.mining = miner.hashes /\ i.up = miner.up
        /\ i.thermal => ctl.before # None     \* only then asked
        /\ i.tuned => i.mining
        /\ i.adopts => ctl.limit # None
        /\ PollShows(i, FALSE)
        /\ IF i.error THEN Event ELSE UNCHANGED events

\* A garbled summary reads as no uptime and perhaps no hashrate, one poll long.
PollGarbled ==
    \E i \in Shows :
        /\ ~past.garbled
        /\ i.mining => miner.hashes
        /\ i.up = 0 /\ ~i.error /\ ~i.tuned /\ ~i.adopts
        /\ i.thermal => ctl.before # None
        /\ PollShows(i, TRUE)
        /\ Event

\* A failed poll is handled for its edges only.  Before the first good one,
\* the data are those of the first refresh or of a miner seeded offline.
PollFails ==
    /\ fresh' = FALSE
    /\ IF ctl.mining = "unknown"
       THEN \E m \in {FALSE, miner.hashes} :
                ctl' = [Edges(ctl, m, miner.limit) EXCEPT !.mining = IF m THEN "yes" ELSE "no"]
       ELSE UNCHANGED ctl
    /\ UNCHANGED <<miner, past, events>>

Interrupted(boot) ==
    past' = [past EXCEPT !.broken = TRUE,
                         !.boots = IF boot = "none" THEN @ ELSE @ \cup {boot}]

Booting(limit) ==
    [up |-> 0, warm |-> BootTime, hashes |-> FALSE, limit |-> limit]

Commands == ctl.mining = "yes" /\ fresh

\* adjust_power_limit restarts btminer.  A command that raises is not noted.
SetLimit(p) ==
    /\ Event
    /\ Commands
    /\ miner' = Booting(p)
    /\ Interrupted("us")
    /\ \/ ctl' = CommandBoundary(
                   [NoCandidate(ctl) EXCEPT
                      !.limit = p, !.force = p, !.commanded = p, !.sent_at = 0,
                      !.match_polls = 0, !.actuated = 0])
       \/ Losses /\ UNCHANGED ctl
    /\ UNCHANGED fresh

\* set.miner.power does not.
SetPower(p) ==
    /\ Event
    /\ Commands
    /\ p <= LimitInForce(ctl, miner.limit)
    /\ ctl' = CommandBoundary([ctl EXCEPT !.force = p])
    /\ UNCHANGED <<miner, fresh, past>>

Actuates == ctl' = [ctl EXCEPT !.actuated = 0] \/ (Losses /\ UNCHANGED ctl)

\* Mining Control, the demand shutoff or the lockout stops the miner,
StopsMiner ==
    /\ Event
    /\ Actuates
    /\ miner.hashes
    /\ miner' = [miner EXCEPT !.hashes = FALSE, !.warm = BootTime]
    /\ Interrupted("none")
    /\ UNCHANGED fresh

\* and starts it: v2 power_on restarts btminer, v3 does not.
StartsMiner ==
    /\ Event
    /\ Actuates
    /\ ~miner.hashes
    /\ \/ miner' = Booting(miner.limit) /\ Interrupted("us")
       \/ UNCHANGED <<miner, past>>
    /\ UNCHANGED fresh

ResetsFaultMemory ==
    /\ Event
    /\ ctl' = [NoCandidate(ctl) EXCEPT
                 !.crash_at = None, !.crash_floor = None, !.fault_at = None,
                 !.fault_power = None, !.proven_max = None, !.proven_at = None,
                 !.tainted = FALSE, !.derated = FALSE, !.match_polls = 0]
    /\ past' = [past EXCEPT !.clean = StableRun]
    /\ UNCHANGED <<miner, fresh>>

\* async_setup from what async_unload saved.
Reloads ==
    /\ Event
    /\ ctl' = [Started EXCEPT
                 !.crash_at = ctl.crash_at, !.crash_floor = ctl.crash_floor,
                 !.fault_at = ctl.fault_at, !.fault_power = ctl.fault_power,
                 !.proven_max = ctl.proven_max, !.proven_at = ctl.proven_at,
                 !.limit = ctl.limit]
    /\ fresh' = FALSE
    /\ UNCHANGED <<miner, past>>

----------------------------------------------------------------------------
(* The miner, and time *)

Hashes ==
    /\ ~miner.hashes /\ miner.warm = 0
    /\ miner' = [miner EXCEPT !.hashes = TRUE]
    /\ UNCHANGED <<ctl, fresh, past, events>>

RestartsItself ==
    /\ Event
    /\ miner' = Booting(miner.limit)
    /\ Interrupted("self")
    /\ UNCHANGED <<ctl, fresh>>

\* The firmware derates the miner, or takes it back.
Derates(p) ==
    /\ Event
    /\ p # miner.limit
    /\ miner' = [miner EXCEPT !.limit = p]
    /\ UNCHANGED <<ctl, fresh, past>>

Older(age, h) == IF age = None \/ age >= h THEN age ELSE age + 1

Aged(c) ==
    [c EXCEPT !.crash_at   = Older(@, FaultTTL),
              !.fault_at   = Older(@, FaultTTL),
              !.proven_at  = Older(@, FaultTTL),
              !.sent_at    = Older(@, DeratePostWrite),
              !.hold_since = Older(@, StableRun),
              !.candidate  = Older(@, DerateMin),
              !.actuated   = Older(@, BootHold)]

Tick ==
    /\ miner.up < MaxUptime /\ past.silent < MaxSilence
    /\ ctl' = Aged(ctl)
    /\ miner' = [miner EXCEPT !.up = @ + 1, !.warm = Larger(@ - 1, 0)]
    /\ past' = [past EXCEPT !.clean = Smaller(@ + 1, StableRun),
                            !.held = IF miner.hashes /\ ~past.broken
                                     THEN Smaller(@ + 1, StableRun) ELSE @,
                            !.silent = @ + 1]
    /\ UNCHANGED <<fresh, events>>

Init ==
    /\ ctl = Started
    /\ fresh = FALSE
    /\ events = 0
    /\ miner \in {[Booting(p) EXCEPT !.warm = 0] : p \in Powers}
    /\ past = [clean |-> StableRun, held |-> 0, broken |-> FALSE, boots |-> {},
               silent |-> 0, garbled |-> FALSE]

Next ==
    \/ PollSucceeds \/ PollGarbled \/ PollFails
    \/ \E p \in Floor(ctl)..Ceiling(ctl) : SetLimit(p) \/ SetPower(p)
    \/ StopsMiner \/ StartsMiner \/ ResetsFaultMemory \/ Reloads
    \/ Hashes \/ RestartsItself \/ Tick
    \/ \E p \in Powers : Derates(p)

Spec == Init /\ [][Next]_vars

----------------------------------------------------------------------------
(* Properties *)

TypeOK ==
    /\ ctl \in Memory
    /\ ctl.before = None => ~ctl.ours /\ ~ctl.short /\ ctl.regression_power = None
    /\ miner \in [up : 0..MaxUptime, warm : 0..BootTime, hashes : BOOLEAN, limit : Powers]
    /\ fresh \in BOOLEAN
    /\ events \in 0..MaxEvents
    /\ past \in [clean : 0..StableRun, held : 0..StableRun, broken : BOOLEAN,
                 boots : SUBSET {"self", "us"}, silent : 0..MaxSilence, garbled : BOOLEAN]

\* Whatever evidence came together, there is a power to command: the floor is
\* not above the ceiling and both are in Power Min..Power Max.
BoundsOrdered ==
    /\ TypeOK
    /\ Floor(ctl) \in Powers /\ Ceiling(ctl) \in Powers
    /\ Floor(ctl) <= Ceiling(ctl)

\* A fault lowers the ceiling for as long as a full run takes: no hold begun
\* before it, or credited by the poll or the command that came with it, lifts
\* the ceiling off the power that faulted.
NoEarlyWitness ==
    Armed(ctl.fault_at) /\ ctl.fault_at < StableRun =>
        Ceiling(ctl) <= Larger(PowerMin, Known(ctl.fault_power, PowerMin) + ProvenMargin)

Credits ==
    /\ ctl'.proven_at = 0
    /\ ctl'.proven_max # ctl.proven_max \/ ctl.proven_at # 0

\* A hold is credited, or its proof refreshed, only when no fault evidence
\* came during the full run it rests on: "the taint they set must block hold
\* witnessing on this same poll", and a command that clears the taint does not
\* launder the run before it.
CreditIsClean == [][Credits => past'.clean >= StableRun]_vars

\* Nor is it credited without the miner having hashed, without a restart, for
\* all of that run but the time since the last good poll.
ProvenWasHeld == [][Credits => past.held + past.silent >= StableRun]_vars

NewCrash ==
    /\ ctl'.crash_at = 0
    /\ ctl.crash_at # 0 \/ ctl'.crash_floor # ctl.crash_floor

\* "The first regression after one of our own commands is ours", and "a single
\* garbled summary ... must not count": the floor rises only for a restart that
\* the miner made by itself.  (A restart of ours that happens to confirm a
\* garbled summary is the exception.)
CrashNotOurs ==
    [][NewCrash => \/ "self" \in past.boots
                   \/ past.garbled /\ "us" \in past.boots]_vars
=============================================================================
