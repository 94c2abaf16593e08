--------------------------- MODULE DemandShutoff ---------------------------
(***************************************************************************)
(* The demand-shutoff state machine of demand_shutoff.py: decide(), called *)
(* once per control step, and the functions that change its persisted      *)
(* state from outside (Mining Control, Reset Supply Lockout, a failed      *)
(* send, a restart).                                                       *)
(*                                                                         *)
(* Time.  The code keeps absolute timestamps and only ever compares        *)
(* "now - t" with a threshold.  Here every timestamp is its age in ticks,  *)
(* None when the code's field is None, and stops growing once it has       *)
(* passed every threshold it is compared with: the two are                 *)
(* indistinguishable to decide(), and the state space is finite without a  *)
(* time horizon.                                                           *)
(*                                                                         *)
(* Left out: the fields nothing reads (last_stop_at, would_stop_at,        *)
(* would_resume_at, resume_attempts), the reason and blocking texts and    *)
(* the notifications.  ``mode'' is the effective mode: "off" also stands   *)
(* for a configuration without thermostats (ShutoffConfig.active).         *)
(***************************************************************************)
EXTENDS Integers

CONSTANTS
    Modes,               \* modes the options can be set to in a run
    Inputs,              \* what a poll may read: records of InputType
    OutdoorMin,          \* warm gate arms at this 24 h mean, degrees F
    Hysteresis,          \* and disarms this far below it
    FreezeUnknownWarm,   \* freeze_threshold + FREEZE_UNKNOWN_MARGIN_F
    SoftCap,             \* supply soft cap, degrees F
    SupplyRelease,       \* S dwell releases this far below the cap (5 in the code)
    Lockout,             \* supply lockout, degrees F
    LatchMargin,         \* "about to hit the latch" margin (5 in the code)
    Target,              \* PID target, degrees F
    SupplyStop,          \* whether trigger S is enabled
    \* Durations, in ticks
    IdleDwell, SupplyDwell, MinOff, MinOn, UnknownGrace,
    ResumeVerify, ReleaseRetry, PowerOnRetry, StopRetry,
    ReassertMinAge, ReassertInterval, AdoptReclaim,
    \* Counts
    ReassertMax, AdoptMiningPolls, ResumeDebouncePolls

VARIABLES
    mode,      \* demand shutoff mode in force since the last (re)load
    shutoff,   \* the ShutoffState record
    action     \* action of the decision just taken, "none" otherwise

vars == <<mode, shutoff, action>>

None == -1     \* a timestamp or reading the code holds as None

Durations == {IdleDwell, SupplyDwell, MinOff, MinOn, UnknownGrace,
              ResumeVerify, ReleaseRetry, PowerOnRetry, StopRetry,
              ReassertMinAge, ReassertInterval, AdoptReclaim}

InputType ==
    [summary   : {"calling", "all_idle", "unknown"},
     gate_mean : Int,
     supply    : Int,
     is_mining : BOOLEAN,
     fresh     : BOOLEAN,
     latched   : BOOLEAN,
     freeze    : {"active", "clear", "unknown"},
     user_off  : BOOLEAN]

\* Every duration is a number of ticks, every count positive, and a failed
\* power_on is retried within the verify window.
ASSUME ShutoffAssumption ==
    /\ Modes \subseteq {"off", "observe", "active"} /\ Modes # {}
    /\ Inputs \subseteq InputType
    /\ Durations \subseteq Nat
    /\ PowerOnRetry <= ResumeVerify
    /\ {ReassertMax, AdoptMiningPolls, ResumeDebouncePolls} \subseteq Nat \ {0}
    /\ {OutdoorMin, Hysteresis, FreezeUnknownWarm, SoftCap, SupplyRelease,
        Lockout, LatchMargin, Target} \subseteq Int
    /\ SupplyStop \in BOOLEAN

----------------------------------------------------------------------------
(* The persisted state *)

Larger(a, b) == IF a >= b THEN a ELSE b

\* The age past which a timestamp is never told apart from an older one.
SinceHorizon  == Larger(MinOff, ReassertMinAge + 1 + ReassertMax * ReassertInterval)
DwellHorizon  == Larger(IdleDwell, SupplyDwell)
ResumeHorizon == Larger(ResumeVerify, ReleaseRetry)

ShutoffStates == {"running", "dwell", "stopped", "resuming"}
Actions == {"none", "stop", "resume", "reassert", "adopt", "release", "unlatch"}

Age(h) == 0..h \cup {None}

ShutoffState ==
    [state         : ShutoffStates,
     owned         : BOOLEAN,          \* we powered the miner off
     simulated     : BOOLEAN,          \* observe mode: no command was sent
     since         : Age(SinceHorizon),
     dwell_start   : Age(DwellHorizon),
     dwell_trigger : {"none", "W", "S"},
     last_resume   : Age(MinOn),
     resume_sent   : Age(ResumeHorizon),
     call_polls    : 0..ResumeDebouncePolls,
     unknown_since : Age(UnknownGrace),
     mining_polls  : 0..AdoptMiningPolls,
     reasserted    : Age(ReassertInterval),
     reasserts     : 0..ReassertMax,
     adopted       : Age(AdoptReclaim),
     stop_failed   : Age(StopRetry),
     suppressed    : BOOLEAN,          \* no stop until a thermostat calls
     gate_armed    : BOOLEAN]

InitialState ==
    [state |-> "running", owned |-> FALSE, simulated |-> FALSE,
     since |-> None, dwell_start |-> None, dwell_trigger |-> "none",
     last_resume |-> None, resume_sent |-> None, call_polls |-> 0,
     unknown_since |-> None, mining_polls |-> 0, reasserted |-> None,
     reasserts |-> 0, adopted |-> None, stop_failed |-> None,
     suppressed |-> FALSE, gate_armed |-> FALSE]

Older(age, h) == IF age = None \/ age >= h THEN age ELSE age + 1

Aged(s) ==
    [s EXCEPT !.since         = Older(@, SinceHorizon),
              !.dwell_start   = Older(@, DwellHorizon),
              !.last_resume   = Older(@, MinOn),
              !.resume_sent   = Older(@, ResumeHorizon),
              !.unknown_since = Older(@, UnknownGrace),
              !.reasserted    = Older(@, ReassertInterval),
              !.adopted       = Older(@, AdoptReclaim),
              !.stop_failed   = Older(@, StopRetry)]

\* "now - (t or now)": a timestamp never set counts as just set.
Elapsed(age) == IF age = None THEN 0 ELSE age

Bump(n, max) == IF n < max THEN n + 1 ELSE max

Enter(s, st) == [s EXCEPT !.state = st, !.since = 0]

ToRunning(s) ==
    [Enter(s, "running") EXCEPT
        !.owned = FALSE, !.simulated = FALSE,
        !.dwell_start = None, !.dwell_trigger = "none",
        !.call_polls = 0, !.unknown_since = None,
        !.mining_polls = 0, !.reasserted = None]

\* Faulty Disowned: the override forgets to drop the ownership.
DisownedFaulty(s) ==
    [Enter(s, "running") EXCEPT
        !.simulated = FALSE, !.dwell_start = None, !.dwell_trigger = "none"]

\* What Mining Control and Reset Supply Lockout do to the state.
Disowned(s) ==
    [Enter(s, "running") EXCEPT
        !.owned = FALSE, !.simulated = FALSE,
        !.dwell_start = None, !.dwell_trigger = "none"]

\* Faulty Restored: the time of the last resume does not survive a restart.
RestoredFaulty(s, m) ==
    [(IF s.simulated /\ m # "observe"
      THEN [InitialState EXCEPT !.gate_armed = s.gate_armed]
      ELSE IF s.state = "dwell"
           THEN [s EXCEPT !.state = "running", !.dwell_start = None,
                          !.dwell_trigger = "none"]
           ELSE s) EXCEPT !.last_resume = None]

\* from_dict() and the discard of a simulated stop in async_setup().
Restored(s, m) ==
    IF s.simulated /\ m # "observe"
    THEN [InitialState EXCEPT !.gate_armed = s.gate_armed]
    ELSE IF s.state = "dwell"
         THEN [s EXCEPT !.state = "running", !.dwell_start = None,
                        !.dwell_trigger = "none"]
         ELSE s

----------------------------------------------------------------------------
(* decide(): what every branch reads *)

GateArmed(s, i) ==
    /\ i.gate_mean # None
    /\ \/ i.gate_mean >= OutdoorMin
       \/ s.gate_armed /\ i.gate_mean >= OutdoorMin - Hysteresis

\* The state after the two updates decide() makes before branching.
Observed(i) ==
    [shutoff EXCEPT !.gate_armed = GateArmed(shutoff, i),
                    !.suppressed = @ /\ i.summary # "calling"]

SupplyCool(i)     == i.supply = None \/ i.supply < SoftCap
SupplyAtLeast(i, t) == i.supply # None /\ i.supply >= t
\* Faulty HeatWanted: the freeze guard is forgotten.
HeatWantedFaulty(i) == i.summary = "calling"

HeatWanted(i)     == i.summary = "calling" \/ i.freeze = "active"
SeenMining(i)     == i.fresh /\ i.is_mining
SeenStopped(i)    == i.fresh /\ ~i.is_mining

Decides(a, s) == action' = a /\ shutoff' = s /\ UNCHANGED mode

----------------------------------------------------------------------------
(* Supply lockout latched, or a stop that may no longer be held *)

LatchedHold(i) ==
    LET s == Observed(i) IN
    /\ i.latched
    /\ i.freeze # "active" \/ ~SupplyCool(i)
    /\ Decides("none", IF s.state # "running" \/ s.owned THEN ToRunning(s) ELSE s)

LatchedFreeze(i) ==
    LET s == Observed(i)
        r == IF s.state # "running" \/ s.owned THEN ToRunning(s) ELSE s IN
    /\ i.latched
    /\ i.freeze = "active" /\ SupplyCool(i)
    /\ Decides("unlatch", [Enter(r, "resuming") EXCEPT
                             !.owned = TRUE, !.resume_sent = 0, !.last_resume = 0])

\* Faulty ReleaseDue: switching to observe does not release.
ReleaseDueFaulty(i) == ~i.latched /\ shutoff.owned /\ mode = "off"

\* We own a real stop but the mode is off, or observe.
ReleaseDue(i) ==
    /\ ~i.latched
    /\ shutoff.owned
    /\ mode = "off" \/ (mode = "observe" /\ ~shutoff.simulated)

ReleaseConfirmed(i) ==
    /\ ReleaseDue(i)
    /\ SeenMining(i)
    /\ Decides("none", ToRunning(Observed(i)))

ReleasePending(i) ==
    /\ ReleaseDue(i)
    /\ ~SeenMining(i)
    /\ shutoff.state = "resuming" /\ shutoff.resume_sent < ReleaseRetry
    /\ Decides("none", Observed(i))

\* Faulty ReleaseSend: the stop is given up with the first power_on.
ReleaseSendFaulty(i) ==
    /\ ReleaseDue(i)
    /\ ~SeenMining(i)
    /\ shutoff.state # "resuming" \/ shutoff.resume_sent >= ReleaseRetry
    /\ Decides("release", ToRunning(Observed(i)))

ReleaseSend(i) ==
    LET s == Observed(i) IN
    /\ ReleaseDue(i)
    /\ ~SeenMining(i)
    /\ shutoff.state # "resuming" \/ shutoff.resume_sent >= ReleaseRetry
    /\ Decides("release", [(IF s.state = "resuming" THEN s ELSE Enter(s, "resuming"))
                              EXCEPT !.resume_sent = 0, !.last_resume = 0])

Disabled(i) ==
    LET s == Observed(i) IN
    /\ ~i.latched /\ mode = "off" /\ ~shutoff.owned
    /\ Decides("none", IF s.state # "running" THEN ToRunning(s) ELSE s)

Enabled(i) == ~i.latched /\ mode # "off" /\ ~ReleaseDue(i)

----------------------------------------------------------------------------
(* RUNNING and DWELL: look for a stop trigger *)

Watching(i) == Enabled(i) /\ shutoff.state \in {"running", "dwell"}

AdoptedJustNow == shutoff.adopted # None /\ shutoff.adopted < AdoptReclaim

\* A just-adopted start that stops by itself was our own slow stop after all.
ReclaimAdopted(i) ==
    /\ Watching(i)
    /\ AdoptedJustNow /\ SeenStopped(i)
    /\ Decides("none", [Enter(Observed(i), "stopped") EXCEPT
                          !.owned = TRUE, !.suppressed = FALSE, !.adopted = None,
                          !.mining_polls = 0, !.reasserts = 0, !.reasserted = None])

NothingToReclaim(i) == Watching(i) /\ ~(AdoptedJustNow /\ SeenStopped(i))

\* The observed state with an expired adoption forgotten.
Current(i) ==
    [Observed(i) EXCEPT !.adopted = IF AdoptedJustNow THEN @ ELSE None]

SupplyTrigger(s, i) ==
    /\ SupplyStop /\ i.summary # "calling"
    /\ \/ SupplyAtLeast(i, SoftCap)
       \/ /\ s.state = "dwell" /\ s.dwell_trigger = "S"
          /\ SupplyAtLeast(i, SoftCap - SupplyRelease)

Trigger(s, i) ==
    IF SupplyTrigger(s, i) THEN "S"
    ELSE IF s.gate_armed /\ i.summary = "all_idle" THEN "W" ELSE "none"

\* Faulty KeepRunning: a dwell survives a poll without a trigger.
KeepRunningFaulty(i) ==
    /\ NothingToReclaim(i)
    /\ Trigger(Current(i), i) = "none"
    /\ Decides("none", Current(i))

KeepRunning(i) ==
    LET s == Current(i) IN
    /\ NothingToReclaim(i)
    /\ Trigger(s, i) = "none"
    /\ Decides("none", IF s.state = "dwell" THEN ToRunning(s) ELSE s)

\* The state once the trigger is recorded, a dwell begun if there was none.
Dwelling(i) ==
    LET s == Current(i) IN
    IF s.state = "running"
    THEN [Enter(s, "dwell") EXCEPT !.dwell_start = 0, !.dwell_trigger = Trigger(s, i)]
    ELSE [s EXCEPT !.dwell_trigger = Trigger(s, i)]

FreezeBlocks(s, i) ==
    \/ i.freeze = "active"
    \/ /\ i.freeze = "unknown"
       /\ ~(s.gate_armed /\ i.gate_mean # None /\ i.gate_mean >= FreezeUnknownWarm)
       /\ ~(s.dwell_trigger = "S" /\ SupplyAtLeast(i, Lockout - LatchMargin))

DwellNeeded(s) == IF s.dwell_trigger = "S" THEN SupplyDwell ELSE IdleDwell

StopBlocked(s, i) ==
    \/ FreezeBlocks(s, i)
    \/ s.suppressed
    \/ Elapsed(s.dwell_start) < DwellNeeded(s)
    \/ s.dwell_trigger = "W" /\ s.last_resume # None /\ s.last_resume < MinOn
    \/ ~SeenMining(i)
    \/ i.user_off

KeepDwelling(i) ==
    /\ NothingToReclaim(i)
    /\ Trigger(Current(i), i) # "none"
    /\ StopBlocked(Dwelling(i), i)
    /\ Decides("none", Dwelling(i))

TakeStop(i) ==
    LET s == [Enter(Dwelling(i), "stopped") EXCEPT
                !.stop_failed = None, !.mining_polls = 0, !.reasserts = 0,
                !.reasserted = None, !.adopted = None, !.call_polls = 0,
                !.unknown_since = None] IN
    /\ NothingToReclaim(i)
    /\ Trigger(Current(i), i) # "none"
    /\ ~StopBlocked(Dwelling(i), i)
    /\ IF mode = "observe"
       THEN Decides("none", [s EXCEPT !.simulated = TRUE, !.owned = FALSE])
       ELSE Decides("stop", [s EXCEPT !.owned = TRUE])

----------------------------------------------------------------------------
(* STOPPED: the miner still hashes, or hashes again *)

Holding(i) == Enabled(i) /\ shutoff.state = "stopped"

HashingAgainstStop(i) ==
    Holding(i) /\ shutoff.owned /\ ~shutoff.simulated /\ SeenMining(i)

TakenAsResumed(i) == ToRunning([Observed(i) EXCEPT !.last_resume = 0])

StopRetryPending(i) ==
    /\ HashingAgainstStop(i)
    /\ shutoff.stop_failed # None /\ shutoff.stop_failed < StopRetry
    /\ Decides("none", Observed(i))

StopRetryAbandoned(i) ==
    /\ HashingAgainstStop(i)
    /\ shutoff.stop_failed >= StopRetry /\ HeatWanted(i)
    /\ Decides("none", TakenAsResumed(i))

StopRetrySend(i) ==
    /\ HashingAgainstStop(i)
    /\ shutoff.stop_failed >= StopRetry /\ ~HeatWanted(i)
    /\ Decides("stop", [Observed(i) EXCEPT !.stop_failed = 0])

\* Hashing long enough after a stop that was sent.
HashingUnexplained(i) ==
    /\ HashingAgainstStop(i)
    /\ shutoff.stop_failed = None
    /\ Elapsed(shutoff.since) > ReassertMinAge

Counted(i) ==
    [Observed(i) EXCEPT !.mining_polls = Bump(@, AdoptMiningPolls)]

HashingConfirmed(i) ==
    HashingUnexplained(i) /\ Counted(i).mining_polls >= AdoptMiningPolls

\* Faulty ReassertDue: reasserts go out on consecutive polls.
ReassertDueFaulty == TRUE

ReassertDue == shutoff.reasserted = None \/ shutoff.reasserted >= ReassertInterval

ConfirmHashing(i) ==
    /\ HashingUnexplained(i)
    /\ Counted(i).mining_polls < AdoptMiningPolls
    /\ Decides("none", Counted(i))

TreatAsResumed(i) ==
    /\ HashingConfirmed(i) /\ HeatWanted(i)
    /\ Decides("none", TakenAsResumed(i))

Reassert(i) ==
    /\ HashingConfirmed(i) /\ ~HeatWanted(i)
    /\ ReassertDue /\ shutoff.reasserts < ReassertMax
    /\ Decides("reassert", [Counted(i) EXCEPT !.reasserts = @ + 1, !.reasserted = 0])

\* Faulty Adopt: one reassert too early.
AdoptFaulty(i) ==
    /\ HashingConfirmed(i) /\ ~HeatWanted(i)
    /\ ReassertDue /\ shutoff.reasserts + 1 >= ReassertMax
    /\ Decides("adopt", [ToRunning(Counted(i)) EXCEPT !.suppressed = TRUE, !.adopted = 0])

Adopt(i) ==
    /\ HashingConfirmed(i) /\ ~HeatWanted(i)
    /\ ReassertDue /\ shutoff.reasserts >= ReassertMax
    /\ Decides("adopt", [ToRunning(Counted(i)) EXCEPT !.suppressed = TRUE, !.adopted = 0])

ReassertPending(i) ==
    /\ HashingConfirmed(i) /\ ~HeatWanted(i)
    /\ ~ReassertDue
    /\ Decides("none", Counted(i))

----------------------------------------------------------------------------
(* STOPPED: freeze guard, thermostats, fail-warm *)

Resting(i) ==
    /\ Holding(i)
    /\ HashingAgainstStop(i) => /\ shutoff.stop_failed = None
                                /\ Elapsed(shutoff.since) <= ReassertMinAge

\* A fresh "not mining" while we own the stop: it landed.
Landed(i) ==
    LET s == Observed(i) IN
    IF s.owned /\ ~s.simulated /\ SeenStopped(i)
    THEN [s EXCEPT !.stop_failed = None, !.mining_polls = 0,
                   !.reasserts = 0, !.reasserted = None]
    ELSE s

Resume(s) ==
    LET r == [s EXCEPT !.call_polls = 0, !.unknown_since = None, !.last_resume = 0] IN
    IF s.simulated
    THEN Decides("none", ToRunning(r))
    ELSE Decides("resume", [Enter(r, "resuming") EXCEPT !.resume_sent = 0])

FreezeWaitsForCool(i) ==
    /\ Resting(i)
    /\ i.freeze = "active" /\ ~SupplyCool(i)
    /\ Decides("none", Landed(i))

FreezeResume(i) ==
    /\ Resting(i)
    /\ i.freeze = "active" /\ SupplyCool(i)
    /\ Resume(Landed(i))

UnknownFreezeResume(i) ==
    /\ Resting(i)
    /\ i.freeze = "unknown" /\ ~Landed(i).gate_armed /\ SupplyCool(i)
    /\ Resume(Landed(i))

\* No freeze reason to act: the thermostats decide.
DemandDecides(i) ==
    /\ Resting(i)
    /\ i.freeze # "active"
    /\ ~(i.freeze = "unknown" /\ ~Landed(i).gate_armed /\ SupplyCool(i))

Polled(i) ==
    [Landed(i) EXCEPT
        !.call_polls = IF i.summary = "calling" THEN Bump(@, ResumeDebouncePolls) ELSE 0,
        !.unknown_since = IF i.summary # "unknown" THEN None
                          ELSE IF @ = None THEN 0 ELSE @]

DemandResumes(i) ==
    LET s == Polled(i) IN
    \/ /\ i.summary = "calling"
       /\ s.call_polls >= ResumeDebouncePolls
       /\ Elapsed(s.since) >= MinOff \/ ~s.gate_armed
    \/ /\ i.summary = "unknown"
       /\ Elapsed(s.unknown_since) >= UnknownGrace
       /\ i.supply = None \/ i.supply <= Target

DemandResume(i) == DemandDecides(i) /\ DemandResumes(i) /\ Resume(Polled(i))

StayStopped(i) ==
    /\ DemandDecides(i) /\ ~DemandResumes(i)
    /\ Decides("none", Polled(i))

----------------------------------------------------------------------------
(* RESUMING: power_on was sent, wait for hashing *)

Awaiting(i) == Enabled(i) /\ shutoff.state = "resuming"

ResumeConfirmed(i) ==
    /\ Awaiting(i)
    /\ SeenMining(i)
    /\ Decides("none", ToRunning(Observed(i)))

ResumeRetry(i) ==
    /\ Awaiting(i)
    /\ ~SeenMining(i) /\ Elapsed(shutoff.resume_sent) >= ResumeVerify
    /\ Decides("resume", [Observed(i) EXCEPT !.resume_sent = 0])

ResumePending(i) ==
    /\ Awaiting(i)
    /\ ~SeenMining(i) /\ Elapsed(shutoff.resume_sent) < ResumeVerify
    /\ Decides("none", Observed(i))

----------------------------------------------------------------------------
(* decide() as a whole, and the changes made from outside it *)

Decide(i) ==
    \/ LatchedHold(i) \/ LatchedFreeze(i)
    \/ ReleaseConfirmed(i) \/ ReleasePending(i) \/ ReleaseSend(i) \/ Disabled(i)
    \/ ReclaimAdopted(i) \/ KeepRunning(i) \/ KeepDwelling(i) \/ TakeStop(i)
    \/ StopRetryPending(i) \/ StopRetryAbandoned(i) \/ StopRetrySend(i)
    \/ ConfirmHashing(i) \/ TreatAsResumed(i)
    \/ Reassert(i) \/ Adopt(i) \/ ReassertPending(i)
    \/ FreezeWaitsForCool(i) \/ FreezeResume(i) \/ UnknownFreezeResume(i)
    \/ DemandResume(i) \/ StayStopped(i)
    \/ ResumeConfirmed(i) \/ ResumeRetry(i) \/ ResumePending(i)

Poll == \E i \in Inputs : Decide(i)

Sets(s) == shutoff' = s /\ action' = "none" /\ UNCHANGED mode

UserMiningOn  == Sets([Disowned(shutoff) EXCEPT !.suppressed = TRUE])
\* Faulty UserMiningOff: stops are suppressed, and the ownership stays.
UserMiningOffFaulty == Sets([shutoff EXCEPT !.suppressed = TRUE])

UserMiningOff == Sets(Disowned(shutoff))
LockoutReset  == Sets(Disowned(shutoff))

\* power_off raised: mark_stop_failed keeps the ownership.
StopSendFailed ==
    /\ action = "stop"
    /\ Sets([shutoff EXCEPT !.stop_failed = 0])

\* Faulty PowerOnFailed: a failed power_on gives the stop up.
PowerOnFailedFaulty(s) == ToRunning(s)

\* power_on raised: the verify clock is pulled back so the retry comes soon.
PowerOnFailed(s) == [s EXCEPT !.resume_sent = ResumeHorizon - PowerOnRetry]

ResumeSendFailed ==
    /\ action \in {"resume", "release", "unlatch"}
    /\ Sets(PowerOnFailed(shutoff))

Restart ==
    \E m \in Modes :
        /\ mode' = m
        /\ shutoff' = Restored(shutoff, m)
        /\ action' = "none"

Tick == Sets(Aged(shutoff))

Init ==
    /\ mode \in Modes
    /\ shutoff = InitialState
    /\ action = "none"

Next ==
    \/ Poll
    \/ UserMiningOn \/ UserMiningOff \/ LockoutReset
    \/ StopSendFailed \/ ResumeSendFailed
    \/ Restart \/ Tick

Spec == Init /\ [][Next]_vars

----------------------------------------------------------------------------
(* Properties *)

TypeOK == mode \in Modes /\ shutoff \in ShutoffState /\ action \in Actions

\* A stop or a resume is owned or simulated and never both, and nothing else
\* is owned; a dwell carries the trigger and the start it is measured from.
Consistent(s, m) ==
    /\ s.owned => s.state \in {"stopped", "resuming"}
    /\ s.state = "resuming" => s.owned /\ s.resume_sent # None
    /\ s.state = "stopped" => s.owned # s.simulated
    /\ s.simulated => s.state = "stopped" /\ m = "observe"
    /\ s.state = "dwell" => s.dwell_trigger # "none" /\ s.dwell_start # None
    /\ s.state = "running" => s.dwell_trigger = "none" /\ s.dwell_start = None

\* The ownership flags agree with the state they are kept beside, whatever
\* order polls, user actions, failed sends and restarts come in.
OwnershipInv == Consistent(shutoff, mode)

\* The age of a stop whose n-th reassert is just due.
ReassertAge(n) == ReassertMinAge + 1 + n * ReassertInterval

Spaced(s) ==
    s.state = "stopped" /\ s.reasserts > 0 =>
        /\ s.reasserted # None
        /\ s.since >= ReassertAge(s.reasserts - 1) + s.reasserted

\* Each reassert waited a full interval after the one before, and the first
\* one for the minimum age: the bookkeeping that bounds them is not lost when
\* polls, failures and restarts interleave.
ReassertsSpaced == Spaced(shutoff)

\* "Our own slow stop never gets adopted within this window": a start is
\* adopted only once every reassert has been sent and given its interval.
AdoptOnlyAfterReasserts ==
    [][action' = "adopt" =>
         shutoff.since >= ReassertAge(ReassertMax)]_vars

=============================================================================
