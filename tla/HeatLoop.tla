------------------------------- MODULE HeatLoop -------------------------------
(***************************************************************************)
(* What power the controller wants: the supply's slope and projection, the *)
(* PID of pid_controller.py with its anti-windup, the soft start, the      *)
(* settled hold, the safety caps and the clamps without demand, the        *)
(* open-loop fallback and the throttle.  How a power that is asked for     *)
(* reaches the miner is in PowerRegulation: here it goes out as a limit or *)
(* as an operating power.                                                  *)
(*                                                                         *)
(* A tick is a slope window; each takes one reading of the probe.          *)
(* Powers and temperatures are small whole numbers: the rails' tolerance,  *)
(* 1 W, is less than a unit of power, and a unit above a rail stands for   *)
(* the nudge of a watt that takes the PID off it.                          *)
(*                                                                         *)
(* Left out, for they are off or 0 unless configured: the set-point ramp,  *)
(* the outdoor and price terms, the smoothed slope; and the derivative,    *)
(* 2 W per degree between polls with the default gain.                     *)
(***************************************************************************)
EXTENDS Integers

CONSTANTS
    Temps, Cap,                  \* readings, and the supply cap
    Targets,                     \* what the user may set
    PowerMin, PowerMax,
    Floors,                      \* the crash floors in force
    Limit, Draw,                 \* what a miner not yet commanded reports, None for nothing
    Kp, Ki,                      \* per tick
    Fine, Coarse,                \* the step bands
    StepFine, StepMedium, Step,  \* the least change of power in each band
    IntegralBand,
    Jump,                        \* a change of the reading that is no trend
    Look,                        \* PREDICT_HORIZON_S, in slope windows
    \* Durations, in ticks
    Increase, Decrease, BootHold, Spacing

Powers == PowerMin..PowerMax
None == -100
Power == Powers \cup {None}
Max(a, b) == IF a >= b THEN a ELSE b
Min(a, b) == IF a <= b THEN a ELSE b
Within(p, low, high) == Max(Min(p, high), low)
Apart(a, b) == Max(a, b) - Min(a, b)

ASSUME HeatLoopAssumption ==
    /\ Temps \subseteq Nat /\ Targets \subseteq Temps /\ Cap \in Nat
    /\ \A target \in Targets : target < Cap
    /\ PowerMin \in Nat \ {0} /\ PowerMax \in Nat /\ PowerMin < PowerMax
    /\ Floors \subseteq Powers /\ Limit \in Power /\ Draw \in Powers
    /\ {Kp, Ki, StepFine, StepMedium, Step, Look} \subseteq Nat \ {0}
    /\ {Increase, Decrease, BootHold, Spacing} \subseteq Nat \ {0}
    /\ Fine \in Nat /\ Coarse \in Nat /\ Fine <= Coarse /\ IntegralBand \in Nat /\ Jump \in Nat
    /\ StepFine <= StepMedium /\ StepMedium <= Step
    /\ Increase <= Decrease /\ BootHold <= Spacing
    \* Half the span is a step that passes the throttle, and not the pinned mode.
    /\ \A floor \in Floors : 2 * Step <= PowerMax - floor

VARIABLES
    readings,   \* the probe's last two, None for none
    pid,        \* integral, last output, last set point
    ctl,        \* the controller's attributes
    due,        \* a reading was taken whose tick is to come
    tick        \* history: what the last tick has done, and under what

vars == <<readings, pid, ctl, due, tick>>

Demands == {"calling", "idle", "dwell"}

TypeOK ==
    /\ readings \in [1..2 -> Temps \cup {None}]
    /\ pid \in [integral : Int, output : 0..PowerMax, set_point : Targets \cup {0}]
    /\ ctl \in [mining : {"unknown", "yes", "no"},   \* _last_is_mining
                target : Power,                      \* _op_target
                commanded : Power,                   \* _last_commanded_power
                soft : BOOLEAN,                      \* _soft_start
                fallback : BOOLEAN,                  \* _in_fallback
                boot : 0..BootHold,                  \* the boot hold left
                age : 0..Decrease,                   \* since the last command
                limit_age : 0..Spacing]              \* since the last limit
    /\ due \in BOOLEAN
    /\ tick \in [\* no more than before, more than before and than the floor, or up to the floor
                asks : {"nothing", "less", "more", "floor"},
                 \* the crash floor it ran under with a cap engaged, None for no cap
                 cap : Floors \cup {None},
                 held : BOOLEAN,     \* the output was held below what the PID asked
                 \* too cold, though not by the whole span, at the floor or below, and
                 \* free to ask for more
                 starved : BOOLEAN]

----------------------------------------------------------------------------
(* The supply *)

Temp == readings[2]

\* _note_supply: a jump restarts the window.
Noted(reading) ==
    LET jumped == {reading, Temp} \subseteq Temps /\ Apart(reading, Temp) > Jump
    IN  <<IF jumped THEN None ELSE Temp, reading>>

\* _supply_slope, per window; None with too few samples.
Slope == IF None \in {readings[1], readings[2]} THEN None ELSE readings[2] - readings[1]

Rising == Slope # None /\ Slope >= 1

Projected == Temp + IF Rising THEN Slope * Look ELSE 0

----------------------------------------------------------------------------
(* A tick: x holds the PID, the controller and what the tick is given      *)

\* _reference and the base of the PID step.
Reference(x) == IF x.ctl.commanded # None THEN x.ctl.commanded ELSE Limit
Base(x) == IF Reference(x) # None THEN Reference(x) ELSE Draw

\* _seed_bumpless_transfer: from the power regulated to, else from the draw.
Seeded(x) ==
    LET power == IF x.ctl.target # None THEN x.ctl.target ELSE Draw
    IN  [x EXCEPT !.pid.integral = power - (IF Temp # None THEN Kp * (x.set - Temp) ELSE 0),
                  !.ctl.commanded = x.ctl.target]

\* _recently_sent_limit: the restart every limit causes.
OurRestart(c) == c.limit_age < BootHold

\* The edges of _handle_coordinator_update.  ours: not within a crash episode.
Stops(x) ==
    [x EXCEPT !.pid.integral = 0,
              !.ctl = IF OurRestart(@) THEN [@ EXCEPT !.mining = "no"]
                      ELSE [@ EXCEPT !.mining = "no", !.commanded = None, !.age = Decrease, !.soft = FALSE]]

Starts(x, ours) ==
    LET s == Seeded(x)
    IN  [s EXCEPT !.ctl = [s.ctl EXCEPT !.mining = "yes",
                                        !.boot = IF ours THEN BootHold ELSE @,
                                        !.soft = @ \/ ~OurRestart(x.ctl)]]

\* The first poll after a reload.
Finds(x, booting) ==
    LET s == Seeded(x)
    IN  [s EXCEPT !.ctl = [s.ctl EXCEPT !.mining = "yes",
                                        !.boot = IF booting THEN BootHold ELSE @,
                                        !.soft = @ \/ (Temp # None /\ Temp < x.set - Fine)]]

Caps(x) == x.chip \/ (Temp # None /\ Temp >= Cap)

\* _cap_clamp
CapClamp == PowerMin

Idle(x) == x.demand = "idle"
Stagnant(x) == x.demand # "calling"

NoTick == [asks |-> "nothing", cap |-> None, held |-> FALSE, starved |-> FALSE]

\* The crash floor a step runs under with a cap engaged.
Capped(x) == IF Caps(x) THEN x.floor ELSE None

\* No command.
Rests(x) == [x EXCEPT !.asked = None, !.tick = NoTick]

Asks(x, base, power) ==
    LET asks == IF base = None \/ power <= base THEN "less"
                ELSE IF power > x.floor THEN "more" ELSE "floor"
    IN  [x EXCEPT !.asked = power, !.tick.asks = asks]

Interval(x, power, reference) == IF power > reference THEN Increase ELSE Decrease

----------------------------------------------------------------------------
(* The PID *)

\* PID.calc: it integrates only off the rails, and under a steady set point.
Calculated(x) ==
    LET error == x.set - Temp
        off_rails == x.floor < x.pid.output /\ x.pid.output < PowerMax
        integral == IF off_rails /\ x.pid.set_point = x.set
                    THEN Within(x.pid.integral + Ki * error, x.floor, PowerMax)
                    ELSE x.pid.integral
    IN  [integral |-> integral, set_point |-> x.set,
         output |-> Within(Kp * error + integral, x.floor, PowerMax)]

\* The output for an integral that was put back.
Output(x, integral) == Within(Kp * (x.set - Temp) + integral, x.floor, PowerMax)

\* Faulty Lifted: a low rail is left to itself.
LiftedFaulty(p, x) == p

\* On the low rail with the supply too cold: the nudge, of the PID's last output
\* only, which lets it integrate on the next tick; what is asked for stays.
Lifted(p, x) ==
    IF p.output <= x.floor /\ x.set > Temp THEN [p EXCEPT !.output = x.floor + 1] ELSE p

\* Far from the set point and on the rail the error pushes to: no integration.
Unsaturated(p, x) ==
    LET error == x.set - Temp
        saturated == (p.output >= PowerMax /\ error > 0) \/ (p.output <= x.floor /\ error < 0)
    IN  IF IntegralBand > 0 /\ Apart(x.set, Temp) > IntegralBand /\ saturated
        THEN [p EXCEPT !.integral = x.pid.integral, !.output = Output(x, x.pid.integral)]
        ELSE Lifted(p, x)

----------------------------------------------------------------------------
(* _run_pid_step *)

\* _soft_start_power: one step up, once a horizon, without a climb.
SoftStartPower(x, base) ==
    IF x.ctl.boot > 0 \/ Slope = None \/ Projected >= x.set \/ x.ctl.limit_age < Spacing
    THEN base
    ELSE Min(base + Min((PowerMax - x.floor) \div 2, Max(Kp * (x.set - Projected), Step)), PowerMax)

BacksOff(x) == Rising /\ (Projected >= Cap \/ (Stagnant(x) /\ Projected >= x.set))

\* Faulty Predicted: the overshoot is cut from what the PID asks for.
PredictedFaulty(x, power, base) ==
    IF Rising /\ Projected >= x.set
    THEN [power |-> Max(power - Kp * (Projected - x.set), x.floor), why |-> "pull_back"]
    ELSE [power |-> power, why |-> "none"]

\* Rising, and projected past the target: never up, and down by what the
\* horizon predicts, from the power in force.
Predicted(x, power, base) ==
    LET hold == Min(base, Max(base - Kp * (Projected - x.set), x.floor))
    IN  IF Rising /\ Projected >= x.set /\ hold < power
        THEN [power |-> hold, why |-> IF hold >= base THEN "hold" ELSE "pull_back"]
        ELSE [power |-> power, why |-> "none"]

\* Close to the target now and projected: no nudge for the dither of a probe.
IsSettled(x, power, base) ==
    /\ ~x.ctl.soft /\ ~Stagnant(x) /\ Reference(x) # None
    /\ 2 * Apart(x.set, Temp) <= Fine /\ 2 * Apart(x.set, Projected) <= Fine
    /\ Apart(power, base) < StepMedium

\* What prediction, soft start and the settled hold make of the output.
Limited(x, output, base) ==
    IF Caps(x) THEN [power |-> output, why |-> "none"]
    ELSE IF BacksOff(x) THEN [power |-> x.floor, why |-> "back_off"]
    ELSE LET p == Predicted(x, IF x.ctl.soft THEN SoftStartPower(x, base) ELSE output, base)
         IN  IF p.why = "none" /\ IsSettled(x, p.power, base)
             THEN [power |-> base, why |-> "settled"]
             ELSE p

\* A cap forces Power Min, which no other clamp may lift; without demand, or in
\* a dwell, the floor.
Clamped(x, power) ==
    LET capped == IF Caps(x) THEN CapClamp ELSE power
    IN  IF ~Stagnant(x) THEN capped ELSE IF Caps(x) THEN Min(x.floor, capped) ELSE x.floor

\* Faulty Unwound: what the PID asks for is not compared with what is sent.
UnwoundFaulty(x, p, limited, power) ==
    IF limited.why = "settled" THEN [p EXCEPT !.integral = x.integral] ELSE p

\* Anti-windup; x.integral is the integral before the tick.
Unwound(x, p, limited, power) ==
    LET off_rail(output) == Max(output, x.floor + 1)
        back == Output(x, x.integral)
    IN  IF x.ctl.soft
        THEN [p EXCEPT !.integral = Base(x) - Kp * (x.set - Temp),
                       !.output = off_rail(Min(Base(x), PowerMax))]
        ELSE IF \/ limited.why = "settled"
                \/ (power < x.requested \/ x.ctl.boot > 0) /\ p.integral > x.integral
        THEN [p EXCEPT !.integral = x.integral,
                       !.output = IF x.set > Temp THEN off_rail(back) ELSE back]
        ELSE p

\* The hand-back from the soft start, within the fine band.
HandedBack(x, p) ==
    LET base == Base(x)
        integral == base - Kp * (x.set - Temp)
    IN  IF x.ctl.soft /\ x.set - Temp <= Fine
        THEN [x EXCEPT !.ctl.soft = FALSE, !.pid = [p EXCEPT !.integral = integral],
                       !.integral = integral, !.requested = base]
        ELSE [x EXCEPT !.pid = p, !.integral = x.pid.integral, !.requested = Output(x, p.integral)]

EffectiveStep(x) ==
    LET error == Apart(x.set, Temp)
    IN  IF error <= Fine THEN StepFine ELSE IF error <= Coarse THEN StepMedium ELSE Step

\* Faulty Fires: a cap waits for the interval like any other command.
FiresFaulty(x, power, why) ==
    LET reference == IF Reference(x) # None THEN Reference(x) ELSE None - PowerMax
        step_ok == Apart(power, reference) >= EffectiveStep(x)
        interval == IF why = "pull_back" THEN Min(Decrease, Increase) ELSE Interval(x, power, reference)
    IN  \/ why = "back_off" /\ step_ok /\ power < reference
        \/ step_ok /\ x.ctl.age >= interval /\ (x.ctl.boot = 0 \/ Caps(x))

\* The throttle; caps and the back-off pass the interval and the boot hold.
Fires(x, power, why) ==
    LET reference == IF Reference(x) # None THEN Reference(x) ELSE None - PowerMax
        step_ok == Apart(power, reference) >= EffectiveStep(x)
        interval == IF why = "pull_back" THEN Min(Decrease, Increase) ELSE Interval(x, power, reference)
    IN  \/ Caps(x) /\ step_ok
        \/ why = "back_off" /\ step_ok /\ power < reference
        \/ step_ok /\ x.ctl.age >= interval /\ x.ctl.boot = 0

PidStep(given) ==
    LET x == HandedBack(given, Unsaturated(Calculated(given), given))
        base == Base(x)
        limited == Limited(x, x.requested, base)
        power == Clamped(x, limited.power)
        p == Unwound(x, x.pid, limited, power)
        t == [NoTick EXCEPT
                !.cap = Capped(x),
                !.held = ~given.ctl.soft /\ (power < x.requested \/ x.ctl.boot > 0),
                !.starved = /\ base <= x.floor /\ 2 * (x.set - Temp) > Fine
                            /\ Kp * (x.set - Temp) < PowerMax - x.floor
                            /\ ~Caps(x) /\ ~Stagnant(x) /\ ~Rising]
        y == [Rests(x) EXCEPT !.pid = p, !.tick = t]
        backs_off == limited.why = "back_off" /\ Reference(x) # None /\ power < Reference(x)
    IN  IF ~Fires(x, power, limited.why) THEN y
        ELSE Asks([y EXCEPT !.ctl.soft = @ \/ (backs_off /\ Apart(power, Reference(x)) >= EffectiveStep(x))],
                  base, power)

\* The probe is back after a fallback.
Resumed(x) ==
    IF x.ctl.fallback THEN [Seeded(x) EXCEPT !.ctl.fallback = FALSE] ELSE x

----------------------------------------------------------------------------
(* _run_fallback_step *)

\* curve: the outdoor curve's power, None without an outdoor temperature.
FallbackStep(given) ==
    LET x == [given EXCEPT !.ctl.fallback = TRUE]
        reference == Reference(x)
        wanted == IF Idle(x) THEN x.floor ELSE x.curve
        power == IF Caps(x) THEN CapClamp
                 ELSE Within(IF wanted # None THEN wanted ELSE reference, x.floor, PowerMax)
        passes == \/ reference = None
                  \/ /\ Apart(power, reference) >= Step
                     /\ x.ctl.age >= Interval(x, power, reference) \/ Caps(x)
        rests == [Rests(x) EXCEPT !.tick.cap = Capped(x)]
    IN  IF /\ wanted # None \/ reference # None
           /\ passes /\ (x.ctl.boot = 0 \/ Caps(x))
        THEN Asks(rests, reference, power)
        ELSE rests

ControlStep(x) ==
    IF Temp = None THEN FallbackStep(x) ELSE PidStep(Resumed(x))

----------------------------------------------------------------------------
(* The ticks *)

\* What a tick is given: the target, the crash floor, thermostats, the chip
\* over its cap, the outdoor curve.
Inputs ==
    [set : Targets, floor : Floors, demand : Demands, chip : BOOLEAN,
     curve : IF Temp = None THEN {None, PowerMax} ELSE {None}]

Given(input) ==
    [set |-> input.set, floor |-> input.floor, demand |-> input.demand, chip |-> input.chip,
     curve |-> input.curve, pid |-> pid, ctl |-> ctl, tick |-> tick,
     integral |-> 0, requested |-> PowerMin, asked |-> None]

SentAsPower(x, power) ==
    [x EXCEPT !.ctl = [@ EXCEPT !.target = power, !.commanded = power, !.age = 0]]

\* A limit restarts btminer.
SentAsLimit(x, power) ==
    [SentAsPower(x, power) EXCEPT !.ctl.limit_age = 0]

Becomes(x) == pid' = x.pid /\ ctl' = x.ctl /\ tick' = x.tick

\* What is asked for comes within the bounds first (_command_power).
Commands(x) ==
    LET power == Within(x.asked, x.floor, PowerMax)
    IN  IF x.asked = None THEN Becomes(x)
        ELSE Becomes(SentAsPower(x, power)) \/ Becomes(SentAsLimit(x, power))

\* The step, unless it ends before the regulation.
Polled(x) == Becomes(Rests(x)) \/ Commands(ControlStep(x))

\* flag: at an edge, whether the boot hold applies.
Edge(x, flag) ==
    IF x.ctl.mining = "yes" THEN x
    ELSE IF x.ctl.mining = "unknown" THEN Finds(x, flag) ELSE Starts(x, flag)

PollMining ==
    \E input \in Inputs, flag \in IF ctl.mining = "yes" THEN {FALSE} ELSE BOOLEAN :
        Polled(Edge(Given(input), flag))

\* The step of a miner that does not mine ends before the regulation.
PollStopped ==
    LET x == [pid |-> pid, ctl |-> ctl]
        y == IF ctl.mining = "yes" THEN Stops(x) ELSE [x EXCEPT !.ctl.mining = "no"]
    IN  pid' = y.pid /\ ctl' = y.ctl /\ tick' = NoTick

Poll ==
    /\ due /\ due' = FALSE
    /\ PollMining \/ PollStopped
    /\ UNCHANGED readings

Older(age, horizon) == Min(age + 1, horizon)

\* A tick passes, and the probe is read.
Passes ==
    /\ ~due /\ due' = TRUE
    /\ \E reading \in Temps \cup {None} : readings' = Noted(reading)
    /\ ctl' = [ctl EXCEPT !.boot = Max(@ - 1, 0), !.age = Older(@, Decrease),
                          !.limit_age = Older(@, Spacing)]
    /\ tick' = NoTick
    /\ UNCHANGED pid

\* A stop or a resume by the shutoff or the lockout.
StopOrResume ==
    /\ \E boot \in {ctl.boot, BootHold} :
          ctl' = [ctl EXCEPT !.commanded = None, !.age = 0, !.boot = boot]
    /\ tick' = NoTick
    /\ UNCHANGED <<readings, pid, due>>

MiningControlOn ==
    /\ ctl' = [ctl EXCEPT !.boot = BootHold, !.soft = TRUE]
    /\ tick' = NoTick
    /\ UNCHANGED <<readings, pid, due>>

Controller(target) ==
    [mining |-> "unknown", target |-> target, commanded |-> None, soft |-> FALSE,
     fallback |-> FALSE, boot |-> 0, age |-> Decrease, limit_age |-> Spacing]

NewPid == [integral |-> 0, output |-> 0, set_point |-> 0]

Unread == <<None, None>>

\* The Store keeps the power regulated to.
Reload ==
    /\ readings' = Unread /\ pid' = NewPid
    /\ ctl' = Controller(ctl.target)
    /\ due' = FALSE /\ tick' = NoTick

Init ==
    /\ readings = Unread /\ pid = NewPid
    /\ ctl = Controller(None)
    /\ due = FALSE /\ tick = NoTick

Next == Passes \/ Poll \/ StopOrResume \/ MiningControlOn \/ Reload

Spec == Init /\ [][Next]_vars /\ WF_vars(Passes) /\ WF_vars(Poll)

----------------------------------------------------------------------------
(* Properties *)

\* No start, hand-back, settled hold or fall-back before it has the controller
\* ask for more, beyond the crash floor, while the supply rises and is projected
\* past the target, while a cap is engaged or while the miner boots.
NoRaiseIntoHeat ==
    tick.asks = "more" =>
        tick.cap = None /\ ctl.boot = 0 /\ (Rising => Projected < pid.set_point)

\* A safety cap takes effect in the tick that sees it, past the throttle, the
\* boot hold, the soft start, thermostats, a dwell and the fallback: what goes
\* out is Power Min, or the crash floor that _command_power raises it to, and
\* where nothing goes out the power in force is that floor already or within the
\* step of Power Min.  With the supply's probe lost and no power known of the
\* miner there is nothing to go out.
CapWins ==
    /\ TypeOK
    /\ tick.cap # None =>
          LET power == Reference([ctl |-> ctl])
          IN  \/ power = tick.cap
              \/ /\ tick.asks = "nothing"
                 /\ IF power = None THEN Temp = None ELSE Apart(power, PowerMin) < Step

\* "The integral cannot grow while a cap, the no-demand clamp, a dwell, the boot
\* hold or a predictive limit holds the output below the PID's request", though
\* it is clamped, put back and re-seeded on other paths of the same tick.
HeldLoopKeepsIntegral ==
    [][tick'.held /\ ctl.mining = "yes" /\ ~ctl.fallback => pid'.integral <= pid.integral]_vars

\* "Nothing would ever lift it off": a supply that stays too cold, with nothing to
\* keep its power from it, gets more than the floor, though the PID never
\* integrates on a rail and the soft start freezes it.  Not so where the error
\* alone spans the rails: what the nudge has the PID integrate, the integral
\* band then puts back.
LeavesLowRail ==
    <>[](due \/ tick.starved) /\ <>[][Passes \/ Poll]_vars => []<>(tick.asks \in {"more", "floor"})
=============================================================================
