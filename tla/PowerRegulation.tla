--------------------------- MODULE PowerRegulation ---------------------------
(***************************************************************************)
(* How a power that the controller decided on reaches the miner: as the    *)
(* limit (v2 adjust_power_limit, which restarts btminer) or as the         *)
(* operating power under it (v3 set.miner.power), through the write gate,  *)
(* and what the controller believes the miner runs at afterwards.          *)
(*                                                                         *)
(* A step is regulated, then asks for the power the PID, the fallback      *)
(* curve or a safety cap wants, and waits for each command it sends; polls *)
(* are handled meanwhile.  The power asked for, the fault bounds and       *)
(* whether a cap is engaged are inputs; FaultMemory models the bounds.     *)
(*                                                                         *)
(* Left out: the hashrate-collapse watch; hashrate blips and garbled       *)
(* summaries, which the code takes for restarts; the limit sent when       *)
(* tuning takes too long: its gate is closed whenever its condition holds. *)
(***************************************************************************)
EXTENDS Integers

CONSTANTS
    PowerMin, PowerMax,
    Bounds,          \* the [floor, ceiling] that _bounds() may return
    Reconcile,       \* PINNED_RECONCILE_W
    Persist,         \* LIMIT_PERSIST_POLLS
    Fails,           \* V3_TRANSPORT_FAILS
    \* Durations, in ticks
    Grace, Retry, BootHold,
    Losses,          \* whether a command that was carried out may raise
    MaxEvents        \* bound: restarts of the miner, failed commands, reloads

Powers == PowerMin..PowerMax
None == -1
Power == Powers \cup {None}

ASSUME RegulationAssumption ==
    /\ PowerMin \in Nat \ {0} /\ PowerMax \in Nat /\ PowerMin <= PowerMax
    /\ Bounds \subseteq [floor : Powers, ceiling : Powers] /\ Bounds # {}
    /\ \A b \in Bounds : b.floor <= b.ceiling
    /\ {Reconcile, Persist, Fails, Grace, Retry, BootHold} \subseteq Nat \ {0}
    /\ Losses \in BOOLEAN
    /\ MaxEvents \in Nat

VARIABLES
    ctl,      \* the controller's attributes
    bounds,   \* what _bounds() returns
    step,     \* the step: the command it awaits, its local variables
    miner,    \* phase, limit, operating power; the writes of its tuned epoch
              \* (since a reload, which forgets the budget)
    data,     \* the last poll
    events    \* how many there were

vars == <<ctl, bounds, step, miner, data, events>>

Attributes ==
    [limit : Power,              \* _limit_w
     target : Power,             \* _op_target
     force : Power,              \* _op_in_force
     established : BOOLEAN,
     commanded : Power,          \* _last_commanded_power
     used : BOOLEAN,             \* _epoch_write_used
     tuned_seen : BOOLEAN,       \* _epoch_tuned_seen
     grace : 0..Grace, retry : 0..Retry, recent : 0..BootHold,   \* ticks left
     fails : 0..(Fails - 1), mismatch : 0..(Persist - 1),
     mining : {"unknown", "yes", "no"},
     pinned : BOOLEAN]

Started(pinned) ==
    [limit |-> None, target |-> None, force |-> None, established |-> FALSE,
     commanded |-> None, used |-> FALSE, tuned_seen |-> FALSE,
     grace |-> 0, retry |-> 0, recent |-> 0, fails |-> 0, mismatch |-> 0,
     mining |-> "unknown", pinned |-> pinned]

Phases == {"down", "tuning", "tuned"}

Kinds == {"limit", "v3", "fallback"}

\* Nothing is sent yet; due: a poll saw the miner hash, and its step is on its
\* way to the regulation; caps: whether a safety cap is engaged; under (history):
\* the fault bounds when the power sent was decided.
Fresh(caps) ==
    [at |-> "idle", due |-> FALSE, power |-> None, target |-> None, safety |-> FALSE,
     then |-> "end", landed |-> FALSE, caps |-> caps, sent |-> FALSE,
     under |-> [floor |-> PowerMin, ceiling |-> PowerMax]]

\* What a step is given: the power wanted (None: the throttle holds it, or the
\* fallback curve has nothing to go on),
\* whether it is the predictive back-off, whether the loop can take a boot at
\* the ceiling, whether the boot hold runs.
Requests == [want : Power, back_off : BOOLEAN, may_raise : BOOLEAN, booting : BOOLEAN]

Smaller(a, b)  == IF a <= b THEN a ELSE b
Larger(a, b)   == IF a >= b THEN a ELSE b
Known(p, q)    == IF p # None THEN p ELSE q
Distance(a, b) == Larger(a, b) - Smaller(a, b)
Clamped(p)     == Larger(Smaller(p, bounds.ceiling), bounds.floor)

LimitInForce(c) == Known(c.limit, data.limit)
PowerInForce(c) == Known(c.force, LimitInForce(c))

----------------------------------------------------------------------------
(* The write gate *)

Tuned(c) == data.fresh /\ data.tuned /\ c.grace = 0

GateOpen(c, safety) == safety \/ (data.fresh /\ data.tuned /\ ~c.used)

\* A suppressed power is held as the target.
Held(c, p) == [c EXCEPT !.target = p, !.established = @ /\ p = c.force]

----------------------------------------------------------------------------
(* A step, from the attributes and local variables x to what they become at *)
(* its next await or its end.                                               *)

Ends(x) == [x EXCEPT !.step = [Fresh(@.caps) EXCEPT !.sent = x.step.sent]]

Sends(x, kind, p, target, safety, then) ==
    [x EXCEPT !.step = [@ EXCEPT !.at = kind, !.power = p, !.target = target,
                                 !.safety = safety, !.then = then,
                                 !.landed = FALSE, !.sent = TRUE,
                                 !.under = IF kind = "fallback" THEN x.step.under ELSE bounds]]

\* _set_power_limit() and _send_v3_power() inside _command_power(): the v3
\* write passes the gate without an exemption.
AsksLimit(x, p, target, safety) ==
    IF GateOpen(x.ctl, safety) THEN Sends(x, "limit", p, target, safety, "end") ELSE Ends(x)

AsksV3(x, p) ==
    IF GateOpen(x.ctl, FALSE) THEN Sends(x, "v3", p, p, FALSE, "end") ELSE Ends(x)

\* The limit may be raised to the ceiling, and the miner boot there.
CeilingOk(x, i, safety) == i.may_raise /\ ~x.step.caps /\ ~safety /\ x.ctl.retry = 0

CommandsPower(x, wanted, safety, i) ==
    LET c == x.ctl
        p == Clamped(wanted)
        held == [x EXCEPT !.ctl = Held(c, p)] IN
    IF ~GateOpen(c, safety) THEN Ends(held)
    ELSE IF p > LimitInForce(c)
    THEN IF CeilingOk(x, i, safety)
         THEN AsksLimit(x, bounds.ceiling, p, FALSE)
         ELSE AsksLimit(x, p, p, safety)
    ELSE IF c.retry > 0 THEN AsksLimit(x, p, p, safety)
    ELSE IF Tuned(c) THEN AsksV3(x, p)
    ELSE IF safety THEN AsksLimit(x, p, p, TRUE)
    ELSE Ends(held)

Reference(c) == Known(c.commanded, data.limit)

\* _pinned_step(): the target is Power Min, and only a cap commands.
Pins(c) ==
    [c EXCEPT !.target = Clamped(PowerMin),
              !.established = @ /\ PowerInForce(c) # None
                                /\ Distance(Clamped(PowerMin), PowerInForce(c)) < Reconcile]

\* A cap wants Power Min, unless the fallback curve has nothing to go on.
Wanted(c, i, caps) ==
    IF caps /\ (c.pinned \/ i.want # None \/ Reference(c) # None) THEN PowerMin
    ELSE IF i.back_off THEN bounds.floor
    ELSE i.want

\* _run_pid_step(), _run_fallback_step() or _pinned_step().
Asks(x, i) ==
    LET y == IF x.ctl.pinned THEN [x EXCEPT !.ctl = Pins(@)] ELSE x
        caps == x.step.caps
        p == Wanted(y.ctl, i, caps) IN
    IF p = None \/ p = Reference(y.ctl) \/ (x.ctl.pinned /\ ~caps) THEN Ends(y)
    ELSE IF ~caps /\ i.back_off /\ p > Reference(y.ctl) THEN Ends(y)
    ELSE CommandsPower(y, p, caps \/ i.back_off, i)

Settled(x, i) == Asks([x EXCEPT !.ctl.established = TRUE], i)

Moves(x, p, target, i) ==
    IF GateOpen(x.ctl, FALSE) THEN Sends(x, "limit", p, target, FALSE, "pid") ELSE Asks(x, i)

Recommands(x, p, i) ==
    IF GateOpen(x.ctl, FALSE) THEN Sends(x, "v3", p, p, FALSE, "pid") ELSE Asks(x, i)

\* Faulty Reestablishes: the target is sent as it was held.
ReestablishesFaulty(x, i) ==
    IF x.ctl.target # x.ctl.force THEN Recommands(x, x.ctl.target, i) ELSE Settled(x, i)

\* The power the miner is to run at after a restart, once it is tuned.
Reestablishes(x, i) ==
    LET c == x.ctl
        p == Clamped(c.target)
        limit == LimitInForce(c) IN
    IF \/ p = c.force
       \/ c.pinned /\ PowerInForce(c) # None /\ Distance(p, PowerInForce(c)) < Reconcile
    THEN Settled(x, i)
    ELSE IF limit # None /\ p >= limit THEN Settled([x EXCEPT !.ctl.force = limit], i)
    ELSE IF c.retry > 0 THEN Moves(x, p, p, i)
    ELSE Recommands(x, p, i)

\* _regulation_tick(), and the PID step unless a limit went out.
Regulates(x, i) ==
    LET c == x.ctl
        ceiling == bounds.ceiling IN
    IF ~Tuned(c) \/ x.step.caps THEN Asks(x, i)
    ELSE IF LimitInForce(c) > ceiling /\ ~i.booting
    THEN Moves(x, ceiling, Smaller(Known(c.target, ceiling), ceiling), i)
    ELSE IF c.established THEN Asks(x, i)
    ELSE IF c.target = None THEN Settled(x, i)
    ELSE Reestablishes(x, i)

GoesOn(x, i) == IF x.step.then = "pid" THEN Asks(x, i) ELSE Ends(x)

----------------------------------------------------------------------------
(* Steps, and how a command ends *)

Event == events < MaxEvents /\ events' = events + 1

Becomes(x) ==
    /\ ctl' = x.ctl /\ step' = x.step
    /\ UNCHANGED <<bounds, miner, data>>

Here == [ctl |-> ctl, step |-> step]

ControlStep ==
    \E i \in Requests, caps \in BOOLEAN :
        /\ step.due
        /\ Becomes(Regulates([ctl |-> ctl, step |-> Fresh(caps)], i))
        /\ UNCHANGED events

\* Faulty LimitSent: the power under the old limit is still believed in.
LimitSentFaulty(c, s) ==
    [c EXCEPT !.limit = s.power, !.target = s.target, !.commanded = s.target,
              !.established = TRUE, !.used = @ \/ ~s.safety, !.recent = BootHold]

\* adjust_power_limit discards the operating power.
LimitSent(c, s) ==
    [c EXCEPT !.limit = s.power, !.force = s.power, !.target = s.target,
              !.commanded = s.target, !.established = s.target >= s.power,
              !.used = @ \/ ~s.safety, !.recent = BootHold, !.mismatch = 0]

LimitReplies ==
    /\ step.at \in {"limit", "fallback"} /\ step.landed
    /\ LET x == [Here EXCEPT !.ctl = LimitSent(@, step)] IN
       \E i \in Requests :
           Becomes(IF step.at = "limit" THEN Ends(x) ELSE GoesOn(x, i))
    /\ UNCHANGED events

V3Sent(c, p) ==
    [c EXCEPT !.fails = 0, !.used = TRUE, !.grace = Grace, !.target = p,
              !.force = p, !.commanded = p, !.established = TRUE]

V3Replies ==
    /\ step.at = "v3" /\ step.landed
    /\ \E i \in Requests : Becomes(GoesOn([Here EXCEPT !.ctl = V3Sent(@, step.power)], i))
    /\ UNCHANGED events

LimitFails ==
    /\ step.at \in {"limit", "fallback"} /\ (step.landed => Losses)
    /\ Event
    /\ \E i \in Requests : Becomes(GoesOn(Here, i))

\* A rejection, or the last of Fails transport failures, falls back to v2.
FallsBack(x, i) ==
    LET y == [x EXCEPT !.ctl.fails = 0, !.ctl.retry = Retry] IN
    IF GateOpen(y.ctl, FALSE)
    THEN Sends(y, "fallback", step.power, step.power, FALSE, step.then)
    ELSE GoesOn(y, i)

V3Rejected ==
    /\ step.at = "v3" /\ ~step.landed
    /\ Event
    /\ \E i \in Requests : Becomes(FallsBack(Here, i))

V3Fails ==
    /\ step.at = "v3" /\ (step.landed => Losses)
    /\ Event
    /\ \E i \in Requests :
           Becomes(IF ctl.fails + 1 < Fails
                   THEN GoesOn([Here EXCEPT !.ctl.fails = @ + 1], i)
                   ELSE FallsBack(Here, i))

----------------------------------------------------------------------------
(* Polls *)

NotesRestart(c, d) ==
    [c EXCEPT !.established = FALSE, !.force = Known(c.limit, d.limit), !.used = FALSE]

\* A reported limit that persists is believed, if nothing explains it.
NotesLimit(c, d, settled) ==
    IF /\ c.limit # None /\ d.limit # None /\ d.limit \notin {c.limit, c.target, c.force}
       /\ c.recent = 0 /\ settled
    THEN IF c.mismatch + 1 >= Persist
         THEN [c EXCEPT !.limit = d.limit, !.mismatch = 0]
         ELSE [c EXCEPT !.mismatch = @ + 1]
    ELSE [c EXCEPT !.mismatch = 0]

\* Faulty NotesEpoch: every poll of a tuned miner opens an epoch.
NotesEpochFaulty(c, d) == [c EXCEPT !.tuned_seen = d.tuned, !.used = @ /\ ~d.tuned]

NotesEpoch(c, d) ==
    [c EXCEPT !.tuned_seen = d.tuned, !.used = @ /\ ~(d.tuned /\ ~c.tuned_seen)]

Seeds(c) == [c EXCEPT !.commanded = c.target]

Edges(c, d) ==
    IF d.mining /\ c.mining # "yes" THEN NotesRestart(Seeds(c), d)
    ELSE IF ~d.mining /\ c.mining = "yes" /\ c.recent = 0
    THEN [c EXCEPT !.commanded = None]
    ELSE c

\* Restarts show as a regression of the uptime; settled: it is past the boot.
Handled(d, rebooted, settled) ==
    LET restarted == IF rebooted THEN NotesRestart(ctl, d) ELSE ctl IN
    [Edges(NotesEpoch(NotesLimit(restarted, d, settled), d), d)
        EXCEPT !.mining = IF d.mining THEN "yes" ELSE "no"]

Shown == [fresh |-> TRUE, tuned |-> miner.phase = "tuned", mining |-> miner.phase # "down",
          limit |-> IF miner.phase = "down" THEN None ELSE miner.limit]

PollSucceeds ==
    /\ data' = Shown
    /\ \E settled \in BOOLEAN : ctl' = Handled(Shown, miner.rebooted, settled)
    /\ step' = [step EXCEPT !.due = @ \/ (step.at = "idle" /\ Shown.mining)]
    /\ miner' = [miner EXCEPT !.rebooted = FALSE]
    /\ UNCHANGED <<bounds, events>>

PollFails ==
    /\ data' = [data EXCEPT !.fresh = FALSE]
    /\ UNCHANGED <<ctl, bounds, step, miner, events>>

\* Evidence came or expired.
BoundsMove ==
    /\ Event
    /\ bounds' \in Bounds
    /\ UNCHANGED <<ctl, step, miner, data>>

\* Home Assistant restarts: the limit and the target were saved.
Reloads ==
    /\ step.at = "idle"
    /\ Event
    /\ ctl' = [Started(ctl.pinned) EXCEPT !.limit = ctl.limit, !.target = ctl.target]
    /\ step' = Fresh(FALSE)
    /\ data' = [fresh |-> FALSE, tuned |-> FALSE, mining |-> FALSE, limit |-> None]
    /\ miner' = [miner EXCEPT !.writes = 0]
    /\ UNCHANGED bounds

----------------------------------------------------------------------------
(* The miner *)

Counted(m) == [m EXCEPT !.writes = Smaller(@ + (IF step.safety THEN 0 ELSE 1), 2)]

Restarted(m) == [m EXCEPT !.phase = "down", !.power = None, !.rebooted = TRUE]

LimitLands ==
    /\ step.at \in {"limit", "fallback"} /\ ~step.landed
    /\ miner' = [Restarted(Counted(miner)) EXCEPT !.limit = step.power]
    /\ step' = [step EXCEPT !.landed = TRUE]
    /\ UNCHANGED <<ctl, bounds, data, events>>

V3Lands ==
    /\ step.at = "v3" /\ ~step.landed
    /\ miner' = [Counted(miner) EXCEPT !.power = step.power]
    /\ step' = [step EXCEPT !.landed = TRUE]
    /\ UNCHANGED <<ctl, bounds, data, events>>

\* By itself; bound: not while a reply is on its way.
RestartsItself ==
    /\ ~step.landed
    /\ Event
    /\ miner' = Restarted(miner)
    /\ UNCHANGED <<ctl, bounds, step, data>>

Boots ==
    /\ miner.phase = "down"
    /\ miner' = [miner EXCEPT !.phase = "tuning"]
    /\ UNCHANGED <<ctl, bounds, step, data, events>>

\* Tuning has finished: a new epoch.  Bound: it takes minutes, so a poll falls
\* into it, or fails, and no command waits for as long.
Tunes ==
    /\ miner.phase = "tuning" /\ step.at = "idle"
    /\ data.fresh => ~data.tuned
    /\ miner' = [miner EXCEPT !.phase = "tuned", !.writes = 0]
    /\ UNCHANGED <<ctl, bounds, step, data, events>>

Retunes ==
    /\ miner.phase = "tuned"
    /\ miner' = [miner EXCEPT !.phase = "tuning"]
    /\ UNCHANGED <<ctl, bounds, step, data, events>>

Tick ==
    /\ ctl' = [ctl EXCEPT !.grace = Larger(@ - 1, 0), !.retry = Larger(@ - 1, 0),
                          !.recent = Larger(@ - 1, 0)]
    /\ UNCHANGED <<bounds, step, miner, data, events>>

Init ==
    /\ ctl \in {Started(b) : b \in BOOLEAN}
    /\ bounds \in Bounds
    /\ step = Fresh(FALSE)
    /\ miner \in {[phase |-> "tuned", limit |-> p, power |-> None, rebooted |-> FALSE,
                   writes |-> 0] : p \in Powers}
    /\ data = [fresh |-> FALSE, tuned |-> FALSE, mining |-> FALSE, limit |-> None]
    /\ events = 0

Next ==
    \/ ControlStep \/ LimitReplies \/ V3Replies \/ LimitFails \/ V3Rejected \/ V3Fails
    \/ PollSucceeds \/ PollFails \/ BoundsMove \/ Reloads
    \/ LimitLands \/ V3Lands \/ RestartsItself \/ Boots \/ Tunes \/ Retunes \/ Tick

Spec == Init /\ [][Next]_vars

----------------------------------------------------------------------------
(* Properties *)

TypeOK ==
    /\ ctl \in Attributes
    /\ bounds \in Bounds
    /\ step \in [at : Kinds \cup {"idle"}, due : BOOLEAN, power : Power, target : Power,
                 safety : BOOLEAN, then : {"end", "pid"}, landed : BOOLEAN,
                 caps : BOOLEAN, sent : BOOLEAN, under : [floor : Powers, ceiling : Powers]]
    /\ miner \in [phase : Phases, limit : Powers, power : Power, rebooted : BOOLEAN,
                  writes : 0..2]
    /\ data \in [fresh : BOOLEAN, tuned : BOOLEAN, mining : BOOLEAN, limit : Power]
    /\ events \in 0..MaxEvents

\* "One non-safety power write per tuned epoch", counted at the miner, however
\* polls, failures, fall-backs and restarts fall between gate and reply.
OneWritePerEpoch == TypeOK /\ miner.writes <= 1

\* Once the polls have shown its last restart, the miner runs at no more than
\* the controller believes it does.  (It may run at less: a target at the limit
\* that the gate holds is taken for delivered.)
NeverAboveBelief ==
    step.at = "idle" /\ ~miner.rebooted /\ ctl.mining = "yes" /\ ctl.force # None
        => Known(miner.power, miner.limit) <= ctl.force

Leaves == step'.at # "idle" /\ ~step'.landed /\ step' # step

\* Every command of a step, the first and those that follow a reply or a failure,
\* leaves inside the fault bounds of its moment, and a v3 write at no more than
\* the limit it would run under.  Only the limit that replaces a refused v3 write
\* carries that write's power on, and keeps to the bounds that one was decided
\* under: they may have moved while it waited, and the code does not look again.
CommandsInBounds ==
    [][Leaves =>
          LET within == IF step'.at = "fallback" THEN step.under ELSE bounds
          IN  /\ step'.power \in within.floor..within.ceiling
              /\ step'.at = "v3" => step'.power <= LimitInForce(ctl')]_vars

\* "Safety clamps ... pass unconditionally": a step under a safety cap sends a
\* command, unless the power last commanded is what the cap forces or the
\* fallback curve has nothing to go on.
ClampPasses ==
    [][step.due /\ ~step'.due /\ step'.caps /\ Reference(ctl) \notin {None, PowerMin} =>
          step'.sent]_vars
=============================================================================
