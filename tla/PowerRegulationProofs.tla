------------------------ MODULE PowerRegulationProofs ------------------------
(***************************************************************************)
(* Proofs about the delivery of a power, for any powers, margins and fault *)
(* bounds, any number of restarts, failed commands and reloads: what a     *)
(* command may ask, how often the miner is written to in a tuned epoch,    *)
(* and that it runs at no more than the controller believes.               *)
(***************************************************************************)
EXTENDS PowerRegulation, TLAPS

(***************************************************************************)
(* The inductive invariant                                                 *)
(***************************************************************************)

\* A poll of a tuned miner shows its limit and that it hashes.
PolledInv ==
    /\ data.tuned => data.limit # None
    /\ data.tuned => ctl.mining = "yes"
    /\ ctl.tuned_seen = data.tuned

\* A command is ordinary, or a safety clamp: a v3 write and its fall-back are
\* never clamps.
StepInv ==
    /\ step.at = "idle" => ~step.landed
    /\ step.due => step.at = "idle"
    /\ step.at # "idle" => step.power \in Powers
    /\ step.at \in {"v3", "fallback"} => ~step.safety
    /\ step.at = "v3" => step.power \in step.under.floor..step.under.ceiling

RegulationInv == TypeOK /\ PolledInv /\ StepInv

Ordinary == step.at # "idle" /\ ~step.safety

\* The tuned epoch has been seen, and nothing since that would reopen it.
SeenEpoch == miner.phase = "tuned" => data.tuned /\ ~miner.rebooted

\* The budget of the epoch: an ordinary command is under way only while it is
\* unspent, and it is spent from the write that reached the miner.
WriteInv ==
    /\ miner.writes <= 1
    /\ miner.phase = "tuned" /\ data.fresh /\ data.tuned => ~miner.rebooted
    /\ Ordinary => SeenEpoch
    /\ Ordinary /\ ~step.landed => miner.writes = 0
    /\ miner.writes = 1 /\ ~(Ordinary /\ step.landed) =>
         /\ SeenEpoch
         /\ miner.phase = "tuned" \/ (data.fresh /\ data.tuned) => ctl.used

Runs == Known(miner.power, miner.limit)

\* The limit in force is the miner's, and it runs under it.
BeliefInv ==
    /\ miner.power # None => miner.power <= miner.limit
    /\ ~(step.at \in {"limit", "fallback"} /\ step.landed) =>
         LimitInForce(ctl) \in {None, miner.limit}
    /\ step.at = "v3" => step.power <= miner.limit
    /\ step.at = "v3" /\ step.landed => miner.power = step.power
    /\ step.at \in {"limit", "fallback"} /\ step.landed =>
         miner.limit = step.power /\ miner.power = None
    /\ ~step.landed /\ ~miner.rebooted /\ ctl.force # None => Runs <= ctl.force

(***************************************************************************)
(* What a step may leave behind, whatever it is asked for                  *)
(***************************************************************************)

StepType ==
    [at : Kinds \cup {"idle"}, due : BOOLEAN, power : Power, target : Power,
     safety : BOOLEAN, then : {"end", "pid"}, landed : BOOLEAN,
     caps : BOOLEAN, sent : BOOLEAN, under : [floor : Powers, ceiling : Powers]]

\* The attributes and the local variables of a step on its way.
Local == [ctl : Attributes, step : {s \in StepType : ~s.due}]

\* Nothing between two commands moves the limit, the budget, the epoch or the
\* edge of mining; a power believed in is the limit in force.
Alters(c, d) ==
    /\ d.limit = c.limit /\ d.used = c.used
    /\ d.tuned_seen = c.tuned_seen /\ d.mining = c.mining
    /\ d.force \in {c.force, LimitInForce(c)}

\* From x a step ends, or sends y: an ordinary command through an open gate, a
\* power inside the bounds, a v3 write under the limit, or the fall-back of a v3
\* write with its power.
Follows(x, y) ==
    /\ y \in Local /\ Alters(x.ctl, y.ctl)
    /\ ~y.step.landed
    /\ y.step.at # "idle" =>
         /\ ~y.step.safety => GateOpen(x.ctl, FALSE)
         /\ y.step.at # "fallback" =>
              y.step.power \in bounds.floor..bounds.ceiling /\ y.step.under = bounds
         /\ y.step.at = "v3" => ~y.step.safety /\ y.step.power <= LimitInForce(x.ctl)
         /\ y.step.at = "fallback" =>
              /\ ~y.step.safety /\ y.step.power \in Powers
              /\ x.step.at = "v3" /\ y.step.power = x.step.power

\* What the assumption gives of the powers and the bounds.
LEMMA PowerFacts ==
    /\ Powers \subseteq Nat \ {0} /\ None \in Int /\ None \notin Nat
    /\ PowerMin \in Powers /\ PowerMax \in Powers
    /\ \A p \in Power : p \in Int /\ (p = None \/ p \in Powers)
    /\ \A b \in Bounds : /\ b.floor \in Powers /\ b.ceiling \in Powers
                         /\ b.floor <= b.ceiling
                         /\ b.floor..b.ceiling \subseteq Powers
  <1>1. /\ PowerMin \in Nat \ {0} /\ PowerMax \in Nat /\ PowerMin <= PowerMax
        /\ \A b \in Bounds : b.floor \in Powers /\ b.ceiling \in Powers /\ b.floor <= b.ceiling
    BY RegulationAssumption
  <1>2. Powers \subseteq Nat \ {0} /\ PowerMin \in Powers /\ PowerMax \in Powers
    BY <1>1 DEF Powers
  <1>3. \A b \in Bounds : b.floor..b.ceiling \subseteq Powers
    BY <1>1 DEF Powers
  <1>4. None \in Int /\ None \notin Nat
    BY DEF None
  <1>5. \A p \in Power : p \in Int /\ (p = None \/ p \in Powers)
    <2> SUFFICES ASSUME NEW p \in Power PROVE p \in Int /\ (p = None \/ p \in Powers)
      OBVIOUS
    <2>1. CASE p = None
      BY <1>4, <2>1
    <2>2. CASE p \in Powers
      BY <1>2, <2>2
    <2> QED
      BY <2>1, <2>2 DEF Power
  <1> QED
    BY <1>1, <1>2, <1>3, <1>4, <1>5

\* A power brought into the bounds is one.
LEMMA ClampedIn ==
    ASSUME bounds \in Bounds, NEW p \in Power
    PROVE  Clamped(p) \in bounds.floor..bounds.ceiling /\ Clamped(p) \in Powers
  <1>1. /\ bounds.floor \in Int /\ bounds.ceiling \in Int /\ bounds.floor <= bounds.ceiling
        /\ p \in Int /\ bounds.floor..bounds.ceiling \subseteq Powers
    <2>1. p \in Int
      BY PowerFacts
    <2>2. /\ bounds.floor \in Powers /\ bounds.ceiling \in Powers
          /\ bounds.floor <= bounds.ceiling /\ bounds.floor..bounds.ceiling \subseteq Powers
      BY PowerFacts
    <2>3. \A q \in Powers : q \in Int
      BY PowerFacts
    <2> QED
      BY <2>1, <2>2, <2>3
  <1>2. Clamped(p) \in bounds.floor..bounds.ceiling
    BY <1>1 DEF Clamped, Larger, Smaller
  <1> QED
    BY <1>1, <1>2

\* The powers in force are known powers, or none.
LEMMA InForceType ==
    ASSUME TypeOK, NEW c \in Attributes
    PROVE  LimitInForce(c) \in Power /\ PowerInForce(c) \in Power /\ Reference(c) \in Power
  <1>1. data.limit \in Power /\ c.limit \in Power /\ c.force \in Power /\ c.commanded \in Power
    BY DEF TypeOK, Attributes
  <1> QED
    BY <1>1 DEF LimitInForce, PowerInForce, Reference, Known

\* What two alterations do, one does.
LEMMA FollowsAlong ==
    ASSUME NEW x \in Local, NEW y \in Local, NEW z,
           Alters(x.ctl, y.ctl), y.step.at = x.step.at, y.step.power = x.step.power,
           Follows(y, z)
    PROVE  Follows(x, z)
  <1>1. LimitInForce(y.ctl) = LimitInForce(x.ctl)
    BY DEF Alters, LimitInForce
  <1>2. GateOpen(y.ctl, FALSE) => GateOpen(x.ctl, FALSE)
    BY DEF Alters, GateOpen
  <1>3. Alters(x.ctl, z.ctl)
    BY <1>1 DEF Alters, Follows
  <1> QED
    BY <1>1, <1>2, <1>3 DEF Follows

\* A step that ends sends nothing.
LEMMA EndFollows ==
    ASSUME NEW x \in Local
    PROVE  Follows(x, Ends(x))
  <1> DEFINE s == [Fresh(x.step.caps) EXCEPT !.sent = x.step.sent]
  <1>1. x.ctl \in Attributes /\ x.step \in StepType /\ ~x.step.due
    BY DEF Local
  <1>2. Fresh(x.step.caps) \in StepType
    BY <1>1, PowerFacts DEF Fresh, StepType, Power
  <1>3. s \in StepType /\ ~s.due /\ s.at = "idle" /\ ~s.landed
    <2>1. s \in StepType
      BY <1>1, <1>2 DEF StepType
    <2> QED
      BY <1>1, <1>2, <2>1 DEF StepType, Fresh
  <1>4. Ends(x) = [ctl |-> x.ctl, step |-> s]
    BY DEF Ends, Local
  <1> HIDE DEF s
  <1>5. Ends(x) \in Local /\ Ends(x).ctl = x.ctl /\ Ends(x).step = s
    BY <1>1, <1>3, <1>4 DEF Local
  <1> QED
    BY <1>3, <1>5 DEF Follows, Alters

\* The step as a command leaves it.
Leaving(s, kind, p, target, safety, then) ==
    [s EXCEPT !.at = kind, !.power = p, !.target = target, !.safety = safety, !.then = then,
              !.landed = FALSE, !.sent = TRUE,
              !.under = IF kind = "fallback" THEN s.under ELSE bounds]

\* What a command asks for, and for what it is sent.
LEMMA SendFollows ==
    ASSUME bounds \in Bounds, NEW x \in Local, NEW kind \in {"limit", "v3"},
           NEW p \in bounds.floor..bounds.ceiling, NEW target \in Power,
           NEW safety \in BOOLEAN, NEW then \in {"end", "pid"},
           ~safety => GateOpen(x.ctl, FALSE),
           kind = "v3" => ~safety /\ p <= LimitInForce(x.ctl)
    PROVE  Follows(x, Sends(x, kind, p, target, safety, then))
  <1> DEFINE s == Leaving(x.step, kind, p, target, safety, then)
  <1>1. x.ctl \in Attributes /\ x.step \in StepType /\ ~x.step.due
    BY DEF Local
  <1>2. /\ p \in Powers /\ p \in Power
        /\ bounds \in [floor : Powers, ceiling : Powers]
    BY PowerFacts, RegulationAssumption DEF Power
  <1>3. s \in StepType /\ ~s.due
    BY <1>1, <1>2 DEF StepType, Kinds, Leaving
  <1>4. s.at = kind /\ s.power = p /\ s.safety = safety /\ ~s.landed /\ s.under = bounds
    BY <1>1 DEF StepType, Leaving
  <1>5. Sends(x, kind, p, target, safety, then) = [ctl |-> x.ctl, step |-> s]
    <2>1. Sends(x, kind, p, target, safety, then) = [x EXCEPT !.step = s]
      BY DEF Sends, Leaving
    <2> HIDE DEF s
    <2> QED
      BY <2>1 DEF Local
  <1> HIDE DEF s
  <1>6. /\ Sends(x, kind, p, target, safety, then) \in Local
        /\ Sends(x, kind, p, target, safety, then).ctl = x.ctl
        /\ Sends(x, kind, p, target, safety, then).step = s
    BY <1>1, <1>3, <1>5 DEF Local
  <1> QED
    BY <1>2, <1>4, <1>6 DEF Follows, Alters

\* The attributes alone are changed.
LEMMA ChangedLocal ==
    ASSUME NEW x \in Local, NEW c \in Attributes
    PROVE  /\ [x EXCEPT !.ctl = c] \in Local
           /\ [x EXCEPT !.ctl = c].ctl = c /\ [x EXCEPT !.ctl = c].step = x.step
  BY DEF Local

\* A suppressed power is a target, and no more.
LEMMA HeldAlters ==
    ASSUME NEW c \in Attributes, NEW p \in Power
    PROVE  Held(c, p) \in Attributes /\ Alters(c, Held(c, p))
  <1>1. (c.established /\ p = c.force) \in BOOLEAN
    OBVIOUS
  <1>2. Held(c, p) \in Attributes
    BY <1>1 DEF Held, Attributes
  <1> QED
    BY <1>2 DEF Held, Attributes, Alters

\* A command keeps to the gate, to the bounds and, over v3, to the limit
\* (_command_power, _set_power_limit, _send_v3_power).
LEMMA CommandFollows ==
    ASSUME bounds \in Bounds, NEW x \in Local, NEW wanted \in Power,
           NEW safety \in BOOLEAN, NEW i \in Requests, LimitInForce(x.ctl) \in Power
    PROVE  Follows(x, CommandsPower(x, wanted, safety, i))
  <1> DEFINE p == Clamped(wanted)
             held == [x EXCEPT !.ctl = Held(x.ctl, p)]
  <1>1. p \in bounds.floor..bounds.ceiling /\ p \in Powers /\ p \in Power
    BY ClampedIn DEF Power
  <1>2. bounds.ceiling \in bounds.floor..bounds.ceiling
    <2>1. bounds.floor \in Powers /\ bounds.ceiling \in Powers /\ bounds.floor <= bounds.ceiling
      BY PowerFacts
    <2>2. \A q \in Powers : q \in Int
      BY PowerFacts
    <2> QED
      BY <2>1, <2>2
  <1>3. p \in Int /\ LimitInForce(x.ctl) \in Int
    BY <1>1, PowerFacts
  <1>4. Follows(x, Ends(held))
    <2>1. x.ctl \in Attributes
      BY DEF Local
    <2>2. Held(x.ctl, p) \in Attributes /\ Alters(x.ctl, Held(x.ctl, p))
      BY <1>1, <2>1, HeldAlters
    <2>3. held \in Local /\ held.ctl = Held(x.ctl, p) /\ held.step = x.step
      BY <2>2, ChangedLocal
    <2> HIDE DEF held
    <2> QED
      BY <2>2, <2>3, EndFollows, FollowsAlong
  <1> HIDE DEF p, held
  <1>5. \A q \in bounds.floor..bounds.ceiling : \A s \in BOOLEAN :
            Follows(x, AsksLimit(x, q, p, s))
    <2> SUFFICES ASSUME NEW q \in bounds.floor..bounds.ceiling, NEW s \in BOOLEAN
                 PROVE  Follows(x, AsksLimit(x, q, p, s))
      OBVIOUS
    <2>1. CASE GateOpen(x.ctl, s)
      <3>1. ~s => GateOpen(x.ctl, FALSE)
        BY <2>1 DEF GateOpen
      <3>2. Follows(x, Sends(x, "limit", q, p, s, "end"))
        BY <1>1, <3>1, SendFollows
      <3> QED
        BY <2>1, <3>2 DEF AsksLimit
    <2>2. CASE ~GateOpen(x.ctl, s)
      BY <2>2, EndFollows DEF AsksLimit
    <2> QED
      BY <2>1, <2>2
  <1>6. ASSUME ~(p > LimitInForce(x.ctl))
        PROVE  Follows(x, AsksV3(x, p))
    <2>1. p <= LimitInForce(x.ctl)
      BY <1>3, <1>6
    <2>2. CASE GateOpen(x.ctl, FALSE)
      <3>1. Follows(x, Sends(x, "v3", p, p, FALSE, "end"))
        BY <1>1, <2>1, <2>2, SendFollows
      <3> QED
        BY <2>2, <3>1 DEF AsksV3
    <2>3. CASE ~GateOpen(x.ctl, FALSE)
      BY <2>3, EndFollows DEF AsksV3
    <2> QED
      BY <2>2, <2>3
  <1>7. \/ CommandsPower(x, wanted, safety, i) = Ends(held)
        \/ CommandsPower(x, wanted, safety, i) = AsksLimit(x, bounds.ceiling, p, FALSE)
        \/ CommandsPower(x, wanted, safety, i) = AsksLimit(x, p, p, safety)
        \/ CommandsPower(x, wanted, safety, i) = AsksLimit(x, p, p, TRUE)
        \/ /\ ~(p > LimitInForce(x.ctl))
           /\ CommandsPower(x, wanted, safety, i) = AsksV3(x, p)
    BY DEF CommandsPower, p, held
  <1> QED
    BY <1>1, <1>2, <1>4, <1>5, <1>6, <1>7

\* A pinned power: the target alone.
LEMMA PinsAlter ==
    ASSUME TypeOK, NEW c \in Attributes
    PROVE  Pins(c) \in Attributes /\ Alters(c, Pins(c))
  <1>1. PowerMin \in Power
    BY PowerFacts DEF Power
  <1>2. Clamped(PowerMin) \in Power
    BY <1>1, ClampedIn DEF TypeOK, Power
  <1>3. (c.established /\ PowerInForce(c) # None
           /\ Distance(Clamped(PowerMin), PowerInForce(c)) < Reconcile) \in BOOLEAN
    OBVIOUS
  <1>4. Pins(c) \in Attributes
    BY <1>2, <1>3 DEF Pins, Attributes
  <1> QED
    BY <1>4 DEF Pins, Attributes, Alters

\* What the PID, the curve, the pinned step or a cap asks for follows from
\* where it is asked (_run_pid_step, _run_fallback_step, _pinned_step).
LEMMA AskFollows ==
    ASSUME TypeOK, NEW x \in Local, NEW i \in Requests
    PROVE  Follows(x, Asks(x, i))
  <1> DEFINE y == IF x.ctl.pinned THEN [x EXCEPT !.ctl = Pins(x.ctl)] ELSE x
             p == Wanted(y.ctl, i, x.step.caps)
             safety == x.step.caps \/ i.back_off
  <1>1. x.ctl \in Attributes /\ bounds \in Bounds /\ safety \in BOOLEAN
    BY DEF Local, TypeOK, StepType, Requests
  <1>2. y \in Local /\ Alters(x.ctl, y.ctl) /\ y.step = x.step
    <2>1. CASE x.ctl.pinned
      BY <1>1, <2>1, PinsAlter, ChangedLocal
    <2>2. CASE ~x.ctl.pinned
      BY <2>2 DEF Alters
    <2> QED
      BY <2>1, <2>2
  <1> HIDE DEF y
  <1>3. y.ctl \in Attributes /\ LimitInForce(y.ctl) \in Power /\ Reference(y.ctl) \in Power
    BY <1>2, InForceType DEF Local
  <1>4. p \in Power
    <2>1. PowerMin \in Power /\ bounds.floor \in Power
      BY <1>1, PowerFacts DEF Power
    <2>2. i.want \in Power
      BY DEF Requests
    <2> QED
      BY <2>1, <2>2 DEF Wanted
  <1>5. Follows(x, Ends(y))
    BY <1>2, EndFollows, FollowsAlong
  <1>6. Follows(x, CommandsPower(y, p, safety, i))
    BY <1>1, <1>2, <1>3, <1>4, CommandFollows, FollowsAlong
  <1>7. Asks(x, i) = Ends(y) \/ Asks(x, i) = CommandsPower(y, p, safety, i)
    BY <1>2 DEF Asks, y
  <1> QED
    BY <1>5, <1>6, <1>7

\* Nothing is left to re-establish.
LEMMA SettledFollows ==
    ASSUME TypeOK, NEW x \in Local, NEW i \in Requests
    PROVE  Follows(x, Settled(x, i))
  <1> DEFINE c == [x.ctl EXCEPT !.established = TRUE]
  <1>1. c \in Attributes /\ Alters(x.ctl, c)
    BY DEF Local, Attributes, Alters
  <1>2. [x EXCEPT !.ctl = c] = [x EXCEPT !.ctl.established = TRUE]
    BY DEF Local
  <1> HIDE DEF c
  <1>3. /\ [x EXCEPT !.ctl = c] \in Local
        /\ [x EXCEPT !.ctl = c].ctl = c /\ [x EXCEPT !.ctl = c].step = x.step
    BY <1>1, ChangedLocal
  <1>4. Follows([x EXCEPT !.ctl = c], Asks([x EXCEPT !.ctl = c], i))
    BY <1>3, AskFollows
  <1> QED
    BY <1>1, <1>2, <1>3, <1>4, FollowsAlong DEF Settled

\* A limit that goes out before the PID step, or the PID step.
LEMMA MoveFollows ==
    ASSUME TypeOK, NEW x \in Local, NEW i \in Requests,
           NEW p \in bounds.floor..bounds.ceiling, NEW target \in Power
    PROVE  Follows(x, Moves(x, p, target, i))
  <1>1. bounds \in Bounds
    BY DEF TypeOK
  <1>2. CASE GateOpen(x.ctl, FALSE)
    <2>1. Follows(x, Sends(x, "limit", p, target, FALSE, "pid"))
      BY <1>1, <1>2, SendFollows
    <2> QED
      BY <1>2, <2>1 DEF Moves
  <1>3. CASE ~GateOpen(x.ctl, FALSE)
    BY <1>3, AskFollows DEF Moves
  <1> QED
    BY <1>2, <1>3

\* A target is sent again as an operating power, under the limit.
LEMMA RecommandFollows ==
    ASSUME TypeOK, NEW x \in Local, NEW i \in Requests,
           NEW p \in bounds.floor..bounds.ceiling, p <= LimitInForce(x.ctl)
    PROVE  Follows(x, Recommands(x, p, i))
  <1>1. bounds \in Bounds /\ p \in Power
    BY PowerFacts DEF TypeOK, Power
  <1>2. CASE GateOpen(x.ctl, FALSE)
    <2>1. Follows(x, Sends(x, "v3", p, p, FALSE, "pid"))
      BY <1>1, <1>2, SendFollows
    <2> QED
      BY <1>2, <2>1 DEF Recommands
  <1>3. CASE ~GateOpen(x.ctl, FALSE)
    BY <1>3, AskFollows DEF Recommands
  <1> QED
    BY <1>2, <1>3

\* The target after a restart is clamped again, and sent over v3 only under
\* the limit that a tuned miner reports (_regulation_tick).
LEMMA ReestablishFollows ==
    ASSUME TypeOK, data.limit # None, NEW x \in Local, NEW i \in Requests
    PROVE  Follows(x, Reestablishes(x, i))
  <1> DEFINE p == Clamped(x.ctl.target)
             limit == LimitInForce(x.ctl)
             c == [x.ctl EXCEPT !.force = limit]
             y == [x EXCEPT !.ctl = c]
  <1>1. x.ctl \in Attributes /\ x.ctl.target \in Power /\ bounds \in Bounds
    BY DEF Local, Attributes, TypeOK
  <1>2. p \in bounds.floor..bounds.ceiling /\ p \in Power /\ p \in Int
    BY <1>1, ClampedIn, PowerFacts DEF Power
  <1>3. limit \in Power /\ limit \in Int /\ limit # None
    BY <1>1, InForceType, PowerFacts DEF LimitInForce, Known
  <1>4. Follows(x, Settled(y, i))
    <2>1. c \in Attributes /\ Alters(x.ctl, c)
      BY <1>1, <1>3 DEF Attributes, Alters
    <2> HIDE DEF c
    <2>2. y \in Local /\ y.ctl = c /\ y.step = x.step
      BY <2>1, ChangedLocal
    <2> HIDE DEF y
    <2> QED
      BY <2>1, <2>2, SettledFollows, FollowsAlong
  <1>5. y = [x EXCEPT !.ctl.force = limit]
    BY DEF Local
  <1> HIDE DEF p, limit, y
  <1>6. Follows(x, Settled(x, i)) /\ Follows(x, Moves(x, p, p, i))
    BY <1>2, SettledFollows, MoveFollows
  <1>7. ASSUME ~(p >= limit)
        PROVE  Follows(x, Recommands(x, p, i))
    <2>1. p <= limit
      BY <1>2, <1>3, <1>7
    <2> QED
      BY <1>2, <2>1, RecommandFollows DEF limit
  <1>8. \/ Reestablishes(x, i) = Settled(x, i)
        \/ Reestablishes(x, i) = Settled(y, i)
        \/ Reestablishes(x, i) = Moves(x, p, p, i)
        \/ /\ ~(p >= limit)
           /\ Reestablishes(x, i) = Recommands(x, p, i)
    <2>1. limit = LimitInForce(x.ctl) /\ p = Clamped(x.ctl.target)
      BY DEF limit, p
    <2> QED
      BY <1>3, <1>5, <2>1 DEF Reestablishes
  <1> QED
    BY <1>4, <1>6, <1>7, <1>8

\* A step that has read the polls (_regulation_tick, then the PID step).
LEMMA RegulationFollows ==
    ASSUME TypeOK, PolledInv, NEW x \in Local, NEW i \in Requests
    PROVE  Follows(x, Regulates(x, i))
  <1>1. Follows(x, Asks(x, i)) /\ Follows(x, Settled(x, i))
    BY AskFollows, SettledFollows
  <1>2. Follows(x, Moves(x, bounds.ceiling,
                         Smaller(Known(x.ctl.target, bounds.ceiling), bounds.ceiling), i))
    <2>1. /\ bounds.floor \in Powers /\ bounds.ceiling \in Powers
          /\ bounds.floor <= bounds.ceiling
      BY PowerFacts DEF TypeOK
    <2>2. \A q \in Powers : q \in Int
      BY PowerFacts
    <2>3. bounds.ceiling \in bounds.floor..bounds.ceiling
      BY <2>1, <2>2
    <2>4. x.ctl.target \in Power /\ bounds.ceiling \in Power
      BY <2>1 DEF Local, Attributes, Power
    <2>5. Smaller(Known(x.ctl.target, bounds.ceiling), bounds.ceiling) \in Power
      BY <2>4 DEF Smaller, Known
    <2> QED
      BY <2>3, <2>5, MoveFollows
  <1>3. Tuned(x.ctl) => Follows(x, Reestablishes(x, i))
    BY ReestablishFollows DEF Tuned, PolledInv
  <1> QED
    BY <1>1, <1>2, <1>3 DEF Regulates

\* What a step does after a command.
LEMMA GoOnFollows ==
    ASSUME TypeOK, NEW x \in Local, NEW i \in Requests
    PROVE  Follows(x, GoesOn(x, i))
  BY AskFollows, EndFollows DEF GoesOn

\* A v3 write that is given up is sent as a limit, once the gate lets it
\* (_command_power after V3_TRANSPORT_FAILS).
LEMMA FallBackFollows ==
    ASSUME TypeOK, NEW x \in Local, x.step = step, step.at = "v3", step.power \in Powers,
           NEW i \in Requests
    PROVE  Follows(x, FallsBack(x, i))
  <1> DEFINE c == [x.ctl EXCEPT !.fails = 0, !.retry = Retry]
             y == [x EXCEPT !.ctl.fails = 0, !.ctl.retry = Retry]
             s == Leaving(x.step, "fallback", step.power, step.power, FALSE, step.then)
  <1>1. x.ctl \in Attributes /\ x.step \in StepType /\ ~x.step.due
    BY DEF Local
  <1>2. c \in Attributes /\ Alters(x.ctl, c)
    <2>1. Fails - 1 \in Nat /\ Retry \in Nat
      BY RegulationAssumption
    <2>2. 0 \in 0..(Fails - 1) /\ Retry \in 0..Retry
      BY <2>1
    <2>3. c \in Attributes
      BY <1>1, <2>2 DEF Attributes
    <2> QED
      BY <1>1, <2>3 DEF Attributes, Alters
  <1>3. y \in Local /\ y.ctl = c /\ y.step = x.step
    <2> DEFINE a == [x.ctl EXCEPT !.fails = 0]
               z == [x EXCEPT !.ctl = a]
    <2>1. a \in Attributes
      <3>1. 0 \in 0..(Fails - 1)
        BY RegulationAssumption
      <3> QED
        BY <1>1, <3>1 DEF Attributes
    <2>2. c = [a EXCEPT !.retry = Retry]
      OBVIOUS
    <2>3. z = [x EXCEPT !.ctl.fails = 0]
      BY DEF Local
    <2> HIDE DEF a
    <2>4. z \in Local /\ z.ctl = a /\ z.step = x.step
      BY <2>1, ChangedLocal
    <2>5. y = [z EXCEPT !.ctl.retry = Retry]
      BY <2>3
    <2> HIDE DEF z
    <2>6. y = [z EXCEPT !.ctl = c]
      BY <2>2, <2>4, <2>5
    <2> HIDE DEF y, c
    <2> QED
      BY <1>2, <2>4, <2>6, ChangedLocal
  <1> HIDE DEF c
  <1> HIDE DEF y
  <1>4. CASE GateOpen(c, FALSE)
    <2>1. s \in StepType /\ ~s.due
      BY <1>1 DEF StepType, Kinds, Power, Leaving
    <2>2. s.at = "fallback" /\ s.power = step.power /\ ~s.safety /\ ~s.landed
      BY <1>1 DEF StepType, Leaving
    <2>3. Sends(y, "fallback", step.power, step.power, FALSE, step.then) = [ctl |-> c, step |-> s]
      <3>1. Sends(y, "fallback", step.power, step.power, FALSE, step.then) =
              [y EXCEPT !.step = Leaving(y.step, "fallback", step.power, step.power,
                                         FALSE, step.then)]
        BY DEF Sends, Leaving
      <3>2. Leaving(y.step, "fallback", step.power, step.power, FALSE, step.then) = s
        BY <1>3
      <3> HIDE DEF s
      <3> QED
        BY <1>3, <3>1, <3>2 DEF Local
    <2> HIDE DEF s
    <2>4. [ctl |-> c, step |-> s] \in Local
      BY <1>2, <2>1 DEF Local
    <2>5. GateOpen(x.ctl, FALSE)
      BY <1>2, <1>4 DEF GateOpen, Alters
    <2>6. Follows(x, [ctl |-> c, step |-> s])
      BY <1>2, <2>2, <2>4, <2>5 DEF Follows
    <2> QED
      BY <1>3, <1>4, <2>3, <2>6 DEF FallsBack, y
  <1>5. CASE ~GateOpen(c, FALSE)
    <2>1. Follows(x, GoesOn(y, i))
      BY <1>2, <1>3, GoOnFollows, FollowsAlong
    <2> QED
      BY <1>3, <1>5, <2>1 DEF FallsBack, y
  <1> QED
    BY <1>4, <1>5

(***************************************************************************)
(* The step's actions: a command under way ends, and what follows it       *)
(***************************************************************************)

\* A failure and a step's beginning leave what the miner was told as it was.
Unaltered(c, d) ==
    /\ d.limit = c.limit /\ d.used = c.used /\ d.force = c.force
    /\ d.tuned_seen = c.tuned_seen /\ d.mining = c.mining

StepActs ==
    ControlStep \/ LimitReplies \/ V3Replies \/ LimitFails \/ V3Rejected \/ V3Fails

\* What the step goes on from.
GoesOnFrom(x) ==
    \/ Unaltered(ctl, x.ctl) /\ (step.landed => Losses)
    \/ /\ step.at \in {"limit", "fallback"} /\ step.landed
       /\ x.ctl = LimitSent(ctl, step)
    \/ /\ step.at = "v3" /\ step.landed
       /\ x.ctl = V3Sent(ctl, step.power)

\* What a reply leaves in the attributes has their type.
LEMMA ReplyType ==
    ASSUME RegulationInv, step.at # "idle"
    PROVE  LimitSent(ctl, step) \in Attributes /\ V3Sent(ctl, step.power) \in Attributes
  <1>1. /\ step.power \in Power /\ step.target \in Power /\ ctl \in Attributes
        /\ (step.target >= step.power) \in BOOLEAN /\ (ctl.used \/ ~step.safety) \in BOOLEAN
    BY DEF RegulationInv, TypeOK
  <1>2. /\ BootHold \in 0..BootHold /\ Grace \in 0..Grace /\ 0 \in 0..(Persist - 1)
        /\ 0 \in 0..(Fails - 1)
    BY RegulationAssumption
  <1>3. LimitSent(ctl, step) \in Attributes
    BY <1>1, <1>2 DEF LimitSent, Attributes
  <1>4. V3Sent(ctl, step.power) \in Attributes
    BY <1>1, <1>2 DEF V3Sent, Attributes
  <1> QED
    BY <1>3, <1>4

\* Here is a step on its way, unless it has not begun.
LEMMA HereLocal ==
    ASSUME RegulationInv, NEW c \in Attributes, step.at # "idle"
    PROVE  /\ [Here EXCEPT !.ctl = c] \in Local
           /\ [Here EXCEPT !.ctl = c].ctl = c /\ [Here EXCEPT !.ctl = c].step = step
           /\ Here \in Local /\ Here.ctl = ctl /\ Here.step = step
  <1>1. step \in StepType /\ ~step.due /\ ctl \in Attributes
    BY DEF RegulationInv, TypeOK, StepInv, StepType
  <1> QED
    BY <1>1 DEF Here, Local

\* A step's action: from where it goes on, something follows.
LEMMA ActsFollow ==
    ASSUME RegulationInv, StepActs
    PROVE  \E x, y : /\ x \in Local /\ Follows(x, y) /\ Becomes(y) /\ GoesOnFrom(x)
                     /\ events' \in 0..MaxEvents
                     /\ IF step.at = "idle" THEN x.step.at = "idle" ELSE x.step = step
  <1>1. /\ TypeOK /\ PolledInv /\ events \in 0..MaxEvents
        /\ step.at = "idle" => ~step.landed
        /\ step.at # "idle" => step.power \in Powers
        /\ step.due => step.at = "idle"
    BY DEF RegulationInv, TypeOK, StepInv
  <1>2. /\ UNCHANGED events => events' \in 0..MaxEvents
        /\ Event => events' \in 0..MaxEvents
    <2>1. MaxEvents \in Nat
      BY RegulationAssumption
    <2> QED
      BY <1>1, <2>1 DEF Event
  <1>3. CASE ControlStep
    <2>1. PICK i \in Requests, caps \in BOOLEAN :
              /\ step.due /\ Becomes(Regulates([ctl |-> ctl, step |-> Fresh(caps)], i))
              /\ UNCHANGED events
      BY <1>3 DEF ControlStep
    <2> DEFINE x == [ctl |-> ctl, step |-> Fresh(caps)]
    <2>2. Fresh(caps) \in StepType /\ ~Fresh(caps).due /\ Fresh(caps).at = "idle"
      BY PowerFacts DEF Fresh, StepType, Power
    <2>3. x \in Local /\ x.ctl = ctl /\ x.step.at = "idle"
      BY <1>1, <2>2 DEF Local, TypeOK
    <2>4. Becomes(Regulates(x, i))
      BY <2>1
    <2> HIDE DEF x
    <2>5. Follows(x, Regulates(x, i))
      BY <1>1, <2>3, RegulationFollows
    <2>6. GoesOnFrom(x)
      BY <1>1, <2>1, <2>3 DEF GoesOnFrom, Unaltered
    <2> QED
      BY <1>1, <1>2, <2>1, <2>3, <2>4, <2>5, <2>6
  <1>4. CASE LimitReplies
    <2> DEFINE x == [Here EXCEPT !.ctl = LimitSent(ctl, step)]
    <2>1. step.at \in {"limit", "fallback"} /\ step.landed /\ UNCHANGED events
      BY <1>4 DEF LimitReplies
    <2>2. step.at # "idle"
      BY <2>1
    <2>3. x \in Local /\ x.ctl = LimitSent(ctl, step) /\ x.step = step /\ Here.ctl = ctl
      BY <2>2, ReplyType, HereLocal
    <2>4. [Here EXCEPT !.ctl = LimitSent(@, step)] = x
      BY DEF Here
    <2>5. PICK i \in Requests : Becomes(IF step.at = "limit" THEN Ends(x) ELSE GoesOn(x, i))
      BY <1>4, <2>4 DEF LimitReplies
    <2> HIDE DEF x
    <2>6. Follows(x, Ends(x)) /\ Follows(x, GoesOn(x, i))
      BY <1>1, <2>3, EndFollows, GoOnFollows
    <2>7. GoesOnFrom(x)
      BY <2>1, <2>3 DEF GoesOnFrom
    <2> QED
      BY <1>2, <2>1, <2>2, <2>3, <2>5, <2>6, <2>7
  <1>5. CASE V3Replies
    <2> DEFINE x == [Here EXCEPT !.ctl = V3Sent(ctl, step.power)]
    <2>1. step.at = "v3" /\ step.landed /\ UNCHANGED events
      BY <1>5 DEF V3Replies
    <2>2. step.at # "idle"
      BY <2>1
    <2>3. x \in Local /\ x.ctl = V3Sent(ctl, step.power) /\ x.step = step
      BY <2>2, ReplyType, HereLocal
    <2>4. [Here EXCEPT !.ctl = V3Sent(@, step.power)] = x
      BY DEF Here
    <2>5. PICK i \in Requests : Becomes(GoesOn(x, i))
      BY <1>5, <2>4 DEF V3Replies
    <2> HIDE DEF x
    <2>6. Follows(x, GoesOn(x, i))
      BY <1>1, <2>3, GoOnFollows
    <2>7. GoesOnFrom(x)
      BY <2>1, <2>3 DEF GoesOnFrom
    <2> QED
      BY <1>2, <2>1, <2>2, <2>3, <2>5, <2>6, <2>7
  <1>6. CASE LimitFails
    <2>1. step.at # "idle" /\ (step.landed => Losses) /\ Event
      BY <1>6 DEF LimitFails
    <2>2. Here \in Local /\ Here.ctl = ctl /\ Here.step = step
      BY <1>1, <2>1, HereLocal DEF TypeOK
    <2>3. PICK i \in Requests : Becomes(GoesOn(Here, i))
      BY <1>6 DEF LimitFails
    <2>4. Follows(Here, GoesOn(Here, i))
      BY <1>1, <2>2, GoOnFollows
    <2>5. GoesOnFrom(Here)
      BY <2>1, <2>2 DEF GoesOnFrom, Unaltered
    <2> QED
      BY <1>2, <2>1, <2>2, <2>3, <2>4, <2>5
  <1>7. CASE V3Rejected
    <2>1. step.at = "v3" /\ ~step.landed /\ Event
      BY <1>7 DEF V3Rejected
    <2>2. Here \in Local /\ Here.ctl = ctl /\ Here.step = step /\ step.at # "idle"
      BY <1>1, <2>1, HereLocal DEF TypeOK
    <2>3. PICK i \in Requests : Becomes(FallsBack(Here, i))
      BY <1>7 DEF V3Rejected
    <2>4. Follows(Here, FallsBack(Here, i))
      BY <1>1, <2>1, <2>2, FallBackFollows
    <2>5. GoesOnFrom(Here)
      BY <2>1, <2>2 DEF GoesOnFrom, Unaltered
    <2> QED
      BY <1>2, <2>1, <2>2, <2>3, <2>4, <2>5
  <1>8. CASE V3Fails
    <2> DEFINE c == [ctl EXCEPT !.fails = @ + 1]
               x == [Here EXCEPT !.ctl = c]
    <2>1. step.at = "v3" /\ (step.landed => Losses) /\ Event
      BY <1>8 DEF V3Fails
    <2>2. Here \in Local /\ Here.ctl = ctl /\ Here.step = step /\ step.at # "idle"
      BY <1>1, <2>1, HereLocal DEF TypeOK
    <2>3. PICK i \in Requests :
              Becomes(IF ctl.fails + 1 < Fails
                      THEN GoesOn([Here EXCEPT !.ctl.fails = @ + 1], i)
                      ELSE FallsBack(Here, i))
      BY <1>8 DEF V3Fails
    <2>4. CASE ctl.fails + 1 < Fails
      <3>1. ctl.fails + 1 \in 0..(Fails - 1)
        <4>1. Fails \in Nat /\ ctl.fails \in 0..(Fails - 1)
          BY <1>1, RegulationAssumption DEF TypeOK, Attributes
        <4> QED
          BY <2>4, <4>1
      <3>2. c \in Attributes /\ Unaltered(ctl, c)
        BY <1>1, <3>1 DEF TypeOK, Attributes, Unaltered
      <3>3. [Here EXCEPT !.ctl.fails = @ + 1] = x
        BY DEF Here
      <3> HIDE DEF c
      <3>4. x \in Local /\ x.ctl = c /\ x.step = step
        BY <2>2, <3>2, HereLocal
      <3>5. Becomes(GoesOn(x, i))
        BY <2>3, <2>4, <3>3
      <3> HIDE DEF x
      <3>6. Follows(x, GoesOn(x, i))
        BY <1>1, <3>4, GoOnFollows
      <3>7. GoesOnFrom(x)
        BY <2>1, <3>2, <3>4 DEF GoesOnFrom
      <3> QED
        BY <1>2, <2>1, <2>2, <3>4, <3>5, <3>6, <3>7
    <2>5. CASE ~(ctl.fails + 1 < Fails)
      <3>1. Follows(Here, FallsBack(Here, i))
        BY <1>1, <2>1, <2>2, FallBackFollows
      <3>2. GoesOnFrom(Here)
        BY <2>1, <2>2 DEF GoesOnFrom, Unaltered
      <3>3. Becomes(FallsBack(Here, i))
        BY <2>3, <2>5
      <3> QED
        BY <1>2, <2>1, <2>2, <3>1, <3>2, <3>3
    <2> QED
      BY <2>4, <2>5
  <1> QED
    BY <1>3, <1>4, <1>5, <1>6, <1>7, <1>8 DEF StepActs

\* The types, and what a poll shows.
LEMMA ActsKeepTypes ==
    ASSUME RegulationInv, StepActs
    PROVE  RegulationInv'
  <1>1. PICK x, y : /\ x \in Local /\ Follows(x, y) /\ Becomes(y) /\ GoesOnFrom(x)
                    /\ events' \in 0..MaxEvents
    BY ActsFollow
  <1>2. x.ctl.tuned_seen = ctl.tuned_seen /\ x.ctl.mining = ctl.mining
    <2>1. ctl \in Attributes
      BY DEF RegulationInv, TypeOK
    <2> QED
      BY <1>1, <2>1 DEF GoesOnFrom, Unaltered, LimitSent, V3Sent, Attributes
  <1>3. /\ ctl' = y.ctl /\ step' = y.step /\ UNCHANGED <<bounds, miner, data>>
        /\ y.ctl \in Attributes /\ y.step \in StepType /\ ~y.step.due
        /\ y.ctl.tuned_seen = ctl.tuned_seen /\ y.ctl.mining = ctl.mining
    BY <1>1, <1>2 DEF Becomes, Follows, Alters, Local
  <1>4. TypeOK'
    BY <1>1, <1>3 DEF RegulationInv, TypeOK, StepType
  <1>5. PolledInv'
    BY <1>3 DEF RegulationInv, PolledInv
  <1>6. StepInv'
    <2>1. bounds.floor..bounds.ceiling \subseteq Powers
      BY PowerFacts DEF RegulationInv, TypeOK
    <2>2. /\ ~y.step.landed
          /\ y.step.at # "idle" => y.step.power \in Powers
          /\ y.step.at \in {"v3", "fallback"} => ~y.step.safety
          /\ y.step.at = "v3" => y.step.power \in y.step.under.floor..y.step.under.ceiling
      BY <1>1, <2>1 DEF Follows
    <2> QED
      BY <1>3, <2>2 DEF StepInv
  <1> QED
    BY <1>4, <1>5, <1>6 DEF RegulationInv

\* The budget: an ordinary command leaves through an open gate, and a write
\* that was carried out has closed it.
LEMMA ActsKeepBudget ==
    ASSUME RegulationInv, WriteInv, ~Losses, StepActs
    PROVE  WriteInv'
  <1>1. PICK x, y : x \in Local /\ Follows(x, y) /\ Becomes(y) /\ GoesOnFrom(x)
    BY ActsFollow
  <1>2. miner.writes \in 0..2 /\ ctl \in Attributes
    BY DEF RegulationInv, TypeOK
  <1>3. /\ UNCHANGED <<bounds, miner, data>> /\ step' = y.step /\ ctl' = y.ctl
        /\ y.ctl.used = x.ctl.used /\ ~y.step.landed
        /\ y.step.at # "idle" /\ ~y.step.safety =>
             data.fresh /\ data.tuned /\ ~x.ctl.used
    BY <1>1 DEF Becomes, Follows, Alters, GateOpen
  <1>4. miner.writes = 1 =>
          /\ SeenEpoch
          /\ miner.phase = "tuned" \/ (data.fresh /\ data.tuned) => x.ctl.used
    <2>1. CASE Unaltered(ctl, x.ctl) /\ ~step.landed
      BY <2>1 DEF Unaltered, WriteInv, Ordinary
    <2>2. CASE /\ step.at \in {"limit", "fallback"} /\ step.landed
               /\ x.ctl = LimitSent(ctl, step)
      <3>1. x.ctl.used = (ctl.used \/ ~step.safety)
        BY <1>2, <2>2 DEF LimitSent, Attributes
      <3>2. CASE step.safety
        BY <3>1, <3>2 DEF WriteInv, Ordinary
      <3>3. CASE ~step.safety
        BY <2>2, <3>1, <3>3 DEF WriteInv, Ordinary
      <3> QED
        BY <3>2, <3>3
    <2>3. CASE step.at = "v3" /\ step.landed /\ x.ctl = V3Sent(ctl, step.power)
      <3>1. x.ctl.used /\ ~step.safety
        BY <1>2, <2>3 DEF V3Sent, Attributes, RegulationInv, StepInv
      <3> QED
        BY <2>3, <3>1 DEF WriteInv, Ordinary
    <2> QED
      BY <1>1, <2>1, <2>2, <2>3 DEF GoesOnFrom
  <1>5. miner.writes = 0 \/ miner.writes = 1
    BY <1>2 DEF WriteInv
  <1>6. Ordinary' => miner.writes = 0 /\ SeenEpoch
    <2> SUFFICES ASSUME Ordinary' PROVE miner.writes = 0 /\ SeenEpoch
      OBVIOUS
    <2>1. data.fresh /\ data.tuned /\ ~x.ctl.used
      BY <1>3 DEF Ordinary
    <2>2. SeenEpoch
      BY <2>1 DEF WriteInv, SeenEpoch
    <2> QED
      BY <1>4, <1>5, <2>1, <2>2
  <1>7. SeenEpoch' <=> SeenEpoch
    BY <1>3 DEF SeenEpoch
  <1>8. miner'.writes <= 1 /\ (miner'.phase = "tuned" /\ data'.fresh /\ data'.tuned => ~miner'.rebooted)
    BY <1>3 DEF WriteInv
  <1>9. miner'.writes = 1 => /\ SeenEpoch'
                             /\ miner'.phase = "tuned" \/ (data'.fresh /\ data'.tuned) => ctl'.used
    BY <1>3, <1>4, <1>7
  <1> QED
    BY <1>3, <1>6, <1>7, <1>8, <1>9 DEF WriteInv

\* The belief: a reply that came says what the miner runs at.
LEMMA ActsKeepBelief ==
    ASSUME RegulationInv, BeliefInv, ~Losses, StepActs
    PROVE  BeliefInv'
  <1>1. PICK x, y : x \in Local /\ Follows(x, y) /\ Becomes(y) /\ GoesOnFrom(x)
    BY ActsFollow
  <1>2. /\ ctl \in Attributes /\ miner.limit \in Powers /\ miner.power \in Power
        /\ step.at # "idle" => step.power \in Powers
        /\ data.limit \in Power /\ bounds \in Bounds
    BY DEF RegulationInv, TypeOK, StepInv
  <1>3. None \notin Powers /\ \A p \in Power : p \in Int
    BY PowerFacts
  <1>4. Runs <= miner.limit
    BY <1>2, <1>3 DEF Runs, Known, BeliefInv, Power
  <1>5. /\ LimitInForce(x.ctl) \in {None, miner.limit}
        /\ ~miner.rebooted /\ x.ctl.force # None => Runs <= x.ctl.force
    <2>1. CASE Unaltered(ctl, x.ctl) /\ ~step.landed
      BY <2>1 DEF Unaltered, BeliefInv, LimitInForce
    <2>2. CASE /\ step.at \in {"limit", "fallback"} /\ step.landed
               /\ x.ctl = LimitSent(ctl, step)
      <3>1. x.ctl.limit = step.power /\ x.ctl.force = step.power /\ step.power \in Powers
        BY <1>2, <2>2 DEF LimitSent, Attributes
      <3>2. miner.limit = step.power /\ miner.power = None
        BY <2>2 DEF BeliefInv
      <3> QED
        BY <1>3, <1>4, <3>1, <3>2 DEF LimitInForce, Known, Runs
    <2>3. CASE step.at = "v3" /\ step.landed /\ x.ctl = V3Sent(ctl, step.power)
      <3>1. x.ctl.limit = ctl.limit /\ x.ctl.force = step.power /\ step.power \in Powers
        BY <1>2, <2>3 DEF V3Sent, Attributes
      <3>2. miner.power = step.power /\ LimitInForce(ctl) \in {None, miner.limit}
        BY <2>3 DEF BeliefInv
      <3>3. Runs = step.power
        BY <1>3, <3>1, <3>2 DEF Runs, Known
      <3> QED
        BY <1>3, <3>1, <3>2, <3>3 DEF LimitInForce, Power
    <2> QED
      BY <1>1, <2>1, <2>2, <2>3 DEF GoesOnFrom
  <1>6. /\ UNCHANGED <<bounds, miner, data>> /\ step' = y.step /\ ctl' = y.ctl
        /\ Alters(x.ctl, y.ctl) /\ ~y.step.landed
        /\ y.step.at = "v3" => /\ y.step.power \in bounds.floor..bounds.ceiling
                               /\ y.step.power <= LimitInForce(x.ctl)
    BY <1>1 DEF Becomes, Follows
  <1>7. LimitInForce(ctl') \in {None, miner.limit} /\ LimitInForce(ctl)' = LimitInForce(ctl')
    BY <1>5, <1>6 DEF Alters, LimitInForce
  <1>8. y.step.at = "v3" => y.step.power <= miner.limit
    <2> SUFFICES ASSUME y.step.at = "v3" PROVE y.step.power <= miner.limit
      OBVIOUS
    <2>1. y.step.power \in Powers /\ y.step.power \in Nat
      BY <1>2, <1>6, PowerFacts
    <2>2. LimitInForce(x.ctl) # None
      BY <1>6, <2>1 DEF None
    <2> QED
      BY <1>5, <1>6, <2>2
  <1>9. ~miner.rebooted /\ y.ctl.force # None => Runs <= y.ctl.force
    BY <1>4, <1>5, <1>6 DEF Alters
  <1>10. Runs' = Runs
    BY <1>6 DEF Runs
  <1> QED
    BY <1>6, <1>7, <1>8, <1>9, <1>10 DEF BeliefInv

(***************************************************************************)
(* Polls                                                                   *)
(***************************************************************************)

Polls == [fresh : BOOLEAN, tuned : BOOLEAN, mining : BOOLEAN, limit : Power]

\* From c to d, with r the limit a poll reports, if any: a limit is believed only
\* if it is reported, a power only if it is a limit.
Notes(c, d, r) ==
    /\ d \in Attributes
    /\ d.limit = c.limit \/ (r # None /\ d.limit = r)
    /\ d.force \in {c.force, LimitInForce(ctl), r}

\* A restart ends what was established.
LEMMA RestartNotes ==
    ASSUME NEW c \in Attributes, NEW d \in Polls, Notes(ctl, c, d.limit)
    PROVE  /\ Notes(ctl, NotesRestart(c, d), d.limit)
           /\ NotesRestart(c, d).limit = c.limit
           /\ NotesRestart(c, d).tuned_seen = c.tuned_seen
           /\ NotesRestart(c, d).mining = c.mining
           /\ NotesRestart(c, d).force \in {LimitInForce(ctl), d.limit}
  <1> DEFINE e == NotesRestart(c, d)
  <1>1. Known(c.limit, d.limit) \in Power
    BY DEF Known, Polls, Attributes
  <1>2. e \in Attributes
    BY <1>1 DEF NotesRestart, Attributes
  <1>3. /\ e.limit = c.limit /\ e.force = Known(c.limit, d.limit)
        /\ e.tuned_seen = c.tuned_seen /\ e.mining = c.mining
    BY DEF NotesRestart, Attributes
  <1>4. Known(c.limit, d.limit) \in {LimitInForce(ctl), d.limit}
    BY DEF Notes, LimitInForce, Known
  <1> QED
    BY <1>2, <1>3, <1>4 DEF Notes

\* A limit is adopted from the poll that reports it (_note_reported_limit).
LEMMA LimitNotes ==
    ASSUME NEW c \in Attributes, Notes(ctl, c, data.limit'), NEW settled \in BOOLEAN,
           NEW d \in Polls, d.limit = data.limit'
    PROVE  /\ Notes(ctl, NotesLimit(c, d, settled), d.limit)
           /\ NotesLimit(c, d, settled).tuned_seen = c.tuned_seen
           /\ NotesLimit(c, d, settled).mining = c.mining
           /\ NotesLimit(c, d, settled).used = c.used
           /\ NotesLimit(c, d, settled).force = c.force
  <1> DEFINE e == NotesLimit(c, d, settled)
  <1>1. 0 \in 0..(Persist - 1) /\ c.mismatch \in 0..(Persist - 1) /\ Persist \in Nat
    BY RegulationAssumption DEF Attributes
  <1>2. CASE e = [c EXCEPT !.limit = d.limit, !.mismatch = 0] /\ d.limit # None
    <2>1. d.limit \in Power
      BY DEF Polls
    <2>2. e \in Attributes
      BY <1>1, <1>2, <2>1 DEF Attributes
    <2> QED
      BY <1>2, <2>2 DEF Notes, Attributes
  <1>3. CASE e = [c EXCEPT !.mismatch = @ + 1] /\ ~(c.mismatch + 1 >= Persist)
    <2>1. c.mismatch + 1 \in 0..(Persist - 1)
      BY <1>1, <1>3
    <2>2. e \in Attributes
      BY <1>3, <2>1 DEF Attributes
    <2> QED
      BY <1>3, <2>2 DEF Notes, Attributes
  <1>4. CASE e = [c EXCEPT !.mismatch = 0]
    <2>1. e \in Attributes
      BY <1>1, <1>4 DEF Attributes
    <2> QED
      BY <1>4, <2>1 DEF Notes, Attributes
  <1> QED
    BY <1>2, <1>3, <1>4 DEF NotesLimit

\* An epoch opens when a poll first shows the miner tuned (_note_tuned_epoch).
LEMMA EpochNotes ==
    ASSUME NEW c \in Attributes, NEW d \in Polls, NEW r, Notes(ctl, c, r)
    PROVE  /\ Notes(ctl, NotesEpoch(c, d), r)
           /\ NotesEpoch(c, d).tuned_seen = d.tuned
           /\ NotesEpoch(c, d).mining = c.mining
           /\ c.tuned_seen => NotesEpoch(c, d).used = c.used
           /\ ~d.tuned => NotesEpoch(c, d).used = c.used
           /\ NotesEpoch(c, d).force = c.force
  <1>1. NotesEpoch(c, d) = [c EXCEPT !.tuned_seen = d.tuned,
                                     !.used = c.used /\ ~(d.tuned /\ ~c.tuned_seen)]
    BY DEF NotesEpoch
  <1>2. d.tuned \in BOOLEAN /\ (c.used /\ ~(d.tuned /\ ~c.tuned_seen)) \in BOOLEAN
        /\ c.used \in BOOLEAN
    BY DEF Polls, Attributes
  <1>3. NotesEpoch(c, d) \in Attributes
    BY <1>1, <1>2 DEF Attributes
  <1> QED
    BY <1>1, <1>2, <1>3 DEF Notes, Attributes

\* Whether it mines is an edge against the last poll (_note_mining_edge).
LEMMA EdgeNotes ==
    ASSUME NEW c \in Attributes, NEW d \in Polls, Notes(ctl, c, d.limit)
    PROVE  /\ Notes(ctl, Edges(c, d), d.limit)
           /\ Edges(c, d).tuned_seen = c.tuned_seen
           /\ ~(d.mining /\ c.mining # "yes") =>
                Edges(c, d).used = c.used /\ Edges(c, d).force = c.force
           /\ Edges(c, d).force \in {c.force, LimitInForce(ctl), d.limit}
  <1>1. CASE d.mining /\ c.mining # "yes"
    <2>1. /\ Seeds(c) \in Attributes /\ Seeds(c).limit = c.limit /\ Seeds(c).force = c.force
          /\ Seeds(c).tuned_seen = c.tuned_seen
      BY DEF Seeds, Attributes
    <2>2. Notes(ctl, Seeds(c), d.limit)
      BY <2>1 DEF Notes
    <2> QED
      BY <1>1, <2>1, <2>2, RestartNotes DEF Edges
  <1>2. CASE ~(d.mining /\ c.mining # "yes")
    <2>1. Edges(c, d) = c \/ Edges(c, d) = [c EXCEPT !.commanded = None]
      BY <1>2 DEF Edges
    <2>2. Edges(c, d) \in Attributes /\ Edges(c, d).limit = c.limit
          /\ Edges(c, d).force = c.force /\ Edges(c, d).used = c.used
          /\ Edges(c, d).tuned_seen = c.tuned_seen
      BY <2>1 DEF Attributes, Power
    <2> QED
      BY <1>2, <2>2 DEF Notes
  <1> QED
    BY <1>1, <1>2

\* What a poll leaves in the attributes.
LEMMA PollNotes ==
    ASSUME TypeOK, NEW d \in Polls, d.limit = data.limit', NEW rebooted \in BOOLEAN,
           NEW settled \in BOOLEAN
    PROVE  LET h == Handled(d, rebooted, settled) IN
           /\ Notes(ctl, h, d.limit)
           /\ h.tuned_seen = d.tuned /\ h.mining = (IF d.mining THEN "yes" ELSE "no")
           /\ ~rebooted /\ ctl.tuned_seen /\ ctl.mining = "yes" => h.used = ctl.used
           /\ rebooted => h.force \in {LimitInForce(ctl), d.limit}
  <1> DEFINE a == IF rebooted THEN NotesRestart(ctl, d) ELSE ctl
             b == NotesLimit(a, d, settled)
             c == NotesEpoch(b, d)
             e == Edges(c, d)
             h == [e EXCEPT !.mining = IF d.mining THEN "yes" ELSE "no"]
  <1>1. ctl \in Attributes /\ Notes(ctl, ctl, d.limit)
    BY DEF TypeOK, Notes
  <1>2. /\ a \in Attributes /\ Notes(ctl, a, d.limit)
        /\ a.tuned_seen = ctl.tuned_seen /\ a.mining = ctl.mining
        /\ ~rebooted => a.used = ctl.used
        /\ rebooted => a.force \in {LimitInForce(ctl), d.limit}
    BY <1>1, RestartNotes DEF Notes
  <1> HIDE DEF a
  <1>3. /\ b \in Attributes /\ Notes(ctl, b, d.limit)
        /\ b.tuned_seen = a.tuned_seen /\ b.mining = a.mining
        /\ b.used = a.used /\ b.force = a.force
    BY <1>2, LimitNotes DEF Notes
  <1> HIDE DEF b
  <1>4. /\ c \in Attributes /\ Notes(ctl, c, d.limit)
        /\ c.tuned_seen = d.tuned /\ c.mining = b.mining
        /\ b.tuned_seen => c.used = b.used
        /\ c.force = b.force
    BY <1>3, EpochNotes DEF Notes
  <1> HIDE DEF c
  <1>5. /\ e \in Attributes /\ Notes(ctl, e, d.limit) /\ e.tuned_seen = d.tuned
        /\ c.mining = "yes" => e.used = c.used
        /\ e.force \in {c.force, LimitInForce(ctl), d.limit}
    BY <1>4, EdgeNotes DEF Notes
  <1> HIDE DEF e
  <1>6. /\ h \in Attributes /\ h.limit = e.limit /\ h.force = e.force /\ h.used = e.used
        /\ h.tuned_seen = e.tuned_seen /\ h.mining = (IF d.mining THEN "yes" ELSE "no")
    BY <1>5 DEF Attributes
  <1>7. Handled(d, rebooted, settled) = h
    BY DEF Handled, a, b, c, e
  <1> HIDE DEF h
  <1>8. Notes(ctl, h, d.limit)
    BY <1>5, <1>6 DEF Notes
  <1> QED
    BY <1>2, <1>3, <1>4, <1>5, <1>6, <1>7, <1>8

\* What a poll of the miner shows.
LEMMA ShownType ==
    ASSUME TypeOK
    PROVE  /\ Shown \in Polls /\ Shown.fresh
           /\ Shown.tuned <=> miner.phase = "tuned"
           /\ Shown.tuned => Shown.mining /\ Shown.limit # None
           /\ Shown.limit \in {None, miner.limit}
  <1>1. miner.limit \in Powers /\ None \notin Powers
    BY PowerFacts DEF TypeOK
  <1> QED
    BY <1>1 DEF Shown, Polls, Power

\* A poll that succeeds: the invariant.
LEMMA PollKeeps ==
    ASSUME RegulationInv, PollSucceeds
    PROVE  /\ RegulationInv'
           /\ WriteInv => WriteInv'
           /\ BeliefInv => BeliefInv'
  <1>1. PICK settled \in BOOLEAN : ctl' = Handled(Shown, miner.rebooted, settled)
    BY DEF PollSucceeds
  <1>2. /\ TypeOK /\ PolledInv /\ StepInv /\ miner.rebooted \in BOOLEAN
        /\ step \in StepType /\ ctl \in Attributes
        /\ miner.writes \in 0..2 /\ miner.limit \in Powers /\ miner.power \in Power
        /\ None \notin Powers
    BY PowerFacts DEF RegulationInv, TypeOK, StepType
  <1>3. /\ data' = Shown /\ miner' = [miner EXCEPT !.rebooted = FALSE]
        /\ step' = [step EXCEPT !.due = @ \/ (step.at = "idle" /\ Shown.mining)]
        /\ UNCHANGED <<bounds, events>>
    BY DEF PollSucceeds
  <1>4. /\ Notes(ctl, ctl', Shown.limit)
        /\ ctl'.tuned_seen = Shown.tuned
        /\ ctl'.mining = (IF Shown.mining THEN "yes" ELSE "no")
        /\ ~miner.rebooted /\ ctl.tuned_seen /\ ctl.mining = "yes" => ctl'.used = ctl.used
        /\ miner.rebooted => ctl'.force \in {LimitInForce(ctl), Shown.limit}
    BY <1>1, <1>2, <1>3, ShownType, PollNotes
  <1>5. /\ miner'.phase = miner.phase /\ miner'.writes = miner.writes /\ ~miner'.rebooted
        /\ miner'.limit = miner.limit /\ miner'.power = miner.power
        /\ miner' \in [phase : Phases, limit : Powers, power : Power, rebooted : BOOLEAN,
                       writes : 0..2]
    BY <1>2, <1>3 DEF TypeOK
  <1>6. /\ step'.at = step.at /\ step'.power = step.power /\ step'.landed = step.landed
        /\ step'.safety = step.safety /\ step'.under = step.under /\ step' \in StepType
        /\ step'.due => step'.at = "idle"
    <2>1. (step.due \/ (step.at = "idle" /\ Shown.mining)) \in BOOLEAN
      OBVIOUS
    <2>2. step' = [step EXCEPT !.due = step.due \/ (step.at = "idle" /\ Shown.mining)]
      BY <1>3
    <2> QED
      BY <1>2, <2>1, <2>2 DEF StepType, StepInv
  <1>7. RegulationInv'
    <2>1. TypeOK'
      BY <1>2, <1>3, <1>4, <1>5, <1>6, ShownType DEF TypeOK, StepType, Notes, Polls
    <2>2. PolledInv'
      BY <1>2, <1>3, <1>4, ShownType DEF PolledInv
    <2>3. StepInv'
      BY <1>2, <1>6 DEF StepInv
    <2> QED
      BY <2>1, <2>2, <2>3 DEF RegulationInv
  <1>8. ASSUME WriteInv PROVE WriteInv'
    <2>1. SeenEpoch'
      BY <1>2, <1>3, <1>5, ShownType DEF SeenEpoch
    <2>2. Ordinary' <=> Ordinary
      BY <1>6 DEF Ordinary
    <2>3. miner.writes = 1 /\ ~(Ordinary /\ step.landed) /\ miner.phase = "tuned" => ctl'.used
      <3> SUFFICES ASSUME miner.writes = 1, ~(Ordinary /\ step.landed), miner.phase = "tuned"
                   PROVE  ctl'.used
        OBVIOUS
      <3>1. data.tuned /\ ~miner.rebooted /\ ctl.used
        BY <1>8 DEF WriteInv, SeenEpoch
      <3>2. ctl.tuned_seen /\ ctl.mining = "yes"
        BY <1>2, <3>1 DEF PolledInv
      <3> QED
        BY <1>4, <3>1, <3>2
    <2>4. data'.tuned => miner.phase = "tuned"
      BY <1>2, <1>3, ShownType
    <2> QED
      BY <1>5, <1>6, <1>8, <2>1, <2>2, <2>3, <2>4 DEF WriteInv
  <1>9. ASSUME BeliefInv PROVE BeliefInv'
    <2>1. ~(step.at \in {"limit", "fallback"} /\ step.landed) =>
            LimitInForce(ctl)' \in {None, miner.limit}
      <3> SUFFICES ASSUME ~(step.at \in {"limit", "fallback"} /\ step.landed)
                   PROVE  LimitInForce(ctl)' \in {None, miner.limit}
        OBVIOUS
      <3>1. LimitInForce(ctl) \in {None, miner.limit}
        BY <1>9 DEF BeliefInv
      <3>2. ctl'.limit = ctl.limit \/ (Shown.limit # None /\ ctl'.limit = Shown.limit)
        BY <1>4 DEF Notes
      <3>3. Shown.limit \in {None, miner.limit}
        BY <1>2, ShownType
      <3>4. LimitInForce(ctl)' = Known(ctl'.limit, Shown.limit)
        BY <1>3 DEF LimitInForce, Known
      <3>5. LimitInForce(ctl) = Known(ctl.limit, data.limit)
        BY DEF LimitInForce
      <3> QED
        BY <3>1, <3>2, <3>3, <3>4, <3>5 DEF Known
    <2>2. ~step.landed /\ ctl'.force # None => Runs <= ctl'.force
      <3> SUFFICES ASSUME ~step.landed, ctl'.force # None PROVE Runs <= ctl'.force
        OBVIOUS
      <3>1. LimitInForce(ctl) \in {None, miner.limit}
        BY <1>9 DEF BeliefInv
      <3>2. Runs <= miner.limit
        <4>1. \A p \in Powers : p <= p
          BY PowerFacts
        <4> QED
          BY <1>2, <1>9, <4>1 DEF BeliefInv, Runs, Known
      <3>3. \/ ctl'.force = ctl.force /\ ~miner.rebooted
            \/ ctl'.force = LimitInForce(ctl)
            \/ ctl'.force = Shown.limit
        BY <1>4 DEF Notes
      <3>4. CASE ctl'.force = ctl.force /\ ~miner.rebooted
        BY <1>9, <3>4 DEF BeliefInv
      <3>5. CASE ctl'.force = LimitInForce(ctl)
        BY <3>1, <3>2, <3>5
      <3>6. CASE ctl'.force = Shown.limit
        <4>1. Shown.limit = miner.limit
          BY <1>2, <3>6, ShownType
        <4> QED
          BY <3>2, <3>6, <4>1
      <3> QED
        BY <3>3, <3>4, <3>5, <3>6
    <2>3. Runs' = Runs
      BY <1>5 DEF Runs
    <2> QED
      BY <1>5, <1>6, <1>9, <2>1, <2>2, <2>3 DEF BeliefInv
  <1> QED
    BY <1>7, <1>8, <1>9

(***************************************************************************)
(* The miner, a failed poll, evidence, a reload and time                   *)
(***************************************************************************)

Others ==
    \/ PollFails \/ BoundsMove \/ Reloads
    \/ LimitLands \/ V3Lands \/ RestartsItself \/ Boots \/ Tunes \/ Retunes \/ Tick
    \/ UNCHANGED vars

\* A write that reaches the miner is counted unless it is a safety clamp.
LEMMA CountedType ==
    ASSUME TypeOK
    PROVE  /\ Counted(miner) \in [phase : Phases, limit : Powers, power : Power,
                                  rebooted : BOOLEAN, writes : 0..2]
           /\ Counted(miner).limit = miner.limit /\ Counted(miner).phase = miner.phase
           /\ Counted(miner).rebooted = miner.rebooted /\ Counted(miner).power = miner.power
           /\ step.safety => Counted(miner).writes = miner.writes
           /\ ~step.safety /\ miner.writes = 0 => Counted(miner).writes = 1
  <1> DEFINE w == Smaller(miner.writes + (IF step.safety THEN 0 ELSE 1), 2)
  <1>1. miner.writes \in 0..2 /\ step.safety \in BOOLEAN
    BY DEF TypeOK
  <1>2. /\ w \in 0..2 /\ (step.safety => w = miner.writes)
        /\ (~step.safety /\ miner.writes = 0 => w = 1)
    BY <1>1 DEF Smaller
  <1>3. Counted(miner) = [miner EXCEPT !.writes = w]
    BY DEF Counted
  <1> HIDE DEF w
  <1> QED
    BY <1>2, <1>3 DEF TypeOK

\* The types, and what a poll shows.
LEMMA OthersKeepTypes ==
    ASSUME RegulationInv, Others
    PROVE  RegulationInv'
  <1>1. /\ TypeOK /\ PolledInv /\ StepInv /\ ctl \in Attributes /\ step \in StepType
        /\ events \in 0..MaxEvents /\ MaxEvents \in Nat
    BY RegulationAssumption DEF RegulationInv, TypeOK, StepType
  <1>2. Event => events' \in 0..MaxEvents
    BY <1>1 DEF Event
  <1>3. CASE PollFails
    BY <1>1, <1>3 DEF PollFails, RegulationInv, TypeOK, PolledInv, StepInv
  <1>4. CASE BoundsMove
    BY <1>1, <1>2, <1>4 DEF BoundsMove, RegulationInv, TypeOK, PolledInv, StepInv
  <1>5. CASE Reloads
    <2>1. None \in Power /\ Fresh(FALSE) \in StepType
      BY PowerFacts DEF Power, Fresh, StepType
    <2>2. Started(ctl.pinned) \in Attributes
      <3>1. /\ 0 \in 0..Grace /\ 0 \in 0..Retry /\ 0 \in 0..BootHold
            /\ 0 \in 0..(Fails - 1) /\ 0 \in 0..(Persist - 1)
        BY RegulationAssumption
      <3>2. ctl.pinned \in BOOLEAN
        BY <1>1 DEF Attributes
      <3> QED
        BY <2>1, <3>1, <3>2 DEF Started, Attributes
    <2>3. ctl'= [Started(ctl.pinned) EXCEPT !.limit = ctl.limit, !.target = ctl.target]
      BY <1>5 DEF Reloads
    <2>4. ctl' \in Attributes /\ ctl'.tuned_seen = FALSE
      <3>1. ctl.limit \in Power /\ ctl.target \in Power
        BY <1>1 DEF Attributes
      <3>2. ctl' \in Attributes
        BY <2>2, <2>3, <3>1 DEF Attributes
      <3> QED
        BY <2>3, <3>2 DEF Started
    <2>5. miner' \in [phase : Phases, limit : Powers, power : Power, rebooted : BOOLEAN,
                      writes : 0..2]
      BY <1>1, <1>5 DEF Reloads, TypeOK
    <2>6. /\ step' = Fresh(FALSE) /\ bounds' = bounds
          /\ data' = [fresh |-> FALSE, tuned |-> FALSE, mining |-> FALSE, limit |-> None]
          /\ events' \in 0..MaxEvents
      BY <1>2, <1>5 DEF Reloads
    <2>7. TypeOK'
      BY <1>1, <2>1, <2>4, <2>5, <2>6 DEF TypeOK, StepType
    <2>8. PolledInv' /\ StepInv'
      <3>1. PolledInv'
        BY <2>4, <2>6 DEF PolledInv
      <3>2. step'.at = "idle" /\ ~step'.landed
        BY <2>6 DEF Fresh
      <3> QED
        BY <3>1, <3>2 DEF StepInv
    <2> QED
      BY <2>7, <2>8 DEF RegulationInv
  <1>6. CASE LimitLands \/ V3Lands
    <2>1. step.power \in Powers /\ step.power \in Power
      <3>1. step.at # "idle"
        BY <1>6 DEF LimitLands, V3Lands
      <3> QED
        BY <1>1, <3>1 DEF StepInv, Power
    <2>2. step' = [step EXCEPT !.landed = TRUE] /\ UNCHANGED <<ctl, bounds, data, events>>
      BY <1>6 DEF LimitLands, V3Lands
    <2>3. miner' \in [phase : Phases, limit : Powers, power : Power, rebooted : BOOLEAN,
                      writes : 0..2]
      <3>1. CASE LimitLands
        <4>1. miner' = [Restarted(Counted(miner)) EXCEPT !.limit = step.power]
          BY <3>1 DEF LimitLands
        <4> QED
          BY <1>1, <2>1, <4>1, CountedType DEF Restarted, Phases, Power
      <3>2. CASE V3Lands
        BY <1>1, <2>1, <3>2, CountedType DEF V3Lands
      <3> QED
        BY <1>6, <3>1, <3>2
    <2>4. step.at # "idle"
      BY <1>6 DEF LimitLands, V3Lands
    <2>5. /\ step' \in StepType /\ step'.at = step.at /\ step'.power = step.power
          /\ step'.safety = step.safety /\ step'.due = step.due
      BY <1>1, <2>2 DEF StepType
    <2> QED
      BY <1>1, <2>2, <2>3, <2>4, <2>5 DEF RegulationInv, TypeOK, PolledInv, StepInv, StepType
  <1>7. CASE RestartsItself \/ Boots \/ Tunes \/ Retunes
    <2>1. /\ UNCHANGED <<ctl, bounds, step, data>> /\ events' \in 0..MaxEvents
      BY <1>1, <1>2, <1>7 DEF RestartsItself, Boots, Tunes, Retunes
    <2>2. miner' \in [phase : Phases, limit : Powers, power : Power, rebooted : BOOLEAN,
                      writes : 0..2]
      <3>1. miner \in [phase : Phases, limit : Powers, power : Power, rebooted : BOOLEAN,
                       writes : 0..2]
        BY <1>1 DEF TypeOK
      <3>2. None \in Power /\ "down" \in Phases /\ "tuning" \in Phases /\ "tuned" \in Phases
            /\ 0 \in 0..2
        BY DEF Power, Phases
      <3>3. \/ miner' = [miner EXCEPT !.phase = "down", !.power = None, !.rebooted = TRUE]
            \/ miner' = [miner EXCEPT !.phase = "tuning"]
            \/ miner' = [miner EXCEPT !.phase = "tuned", !.writes = 0]
        BY <1>7 DEF RestartsItself, Boots, Tunes, Retunes, Restarted
      <3> QED
        BY <3>1, <3>2, <3>3
    <2> QED
      BY <1>1, <2>1, <2>2 DEF RegulationInv, TypeOK, PolledInv, StepInv
  <1>8. CASE Tick
    <2>1. /\ Grace \in Nat /\ Retry \in Nat /\ BootHold \in Nat
      BY RegulationAssumption
    <2>2. /\ Larger(ctl.grace - 1, 0) \in 0..Grace /\ Larger(ctl.retry - 1, 0) \in 0..Retry
          /\ Larger(ctl.recent - 1, 0) \in 0..BootHold
      <3>1. ctl.grace \in 0..Grace /\ ctl.retry \in 0..Retry /\ ctl.recent \in 0..BootHold
        BY <1>1 DEF Attributes
      <3> QED
        BY <2>1, <3>1 DEF Larger
    <2>3. ctl' = [ctl EXCEPT !.grace = Larger(ctl.grace - 1, 0),
                             !.retry = Larger(ctl.retry - 1, 0),
                             !.recent = Larger(ctl.recent - 1, 0)]
          /\ UNCHANGED <<bounds, step, miner, data, events>>
      BY <1>8 DEF Tick
    <2>4. ctl' \in Attributes
      BY <1>1, <2>2, <2>3 DEF Attributes
    <2>5. ctl'.tuned_seen = ctl.tuned_seen /\ ctl'.mining = ctl.mining
      BY <1>1, <2>3 DEF Attributes
    <2> QED
      BY <1>1, <2>3, <2>4, <2>5 DEF RegulationInv, TypeOK, PolledInv, StepInv
  <1>9. CASE UNCHANGED vars
    BY <1>1, <1>9 DEF vars, RegulationInv, TypeOK, PolledInv, StepInv
  <1> QED
    BY <1>3, <1>4, <1>5, <1>6, <1>7, <1>8, <1>9 DEF Others

\* The budget is used by what lands, and given back by tuning and by a reload.
LEMMA OthersKeepBudget ==
    ASSUME RegulationInv, WriteInv, Others
    PROVE  WriteInv'
  <1>1. /\ TypeOK /\ PolledInv /\ StepInv /\ step \in StepType
        /\ miner \in [phase : Phases, limit : Powers, power : Power, rebooted : BOOLEAN,
                      writes : 0..2]
        /\ data \in Polls
    BY DEF RegulationInv, TypeOK, StepType, Polls
  <1>2. CASE PollFails
    <2>1. data' = [data EXCEPT !.fresh = FALSE] /\ UNCHANGED <<ctl, step, miner>>
      BY <1>2 DEF PollFails
    <2>2. ~data'.fresh /\ data'.tuned = data.tuned
      BY <1>1, <2>1 DEF Polls
    <2> QED
      BY <2>1, <2>2 DEF WriteInv, Ordinary, SeenEpoch
  <1>3. CASE BoundsMove \/ UNCHANGED vars
    BY <1>3 DEF BoundsMove, vars, WriteInv, Ordinary, SeenEpoch
  <1>4. CASE Reloads
    <2>1. miner' = [miner EXCEPT !.writes = 0] /\ step' = Fresh(FALSE) /\ ~data'.fresh
      BY <1>4 DEF Reloads
    <2>2. miner'.writes = 0 /\ step'.at = "idle"
      BY <1>1, <2>1 DEF Fresh
    <2>3. miner'.writes <= 1 /\ miner'.writes # 1
      BY <2>2
    <2>4. ~Ordinary'
      BY <2>2 DEF Ordinary
    <2>5. ~data'.fresh
      BY <2>1
    <2> QED
      BY <2>3, <2>4, <2>5 DEF WriteInv
  <1>5. CASE LimitLands
    <2>1. /\ step.at # "idle" /\ ~step.landed /\ UNCHANGED <<ctl, data>>
          /\ miner' = [Restarted(Counted(miner)) EXCEPT !.limit = step.power]
          /\ step' = [step EXCEPT !.landed = TRUE]
      BY <1>5 DEF LimitLands
    <2>2. miner'.phase = "down" /\ miner'.writes = Counted(miner).writes
      BY <1>1, <2>1, CountedType DEF Restarted
    <2>3. step'.landed /\ (Ordinary' <=> Ordinary)
      BY <1>1, <2>1 DEF StepType, Ordinary
    <2>4. /\ Ordinary => Counted(miner).writes = 1
          /\ ~Ordinary => Counted(miner).writes = miner.writes
      BY <1>1, <2>1, CountedType DEF WriteInv, Ordinary
    <2>5. SeenEpoch'
      BY <2>2 DEF SeenEpoch
    <2>6. ~Ordinary /\ miner.writes = 1 /\ data.fresh /\ data.tuned => ctl.used
      BY DEF WriteInv
    <2> QED
      BY <1>1, <2>1, <2>2, <2>3, <2>4, <2>5, <2>6 DEF WriteInv
  <1>6. CASE V3Lands
    <2>1. /\ step.at = "v3" /\ ~step.landed /\ UNCHANGED <<ctl, data>>
          /\ miner' = [Counted(miner) EXCEPT !.power = step.power]
          /\ step' = [step EXCEPT !.landed = TRUE]
      BY <1>6 DEF V3Lands
    <2>2. /\ miner'.phase = miner.phase /\ miner'.writes = Counted(miner).writes
          /\ miner'.rebooted = miner.rebooted
      BY <1>1, <2>1, CountedType
    <2>3. step'.landed /\ Ordinary /\ Ordinary'
      BY <1>1, <2>1 DEF StepType, StepInv, Ordinary
    <2>4. Counted(miner).writes = 1
      BY <1>1, <2>1, <2>3, CountedType DEF WriteInv, Ordinary
    <2>5. SeenEpoch' <=> SeenEpoch
      BY <2>1, <2>2 DEF SeenEpoch
    <2> QED
      BY <2>1, <2>2, <2>3, <2>4, <2>5 DEF WriteInv
  <1>7. CASE RestartsItself
    <2>1. ~step.landed /\ miner' = Restarted(miner) /\ UNCHANGED <<ctl, step, data>>
      BY <1>7 DEF RestartsItself
    <2>2. miner'.phase = "down" /\ miner'.writes = miner.writes
      BY <1>1, <2>1 DEF Restarted
    <2> QED
      BY <2>1, <2>2 DEF WriteInv, Ordinary, SeenEpoch
  <1>8. CASE Boots \/ Retunes
    <2>1. UNCHANGED <<ctl, step, data>> /\ miner' = [miner EXCEPT !.phase = "tuning"]
      BY <1>8 DEF Boots, Retunes
    <2>2. miner'.phase = "tuning" /\ miner'.writes = miner.writes
      BY <1>1, <2>1
    <2> QED
      BY <2>1, <2>2 DEF WriteInv, Ordinary, SeenEpoch
  <1>9. CASE Tunes
    <2>1. /\ step.at = "idle" /\ (data.fresh => ~data.tuned) /\ UNCHANGED <<ctl, step, data>>
          /\ miner' = [miner EXCEPT !.phase = "tuned", !.writes = 0]
      BY <1>9 DEF Tunes
    <2>2. miner'.writes = 0
      BY <1>1, <2>1
    <2> QED
      BY <2>1, <2>2 DEF WriteInv, Ordinary
  <1>10. CASE Tick
    <2>1. UNCHANGED <<step, miner, data>> /\ ctl'.used = ctl.used
      BY <1>1, <1>10 DEF Tick, TypeOK, Attributes
    <2> QED
      BY <2>1 DEF WriteInv, Ordinary, SeenEpoch
  <1> QED
    BY <1>2, <1>3, <1>4, <1>5, <1>6, <1>7, <1>8, <1>9, <1>10 DEF Others

\* The miner gets the limit it is sent, or a power under it.
LEMMA OthersKeepBelief ==
    ASSUME RegulationInv, BeliefInv, Others
    PROVE  BeliefInv'
  <1>1. /\ TypeOK /\ PolledInv /\ StepInv /\ step \in StepType /\ ctl \in Attributes
        /\ miner \in [phase : Phases, limit : Powers, power : Power, rebooted : BOOLEAN,
                      writes : 0..2]
        /\ data \in Polls
    BY DEF RegulationInv, TypeOK, StepType, Polls
  <1>2. CASE PollFails
    <2>1. data' = [data EXCEPT !.fresh = FALSE] /\ UNCHANGED <<ctl, step, miner>>
      BY <1>2 DEF PollFails
    <2>2. data'.limit = data.limit
      BY <1>1, <2>1 DEF Polls
    <2>3. LimitInForce(ctl)' = LimitInForce(ctl) /\ Runs' = Runs
      BY <2>1, <2>2 DEF LimitInForce, Runs
    <2> QED
      BY <2>1, <2>3 DEF BeliefInv
  <1>3. CASE BoundsMove \/ UNCHANGED vars
    <2>1. UNCHANGED <<ctl, step, miner, data>>
      BY <1>3 DEF BoundsMove, vars
    <2>2. LimitInForce(ctl)' = LimitInForce(ctl) /\ Runs' = Runs
      BY <2>1 DEF LimitInForce, Runs
    <2> QED
      BY <2>1, <2>2 DEF BeliefInv
  <1>4. CASE Reloads
    <2>1. /\ miner' = [miner EXCEPT !.writes = 0] /\ step' = Fresh(FALSE) /\ step.at = "idle"
          /\ data' = [fresh |-> FALSE, tuned |-> FALSE, mining |-> FALSE, limit |-> None]
          /\ ctl' = [Started(ctl.pinned) EXCEPT !.limit = ctl.limit, !.target = ctl.target]
      BY <1>4 DEF Reloads
    <2>2. /\ miner'.limit = miner.limit /\ miner'.power = miner.power
          /\ step'.at = "idle" /\ data'.limit = None
      BY <1>1, <2>1 DEF Fresh
    <2>3. ctl'.limit = ctl.limit /\ ctl'.force = None
      BY <2>1 DEF Started
    <2>4. LimitInForce(ctl) \in {None, miner.limit}
      BY <1>1, <2>1 DEF BeliefInv, StepInv
    <2>5. LimitInForce(ctl)' = Known(ctl.limit, None)
      BY <2>2, <2>3 DEF LimitInForce, Known
    <2>6. LimitInForce(ctl)' \in {None, miner.limit}
      BY <2>4, <2>5 DEF LimitInForce, Known
    <2> QED
      BY <2>2, <2>3, <2>6 DEF BeliefInv
  <1>5. CASE LimitLands
    <2>1. /\ step.at \in {"limit", "fallback"} /\ UNCHANGED <<ctl, data>>
          /\ miner' = [Restarted(Counted(miner)) EXCEPT !.limit = step.power]
          /\ step' = [step EXCEPT !.landed = TRUE]
      BY <1>5 DEF LimitLands
    <2>2. miner'.power = None /\ miner'.limit = step.power
      BY <1>1, <2>1, CountedType DEF Restarted
    <2>3. step'.landed /\ step'.at = step.at /\ step'.power = step.power
      BY <1>1, <2>1 DEF StepType
    <2> QED
      BY <2>1, <2>2, <2>3 DEF BeliefInv
  <1>6. CASE V3Lands
    <2>1. /\ step.at = "v3" /\ UNCHANGED <<ctl, data>>
          /\ miner' = [Counted(miner) EXCEPT !.power = step.power]
          /\ step' = [step EXCEPT !.landed = TRUE]
      BY <1>6 DEF V3Lands
    <2>2. miner'.power = step.power /\ miner'.limit = miner.limit
      BY <1>1, <2>1, CountedType
    <2>3. step'.landed /\ step'.at = "v3" /\ step'.power = step.power
      BY <1>1, <2>1 DEF StepType
    <2>4. LimitInForce(ctl)' \in {None, miner'.limit}
      BY <2>1, <2>2 DEF BeliefInv, LimitInForce
    <2> QED
      BY <2>1, <2>2, <2>3, <2>4 DEF BeliefInv
  <1>7. CASE RestartsItself
    <2>1. ~step.landed /\ miner' = Restarted(miner) /\ UNCHANGED <<ctl, step, data>>
      BY <1>7 DEF RestartsItself
    <2>2. miner'.power = None /\ miner'.limit = miner.limit /\ miner'.rebooted
      BY <1>1, <2>1 DEF Restarted
    <2>3. LimitInForce(ctl)' = LimitInForce(ctl)
      BY <2>1 DEF LimitInForce
    <2> QED
      BY <2>1, <2>2, <2>3 DEF BeliefInv
  <1>8. CASE Boots \/ Retunes \/ Tunes
    <2>1. /\ UNCHANGED <<ctl, step, data>>
          /\ miner' = [miner EXCEPT !.phase = "tuning"]
             \/ miner' = [miner EXCEPT !.phase = "tuned", !.writes = 0]
      BY <1>8 DEF Boots, Retunes, Tunes
    <2>2. /\ miner'.power = miner.power /\ miner'.limit = miner.limit
          /\ miner'.rebooted = miner.rebooted
      BY <1>1, <2>1
    <2>3. LimitInForce(ctl)' = LimitInForce(ctl) /\ Runs' = Runs
      BY <2>1, <2>2 DEF LimitInForce, Runs
    <2> QED
      BY <2>1, <2>2, <2>3 DEF BeliefInv
  <1>9. CASE Tick
    <2>1. UNCHANGED <<step, miner, data>> /\ ctl'.limit = ctl.limit /\ ctl'.force = ctl.force
      BY <1>1, <1>9 DEF Tick, Attributes
    <2>2. LimitInForce(ctl)' = LimitInForce(ctl) /\ Runs' = Runs
      BY <2>1 DEF LimitInForce, Runs
    <2> QED
      BY <2>1, <2>2 DEF BeliefInv
  <1> QED
    BY <1>2, <1>3, <1>4, <1>5, <1>6, <1>7, <1>8, <1>9 DEF Others

(***************************************************************************)
(* The theorems                                                            *)
(***************************************************************************)

\* Nothing is known and nothing written when the controller starts.
LEMMA RegulationBegins ==
    ASSUME Init
    PROVE  RegulationInv /\ WriteInv /\ BeliefInv
  <1>1. /\ \E b \in BOOLEAN : ctl = Started(b)
        /\ bounds \in Bounds /\ step = Fresh(FALSE)
        /\ \E p \in Powers : miner = [phase |-> "tuned", limit |-> p, power |-> None,
                                      rebooted |-> FALSE, writes |-> 0]
        /\ data = [fresh |-> FALSE, tuned |-> FALSE, mining |-> FALSE, limit |-> None]
        /\ events = 0
    BY DEF Init
  <1>2. /\ 0 \in 0..Grace /\ 0 \in 0..Retry /\ 0 \in 0..BootHold
        /\ 0 \in 0..(Fails - 1) /\ 0 \in 0..(Persist - 1) /\ 0 \in 0..MaxEvents
    BY RegulationAssumption
  <1>3. None \in Power /\ None \notin Powers
    BY PowerFacts DEF Power
  <1>4. /\ ctl \in Attributes /\ ctl.tuned_seen = FALSE /\ ctl.limit = None
        /\ ctl.force = None
    BY <1>1, <1>2, <1>3 DEF Started, Attributes
  <1>5. step \in StepType /\ step.at = "idle" /\ ~step.landed /\ ~step.due
    BY <1>1, <1>3, PowerFacts DEF Fresh, StepType
  <1>6. /\ miner \in [phase : Phases, limit : Powers, power : Power, rebooted : BOOLEAN,
                      writes : 0..2]
        /\ miner.writes = 0 /\ ~miner.rebooted /\ miner.power = None
    BY <1>1, <1>3 DEF Phases
  <1>7. data \in Polls /\ ~data.fresh /\ data.tuned = FALSE /\ data.limit = None
    BY <1>1, <1>3 DEF Polls
  <1>8. RegulationInv
    BY <1>1, <1>2, <1>4, <1>5, <1>6, <1>7
       DEF RegulationInv, TypeOK, PolledInv, StepInv, StepType, Polls
  <1>9. WriteInv
    BY <1>5, <1>6, <1>7 DEF WriteInv, Ordinary
  <1>10. LimitInForce(ctl) = None
    BY <1>4, <1>7 DEF LimitInForce, Known
  <1>11. BeliefInv
    BY <1>4, <1>5, <1>6, <1>10 DEF BeliefInv
  <1> QED
    BY <1>8, <1>9, <1>11

\* An action is the step's, a poll, or none of both.
LEMMA ThreeKinds ==
    ASSUME [Next]_vars
    PROVE  StepActs \/ PollSucceeds \/ Others
  BY DEF Next, StepActs, Others

\* The types of the controller's attributes, and what a poll shows, are kept by
\* every action.
THEOREM RegulationInductive == Spec => []RegulationInv
  <1>1. Init => RegulationInv
    BY RegulationBegins
  <1>2. RegulationInv /\ [Next]_vars => RegulationInv'
    BY ThreeKinds, ActsKeepTypes, PollKeeps, OthersKeepTypes
  <1> QED
    BY <1>1, <1>2, PTL DEF Spec

\* Where a command that was carried out is answered, the miner is written to
\* once in a tuned epoch, however polls, failures, fall-backs and restarts fall
\* between gate and reply (_gate_write).
THEOREM WritesOnce ==
    ASSUME ~Losses
    PROVE  Spec => []OneWritePerEpoch
  <1>1. Init => RegulationInv /\ WriteInv
    BY RegulationBegins
  <1>2. RegulationInv /\ WriteInv /\ [Next]_vars => RegulationInv' /\ WriteInv'
    BY ThreeKinds, ActsKeepTypes, ActsKeepBudget, PollKeeps, OthersKeepTypes, OthersKeepBudget
  <1>3. RegulationInv /\ WriteInv => OneWritePerEpoch
    BY DEF RegulationInv, WriteInv, OneWritePerEpoch
  <1> QED
    BY <1>1, <1>2, <1>3, PTL DEF Spec

\* Under the same condition, the miner runs at no more than the controller
\* believes once the polls have shown its last restart (_power_in_force).
THEOREM RunsAsBelieved ==
    ASSUME ~Losses
    PROVE  Spec => []NeverAboveBelief
  <1>1. Init => RegulationInv /\ BeliefInv
    BY RegulationBegins
  <1>2. RegulationInv /\ BeliefInv /\ [Next]_vars => RegulationInv' /\ BeliefInv'
    BY ThreeKinds, ActsKeepTypes, ActsKeepBelief, PollKeeps, OthersKeepTypes, OthersKeepBelief
  <1>3. RegulationInv /\ BeliefInv => NeverAboveBelief
    BY DEF RegulationInv, StepInv, BeliefInv, NeverAboveBelief, Runs
  <1> QED
    BY <1>1, <1>2, <1>3, PTL DEF Spec

\* Whatever is asked for and however the bounds move, every command leaves inside
\* the bounds of its moment and, over v3, under the limit in force; the fall-back
\* of a refused v3 write inside the bounds that write was decided under.
THEOREM StaysInBounds == Spec => CommandsInBounds
  <1> DEFINE Inside(b) == step'.power \in b.floor..b.ceiling
             Bounded == /\ step'.at = "fallback" => Inside(step.under)
                        /\ step'.at # "fallback" => Inside(bounds)
                        /\ step'.at = "v3" => step'.power <= LimitInForce(ctl')
  <1>1. ASSUME RegulationInv, [Next]_vars, Leaves
        PROVE  Bounded
    <2>1. StepActs
      BY <1>1 DEF Leaves, Next, StepActs, vars, PollSucceeds, PollFails, BoundsMove, Reloads,
                  Fresh, LimitLands, V3Lands, RestartsItself, Boots, Tunes, Retunes, Tick,
                  RegulationInv, TypeOK, StepInv
    <2>2. PICK x, y : /\ x \in Local /\ Follows(x, y) /\ Becomes(y)
                      /\ IF step.at = "idle" THEN x.step.at = "idle" ELSE x.step = step
      BY <1>1, <2>1, ActsFollow
    <2>3. step' = y.step /\ ctl' = y.ctl
      BY <2>2 DEF Becomes
    <2>4. LimitInForce(ctl') = LimitInForce(x.ctl)
      BY <2>2, <2>3 DEF Follows, Alters, LimitInForce
    <2>5. step'.at = "fallback" => step.at = "v3" /\ step'.power = step.power
      BY <2>2, <2>3 DEF Follows
    <2>6. step'.at = "fallback" => Inside(step.under)
      BY <1>1, <2>5 DEF RegulationInv, StepInv
    <2>7. step'.at # "fallback" => Inside(bounds)
      BY <1>1, <2>2, <2>3 DEF Follows, Leaves
    <2>8. step'.at = "v3" => step'.power <= LimitInForce(ctl')
      BY <1>1, <2>2, <2>3, <2>4 DEF Follows, Leaves
    <2> QED
      BY <2>6, <2>7, <2>8
  <1>2. RegulationInv /\ [Next]_vars => [Leaves => Bounded]_vars
    BY <1>1
  <1>3. (Leaves => Bounded) =>
          (Leaves => LET within == IF step'.at = "fallback" THEN step.under ELSE bounds
                     IN  /\ Inside(within)
                         /\ step'.at = "v3" => step'.power <= LimitInForce(ctl'))
    OBVIOUS
  <1> QED
    BY <1>2, <1>3, RegulationInductive, PTL DEF Spec, CommandsInBounds
=============================================================================
