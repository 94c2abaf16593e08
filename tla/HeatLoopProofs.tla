---------------------------- MODULE HeatLoopProofs ----------------------------
(***************************************************************************)
(* Proofs about the power the controller wants, for any temperatures,      *)
(* gains, bands, rails and durations: a cap takes effect in the tick that  *)
(* sees it, nothing asks for more while the supply is on its way past the  *)
(* target, and a loop that is held below its request does not wind up.  A  *)
(* tick is followed through the operators it is composed of, each with     *)
(* what it leaves of its record.                                           *)
(***************************************************************************)
EXTENDS HeatLoop, TLAPS

(***************************************************************************)
(* Types                                                                   *)
(***************************************************************************)

Pids == [integral : Int, output : 0..PowerMax, set_point : Targets \cup {0}]

Attributes ==
    [mining : {"unknown", "yes", "no"}, target : Power, commanded : Power,
     soft : BOOLEAN, fallback : BOOLEAN, boot : 0..BootHold, age : 0..Decrease,
     limit_age : 0..Spacing]

Ticks ==
    [asks : {"nothing", "less", "more", "floor"},
     cap : Floors \cup {None}, held : BOOLEAN, starved : BOOLEAN]

\* What a tick works on.
Works ==
    [set : Targets, floor : Floors, demand : Demands, chip : BOOLEAN, curve : Power,
     pid : Pids, ctl : Attributes, tick : Ticks,
     integral : Int, requested : Powers, asked : Power]

\* The assumption on the constants, spelled out.
LEMMA ConstantFacts ==
    /\ Temps \subseteq Nat /\ Targets \subseteq Nat /\ Cap \in Nat
    /\ PowerMin \in Nat \ {0} /\ PowerMax \in Nat /\ PowerMin < PowerMax
    /\ Floors \subseteq Powers /\ Limit \in Power /\ Draw \in Powers
    /\ Kp \in Nat /\ Ki \in Nat /\ Look \in Nat /\ Kp > 0 /\ Look > 0
    /\ StepFine \in Nat /\ StepMedium \in Nat /\ Step \in Nat
    /\ StepFine > 0 /\ StepMedium > 0 /\ Step > 0
    /\ Fine \in Nat /\ Coarse \in Nat /\ IntegralBand \in Nat /\ Jump \in Nat
    /\ Increase \in Nat /\ Decrease \in Nat /\ BootHold \in Nat /\ Spacing \in Nat
  BY HeatLoopAssumption

\* A power is a whole number, and not None.
LEMMA PowersAreNat ==
    ASSUME NEW p \in Powers
    PROVE  p \in Nat /\ p > 0 /\ p # None /\ p \in Power /\ PowerMin <= p /\ p <= PowerMax
  BY ConstantFacts DEF Powers, Power, None

\* A crash floor leaves room above it.
LEMMA FloorFacts ==
    ASSUME NEW f \in Floors
    PROVE  /\ f \in Powers /\ f \in Nat /\ f > 0 /\ PowerMin <= f
           /\ f + 1 <= PowerMax /\ f <= PowerMax /\ f + 1 \in 0..PowerMax
           /\ 2 * Step <= PowerMax - f
  <1>1. f \in Powers /\ 2 * Step <= PowerMax - f
    BY ConstantFacts, HeatLoopAssumption
  <1>2. f \in Nat /\ f > 0 /\ PowerMin <= f
    BY <1>1, PowersAreNat
  <1>3. f + 1 <= PowerMax
    BY <1>1, <1>2, ConstantFacts
  <1> QED
    BY <1>1, <1>2, <1>3, ConstantFacts

\* Bounds hold what they are given.
LEMMA WithinRange ==
    ASSUME NEW p \in Int, NEW low \in Int, NEW high \in Int, low <= high
    PROVE  Within(p, low, high) \in low..high
  BY DEF Within, Max, Min

\* ... and powers are closed under the bounds of a floor.
LEMMA WithinPowers ==
    ASSUME NEW p \in Int, NEW f \in Floors
    PROVE  /\ Within(p, f, PowerMax) \in Powers
           /\ Within(p, f, PowerMax) \in f..PowerMax
           /\ Within(p, f, PowerMax) \in 0..PowerMax
           /\ Within(p, f, PowerMax) \in Int
  <1> DEFINE w == Within(p, f, PowerMax)
  <1>2. /\ f \in Int /\ PowerMin <= f /\ f <= PowerMax
        /\ 0 <= PowerMin /\ PowerMin \in Int /\ PowerMax \in Int
    BY FloorFacts, ConstantFacts
  <1>1. w \in f..PowerMax
    BY <1>2, WithinRange
  <1> HIDE DEF w
  <1>3. w \in Powers /\ w \in 0..PowerMax /\ w \in Int
    BY <1>1, <1>2 DEF Powers
  <1> QED
    BY <1>1, <1>3 DEF w

\* The type invariant in terms of these sets.
LEMMA TypesAre ==
    TypeOK <=> /\ readings \in [1..2 -> Temps \cup {None}]
               /\ pid \in Pids /\ ctl \in Attributes /\ due \in BOOLEAN /\ tick \in Ticks
  BY DEF TypeOK, Pids, Attributes, Ticks

(***************************************************************************)
(* The supply                                                              *)
(***************************************************************************)

\* With a reading the supply's trend and projection are whole numbers, and
\* without one nothing rises.
LEMMA SupplyFacts ==
    ASSUME readings \in [1..2 -> Temps \cup {None}]
    PROVE  /\ Temp = None \/ Temp \in Nat
           /\ Rising \in BOOLEAN
           /\ Rising => Temp # None /\ Slope \in Nat
           /\ Temp # None => Projected \in Int /\ Projected >= Temp
           /\ None \in Int
  <1>1. /\ readings[1] = None \/ readings[1] \in Nat
        /\ readings[2] = None \/ readings[2] \in Nat
    <2>1. readings[1] \in Temps \cup {None} /\ readings[2] \in Temps \cup {None}
      OBVIOUS
    <2>2. Temps \subseteq Nat
      BY ConstantFacts
    <2> QED
      BY <2>1, <2>2
  <1>2. None \in Int /\ ~(None \in Nat)
    BY DEF None
  <1>3. Slope # None => readings[1] \in Nat /\ readings[2] \in Nat /\ Slope = readings[2] - readings[1]
    BY <1>1 DEF Slope
  <1>4. Rising => Temp # None /\ Slope \in Nat
    BY <1>2, <1>3 DEF Rising, Temp
  <1>5. Rising \in BOOLEAN
    BY DEF Rising
  <1>6. ASSUME Temp # None
        PROVE  Projected \in Int /\ Projected >= Temp
    <2>1. Temp \in Nat
      BY <1>1, <1>6 DEF Temp
    <2>2. CASE Rising
      <3>1. Slope \in Nat
        BY <2>2, <1>4
      <3>2. Slope * Look \in Nat
        BY <3>1, ConstantFacts
      <3> QED
        BY <2>1, <2>2, <3>2 DEF Projected
    <2>3. CASE ~Rising
      BY <2>1, <2>3 DEF Projected
    <2> QED
      BY <2>2, <2>3
  <1> QED
    BY <1>1, <1>2, <1>4, <1>5, <1>6 DEF Temp

\* A reading is noted after the last, or after none.
LEMMA NotedType ==
    ASSUME readings \in [1..2 -> Temps \cup {None}], NEW reading \in Temps \cup {None}
    PROVE  Noted(reading) \in [1..2 -> Temps \cup {None}]
  <1>1. Temp \in Temps \cup {None}
    BY DEF Temp
  <1> DEFINE a == IF {reading, Temp} \subseteq Temps /\ Apart(reading, Temp) > Jump THEN None ELSE Temp
  <1>2. a \in Temps \cup {None}
    BY <1>1
  <1>3. Noted(reading) = <<a, reading>>
    BY DEF Noted
  <1> HIDE DEF a
  <1> QED
    BY <1>2, <1>3

(***************************************************************************)
(* The record of a tick                                                    *)
(***************************************************************************)

\* What it holds.
LEMMA WorkTypes ==
    ASSUME NEW x \in Works
    PROVE  /\ x.set \in Targets /\ x.floor \in Floors /\ x.demand \in Demands
           /\ x.chip \in BOOLEAN /\ x.curve \in Power
           /\ x.pid \in Pids /\ x.ctl \in Attributes /\ x.tick \in Ticks
           /\ x.integral \in Int /\ x.requested \in Powers /\ x.asked \in Power
           /\ x.set \in Nat
           /\ x.ctl.target \in Power /\ x.ctl.commanded \in Power
           /\ x.ctl.soft \in BOOLEAN /\ x.ctl.fallback \in BOOLEAN
           /\ x.ctl.boot \in 0..BootHold /\ x.ctl.age \in 0..Decrease
           /\ x.pid.integral \in Int /\ x.pid.output \in 0..PowerMax
  <1>1. /\ x.set \in Targets /\ x.floor \in Floors /\ x.demand \in Demands
        /\ x.chip \in BOOLEAN /\ x.curve \in Power
        /\ x.pid \in Pids /\ x.ctl \in Attributes /\ x.tick \in Ticks
        /\ x.integral \in Int /\ x.requested \in Powers /\ x.asked \in Power
    BY DEF Works
  <1>2. x.set \in Nat
    BY <1>1, ConstantFacts
  <1>3. /\ x.ctl.target \in Power /\ x.ctl.commanded \in Power
        /\ x.ctl.soft \in BOOLEAN /\ x.ctl.fallback \in BOOLEAN
        /\ x.ctl.boot \in 0..BootHold /\ x.ctl.age \in 0..Decrease
    BY <1>1 DEF Attributes
  <1>4. x.pid.integral \in Int /\ x.pid.output \in 0..PowerMax
    BY <1>1 DEF Pids
  <1> QED
    BY <1>1, <1>2, <1>3, <1>4

\* What may become of the parts of a record of a tick.
LEMMA WorkUpdates ==
    ASSUME NEW x \in Works
    PROVE  /\ \A p \in Pids : [x EXCEPT !.pid = p] \in Works
           /\ \A c \in Attributes : [x EXCEPT !.ctl = c] \in Works
           /\ \A t \in Ticks : [x EXCEPT !.tick = t] \in Works
           /\ \A p \in Power : [x EXCEPT !.asked = p] \in Works
           /\ \A n \in Int, q \in Powers :
                 [[x EXCEPT !.integral = n] EXCEPT !.requested = q] \in Works
  BY DEF Works

\* ... and of the controller's attributes.
LEMMA AttributeUpdates ==
    ASSUME NEW c \in Attributes
    PROVE  /\ \A p \in Power : [c EXCEPT !.commanded = p] \in Attributes
           /\ \A p \in Power : [c EXCEPT !.target = p] \in Attributes
           /\ \A b \in BOOLEAN : [c EXCEPT !.soft = b] \in Attributes
           /\ \A b \in BOOLEAN : [c EXCEPT !.fallback = b] \in Attributes
           /\ \A m \in {"yes", "no"} : [c EXCEPT !.mining = m] \in Attributes
           /\ \A n \in 0..BootHold : [c EXCEPT !.boot = n] \in Attributes
           /\ \A n \in 0..Decrease : [c EXCEPT !.age = n] \in Attributes
           /\ \A n \in 0..Spacing : [c EXCEPT !.limit_age = n] \in Attributes
  BY DEF Attributes

\* ... and of the PID.
LEMMA PidUpdates ==
    ASSUME NEW p \in Pids
    PROVE  /\ \A n \in Int : [p EXCEPT !.integral = n] \in Pids
           /\ \A n \in 0..PowerMax : [p EXCEPT !.output = n] \in Pids
  BY DEF Pids

\* The power the controller compares with, and the one it starts from.
LEMMA ReferenceTypes ==
    ASSUME NEW x \in Works
    PROVE  Reference(x) \in Power /\ Base(x) \in Powers
  <1>1. x.ctl.commanded \in Power /\ Limit \in Power /\ Draw \in Powers
    BY ConstantFacts DEF Works, Attributes
  <1>2. Reference(x) \in Power
    BY <1>1 DEF Reference
  <1> QED
    BY <1>1, <1>2 DEF Base, Power

\* Bumpless transfer: an integral for the present error, and the power
\* regulated to taken for commanded.
LEMMA SeededTypes ==
    ASSUME readings \in [1..2 -> Temps \cup {None}], NEW x \in Works
    PROVE  Seeded(x) \in Works
  <1> DEFINE power == IF x.ctl.target # None THEN x.ctl.target ELSE Draw
             n == power - (IF Temp # None THEN Kp * (x.set - Temp) ELSE 0)
             p == [x.pid EXCEPT !.integral = n]
             c == [x.ctl EXCEPT !.commanded = x.ctl.target]
  <1>1. /\ x.set \in Int /\ x.ctl.target \in Power /\ Draw \in Powers
        /\ x.pid \in Pids /\ x.ctl \in Attributes
    BY ConstantFacts, WorkTypes
  <1>2. power \in Powers
    BY <1>1 DEF Power
  <1>3. power \in Int
    BY <1>2, PowersAreNat
  <1>4. n \in Int
    BY <1>1, <1>3, SupplyFacts, ConstantFacts
  <1>5. p \in Pids
    BY <1>1, <1>4, PidUpdates
  <1>6. c \in Attributes
    BY <1>1, AttributeUpdates
  <1>7. Seeded(x) = [[x EXCEPT !.pid = p] EXCEPT !.ctl = c]
    BY DEF Seeded, Works
  <1> HIDE DEF p, c
  <1>8. [x EXCEPT !.pid = p] \in Works
    BY <1>5, WorkUpdates
  <1> QED
    BY <1>6, <1>7, <1>8, WorkUpdates

\* The edge to mining, and the first poll after a reload.
LEMMA EdgeTypes ==
    ASSUME readings \in [1..2 -> Temps \cup {None}], NEW x \in Works, NEW flag \in BOOLEAN
    PROVE  Edge(x, flag) \in Works
  <1> DEFINE s == Seeded(x)
             boot == IF flag THEN BootHold ELSE s.ctl.boot
             Turned(soft) == [[[s.ctl EXCEPT !.mining = "yes"] EXCEPT !.boot = boot] EXCEPT !.soft = soft]
  <1>1. s \in Works
    BY SeededTypes
  <1>2. s.ctl \in Attributes /\ s.ctl.soft \in BOOLEAN /\ s.ctl.boot \in 0..BootHold
    BY <1>1 DEF Works, Attributes
  <1>3. boot \in 0..BootHold
    BY <1>2, ConstantFacts
  <1>4. \A soft \in BOOLEAN : Turned(soft) \in Attributes
    <2> HIDE DEF s, boot
    <2> SUFFICES ASSUME NEW soft \in BOOLEAN PROVE Turned(soft) \in Attributes
      OBVIOUS
    <2>1. [s.ctl EXCEPT !.mining = "yes"] \in Attributes
      BY <1>2, AttributeUpdates
    <2>2. [[s.ctl EXCEPT !.mining = "yes"] EXCEPT !.boot = boot] \in Attributes
      BY <1>3, <2>1, AttributeUpdates
    <2> QED
      BY <2>2, AttributeUpdates
  <1>5. \A soft \in BOOLEAN : [s EXCEPT !.ctl = Turned(soft)] \in Works
    <2> HIDE DEF s, Turned
    <2> QED
      BY <1>1, <1>4, WorkUpdates
  <1>6. Starts(x, flag) \in Works
    <2> DEFINE soft == s.ctl.soft \/ ~OurRestart(x.ctl)
    <2>1. soft \in BOOLEAN
      BY <1>2
    <2>2. Starts(x, flag) = [s EXCEPT !.ctl = Turned(soft)]
      BY <1>2 DEF Starts, Attributes
    <2> HIDE DEF soft, Turned
    <2> QED
      BY <1>5, <2>1, <2>2
  <1>7. Finds(x, flag) \in Works
    <2> DEFINE soft == s.ctl.soft \/ (Temp # None /\ Temp < x.set - Fine)
    <2>1. soft \in BOOLEAN
      BY <1>2
    <2>2. Finds(x, flag) = [s EXCEPT !.ctl = Turned(soft)]
      BY <1>2 DEF Finds, Attributes
    <2> HIDE DEF soft, Turned
    <2> QED
      BY <1>5, <2>1, <2>2
  <1> QED
    BY <1>6, <1>7 DEF Edge

\* The probe is back.
LEMMA ResumedTypes ==
    ASSUME readings \in [1..2 -> Temps \cup {None}], NEW x \in Works
    PROVE  Resumed(x) \in Works
  <1>1. Seeded(x) \in Works /\ Seeded(x).ctl \in Attributes
    BY SeededTypes DEF Works
  <1>2. [Seeded(x).ctl EXCEPT !.fallback = FALSE] \in Attributes
    BY <1>1, AttributeUpdates
  <1> DEFINE s == Seeded(x)
  <1>3. [s EXCEPT !.ctl.fallback = FALSE] = [s EXCEPT !.ctl = [s.ctl EXCEPT !.fallback = FALSE]]
    BY <1>1 DEF Works
  <1>4. [s EXCEPT !.ctl = [s.ctl EXCEPT !.fallback = FALSE]] \in Works
    BY <1>1, <1>2, WorkUpdates
  <1> HIDE DEF s
  <1> QED
    BY <1>3, <1>4 DEF Resumed, s

\* A tick that asks for nothing.
LEMMA RestsTypes ==
    ASSUME NEW x \in Works
    PROVE  /\ Rests(x) \in Works /\ Rests(x).asked = None
           /\ Rests(x).tick = NoTick
           /\ Rests(x).pid = x.pid /\ Rests(x).ctl = x.ctl
           /\ Rests(x).set = x.set /\ Rests(x).floor = x.floor
           /\ Rests(x).chip = x.chip /\ Rests(x).demand = x.demand
  <1>1. None \in Power /\ NoTick \in Ticks
    BY DEF Power, NoTick, Ticks
  <1> QED
    BY <1>1 DEF Rests, Works

\* The crash floor that a step with a cap engaged runs under.
LEMMA CappedTypes ==
    ASSUME NEW x \in Works
    PROVE  /\ Capped(x) \in Floors \cup {None}
           /\ Caps(x) <=> Capped(x) # None
           /\ Caps(x) => Capped(x) = x.floor
  <1>1. x.floor \in Floors /\ x.floor # None
    BY WorkTypes, FloorFacts, PowersAreNat
  <1> QED
    BY <1>1 DEF Capped

\* What it says of a power it asks for.
LEMMA AsksFacts ==
    ASSUME NEW x \in Works, NEW base \in Power, NEW power \in Powers
    PROVE  LET z == Asks(x, base, power)
           IN  /\ z \in Works /\ z.asked = power /\ z.floor = x.floor
               /\ z.pid = x.pid /\ z.ctl = x.ctl
               /\ z.tick.held = x.tick.held /\ z.tick.cap = x.tick.cap
               /\ z.tick.asks # "nothing"
               /\ z.tick.asks = "more" => base # None /\ ~(power <= base) /\ power > x.floor
  <1> DEFINE asks == IF base = None \/ power <= base THEN "less"
                     ELSE IF power > x.floor THEN "more" ELSE "floor"
             t == [x.tick EXCEPT !.asks = asks]
  <1>1. asks \in {"less", "more", "floor"}
    OBVIOUS
  <1>2. asks = "more" => base # None /\ ~(power <= base) /\ power > x.floor
    OBVIOUS
  <1>3. Asks(x, base, power) = [[x EXCEPT !.asked = power] EXCEPT !.tick = t]
    BY DEF Asks, Works, Ticks
  <1> HIDE DEF asks
  <1>4. /\ t \in Ticks /\ t.asks = asks /\ t.cap = x.tick.cap /\ t.held = x.tick.held
        /\ t.asks # "nothing"
    BY <1>1 DEF Works, Ticks
  <1>5. power \in Power
    BY DEF Power
  <1> HIDE DEF t
  <1> QED
    BY <1>2, <1>3, <1>4, <1>5 DEF Works

(***************************************************************************)
(* The PID                                                                 *)
(***************************************************************************)

\* With a reading the error is a whole number.
LEMMA ErrorFacts ==
    ASSUME readings \in [1..2 -> Temps \cup {None}], Temp # None, NEW x \in Works
    PROVE  /\ Temp \in Nat /\ x.set \in Nat /\ x.set - Temp \in Int
           /\ Kp * (x.set - Temp) \in Int /\ Ki * (x.set - Temp) \in Int
           /\ Projected \in Int /\ Kp * (x.set - Projected) \in Int
           /\ Kp * (Projected - x.set) \in Int
           /\ Apart(x.set, Temp) \in Nat /\ Apart(x.set, Projected) \in Nat
  <1>1. Temp \in Nat /\ x.set \in Nat /\ Projected \in Int
    BY SupplyFacts, WorkTypes
  <1>2. x.set - Temp \in Int /\ x.set - Projected \in Int /\ Projected - x.set \in Int
    BY <1>1
  <1>3. /\ Kp * (x.set - Temp) \in Int /\ Ki * (x.set - Temp) \in Int
        /\ Kp * (x.set - Projected) \in Int /\ Kp * (Projected - x.set) \in Int
    BY <1>2, ConstantFacts
  <1>4. Apart(x.set, Temp) \in Nat /\ Apart(x.set, Projected) \in Nat
    BY <1>1 DEF Apart, Max, Min
  <1> QED
    BY <1>1, <1>2, <1>3, <1>4

\* The output for any integral lies between the floor and the upper rail.
LEMMA OutputTypes ==
    ASSUME readings \in [1..2 -> Temps \cup {None}], Temp # None, NEW x \in Works, NEW n \in Int
    PROVE  Output(x, n) \in Powers /\ Output(x, n) \in 0..PowerMax
  <1>1. Kp * (x.set - Temp) + n \in Int
    BY ErrorFacts
  <1>2. x.floor \in Floors
    BY WorkTypes
  <1> QED
    BY <1>1, <1>2, WithinPowers DEF Output

\* PID.calc runs under the set point of the tick.
LEMMA CalculatedTypes ==
    ASSUME readings \in [1..2 -> Temps \cup {None}], Temp # None, NEW x \in Works
    PROVE  Calculated(x) \in Pids /\ Calculated(x).set_point = x.set
  <1> DEFINE off_rails == x.floor < x.pid.output /\ x.pid.output < PowerMax
             n == IF off_rails /\ x.pid.set_point = x.set
                  THEN Within(x.pid.integral + Ki * (x.set - Temp), x.floor, PowerMax)
                  ELSE x.pid.integral
  <1>1. x.floor \in Floors /\ x.pid.integral \in Int /\ x.set \in Targets
    BY WorkTypes
  <1>2. x.pid.integral + Ki * (x.set - Temp) \in Int
    BY <1>1, ErrorFacts
  <1>3. Within(x.pid.integral + Ki * (x.set - Temp), x.floor, PowerMax) \in Int
    BY <1>1, <1>2, WithinPowers
  <1>4. n \in Int
    BY <1>1, <1>3
  <1>5. Calculated(x) = [integral |-> n, set_point |-> x.set,
                         output |-> Within(Kp * (x.set - Temp) + n, x.floor, PowerMax)]
    BY DEF Calculated
  <1> HIDE DEF n
  <1>6. Output(x, n) \in 0..PowerMax
    BY <1>4, OutputTypes
  <1>7. Within(Kp * (x.set - Temp) + n, x.floor, PowerMax) \in 0..PowerMax
    BY <1>6 DEF Output
  <1> QED
    BY <1>1, <1>4, <1>5, <1>7 DEF Pids

\* The nudge and the integral band keep the set point.
LEMMA UnsaturatedTypes ==
    ASSUME readings \in [1..2 -> Temps \cup {None}], Temp # None,
           NEW x \in Works, NEW p \in Pids
    PROVE  Unsaturated(p, x) \in Pids /\ Unsaturated(p, x).set_point = p.set_point
  <1>1. x.pid.integral \in Int /\ x.floor \in Floors
    BY WorkTypes
  <1>2. Output(x, x.pid.integral) \in 0..PowerMax
    BY <1>1, OutputTypes
  <1>3. x.floor + 1 \in 0..PowerMax
    BY <1>1, FloorFacts
  <1>4. Lifted(p, x) \in Pids /\ Lifted(p, x).set_point = p.set_point
    BY <1>3 DEF Lifted, Pids
  <1> DEFINE q == [p EXCEPT !.integral = x.pid.integral, !.output = Output(x, x.pid.integral)]
  <1>5. q \in Pids /\ q.set_point = p.set_point
    BY <1>1, <1>2 DEF Pids
  <1> HIDE DEF q
  <1>6. Unsaturated(p, x) \in {q, Lifted(p, x)}
    BY DEF Unsaturated, q
  <1> QED
    BY <1>4, <1>5, <1>6

(***************************************************************************)
(* The power                                                               *)
(***************************************************************************)

\* The soft start asks for a power.
LEMMA SoftStartTypes ==
    ASSUME readings \in [1..2 -> Temps \cup {None}], Temp # None,
           NEW x \in Works, NEW base \in Powers
    PROVE  SoftStartPower(x, base) \in Powers
  <1>1. x.floor \in Floors
    BY WorkTypes
  <1>2. /\ x.floor \in Nat /\ 2 * Step <= PowerMax - x.floor /\ x.floor <= PowerMax
        /\ Step \in Nat /\ Step > 0 /\ PowerMax \in Nat /\ PowerMin \in Nat
    BY <1>1, FloorFacts, ConstantFacts
  <1>3. (PowerMax - x.floor) \div 2 \in Nat
    BY <1>2
  <1>4. Kp * (x.set - Projected) \in Int
    BY ErrorFacts
  <1> DEFINE k == Kp * (x.set - Projected)
             h == (PowerMax - x.floor) \div 2
             up == Min(h, Max(k, Step))
  <1>5. up \in Nat
    <2> HIDE DEF k, h
    <2> QED
      BY <1>2, <1>3, <1>4 DEF k, h, Max, Min
  <1>6. base \in Nat /\ PowerMin <= base /\ base <= PowerMax
    BY PowersAreNat
  <1> HIDE DEF up
  <1>7. Min(base + up, PowerMax) \in Powers
    BY <1>2, <1>5, <1>6 DEF Min, Powers
  <1>8. SoftStartPower(x, base) \in {base, Min(base + up, PowerMax)}
    BY DEF SoftStartPower, up
  <1> QED
    BY <1>7, <1>8

\* On its way past the target the supply gets no more than the power in force.
LEMMA PredictedFacts ==
    ASSUME readings \in [1..2 -> Temps \cup {None}], Temp # None,
           NEW x \in Works, NEW power \in Powers, NEW base \in Powers
    PROVE  /\ Predicted(x, power, base).power \in Powers
           /\ Predicted(x, power, base).why # "back_off"
           /\ Rising /\ Projected >= x.set => Predicted(x, power, base).power <= base
  <1> DEFINE k == Kp * (Projected - x.set)
             hold == Min(base, Max(base - k, x.floor))
  <1>1. k \in Int
    BY ErrorFacts
  <1>2. x.floor \in Powers
    BY WorkTypes, FloorFacts
  <1>3. /\ base \in Nat /\ PowerMin <= base /\ base <= PowerMax
        /\ power \in Nat
        /\ x.floor \in Nat /\ PowerMin <= x.floor /\ x.floor <= PowerMax
        /\ PowerMin \in Nat /\ PowerMax \in Nat
    BY <1>2, PowersAreNat, ConstantFacts
  <1>4. hold \in Powers /\ hold <= base /\ hold \in Nat
    <2> HIDE DEF k
    <2> QED
      BY <1>1, <1>3 DEF Max, Min, Powers
  <1> DEFINE why == IF hold >= base THEN "hold" ELSE "pull_back"
             p == Predicted(x, power, base)
  <1>5. p = IF Rising /\ Projected >= x.set /\ hold < power
            THEN [power |-> hold, why |-> why]
            ELSE [power |-> power, why |-> "none"]
    BY DEF Predicted
  <1> HIDE DEF hold, p
  <1>6. why # "back_off"
    OBVIOUS
  <1> HIDE DEF why
  <1>7. CASE Rising /\ Projected >= x.set /\ hold < power
    <2>1. p.power = hold /\ p.why = why
      BY <1>5, <1>7
    <2> QED
      BY <2>1, <1>4, <1>6 DEF p
  <1>8. CASE ~(Rising /\ Projected >= x.set /\ hold < power)
    <2>1. p.power = power /\ p.why = "none"
      BY <1>5, <1>8
    <2>2. Rising /\ Projected >= x.set => power <= hold
      BY <1>3, <1>4, <1>8
    <2>3. Rising /\ Projected >= x.set => power <= base
      BY <2>2, <1>3, <1>4
    <2> QED
      BY <2>1, <2>3 DEF p
  <1> QED
    BY <1>7, <1>8

\* What the step makes of the output: more than the power in force, and than
\* the floor, only with the supply short of the target.
LEMMA LimitedFacts ==
    ASSUME readings \in [1..2 -> Temps \cup {None}], Temp # None,
           NEW x \in Works, NEW output \in Powers, NEW base \in Powers
    PROVE  LET l == Limited(x, output, base)
           IN  /\ l.power \in Powers
               /\ ~Caps(x) /\ ~(l.power <= base) /\ l.power > x.floor =>
                    l.why # "back_off" /\ (Rising => Projected < x.set)
  <1> DEFINE asks == IF x.ctl.soft THEN SoftStartPower(x, base) ELSE output
             p == Predicted(x, asks, base)
             l == Limited(x, output, base)
  <1>1. asks \in Powers
    BY SoftStartTypes
  <1> HIDE DEF asks
  <1>2. /\ p.power \in Powers /\ p.why # "back_off"
        /\ Rising /\ Projected >= x.set => p.power <= base
    BY <1>1, PredictedFacts
  <1>3. base <= base /\ base \in Nat
    BY PowersAreNat
  <1>4. x.floor \in Powers /\ x.floor \in Nat /\ ~(x.floor > x.floor)
    BY WorkTypes, FloorFacts
  <1>5. Rising => (Projected \in Int /\ x.set \in Int)
    BY ErrorFacts
  <1>6. Rising /\ ~(Projected >= x.set) => Projected < x.set
    BY <1>5
  <1>7. \/ Caps(x) /\ l = [power |-> output, why |-> "none"]
        \/ ~Caps(x) /\ l = [power |-> x.floor, why |-> "back_off"]
        \/ ~Caps(x) /\ l = [power |-> base, why |-> "settled"]
        \/ ~Caps(x) /\ l = p
    BY DEF Limited, asks
  <1> HIDE DEF p, l
  <1>8. CASE Caps(x) /\ l = [power |-> output, why |-> "none"]
    BY <1>8 DEF l
  <1>9. CASE ~Caps(x) /\ l = [power |-> x.floor, why |-> "back_off"]
    <2>1. l.power = x.floor
      BY <1>9
    <2> QED
      BY <2>1, <1>4 DEF l
  <1>10. CASE ~Caps(x) /\ l = [power |-> base, why |-> "settled"]
    <2>1. l.power = base
      BY <1>10
    <2> QED
      BY <2>1, <1>3 DEF l
  <1>11. CASE ~Caps(x) /\ l = p
    BY <1>2, <1>6, <1>11 DEF l
  <1> QED
    BY <1>7, <1>8, <1>9, <1>10, <1>11

\* A cap forces Power Min, whatever else clamps; without demand it is the floor.
LEMMA ClampedFacts ==
    ASSUME NEW x \in Works, NEW power \in Powers
    PROVE  /\ Clamped(x, power) \in Powers
           /\ Caps(x) => Clamped(x, power) = PowerMin
           /\ ~Caps(x) => Clamped(x, power) \in {power, x.floor}
  <1>1. x.floor \in Powers
    BY WorkTypes, FloorFacts
  <1>2. x.floor \in Nat /\ PowerMin <= x.floor /\ PowerMin \in Nat /\ PowerMin \in Powers
    BY <1>1, PowersAreNat, ConstantFacts DEF Powers
  <1>3. Min(x.floor, PowerMin) = PowerMin
    BY <1>2 DEF Min
  <1> QED
    BY <1>1, <1>2, <1>3 DEF Clamped, CapClamp

(***************************************************************************)
(* Anti-windup                                                             *)
(***************************************************************************)

\* The hand-back keeps all but the soft start, the PID and what is compared
\* with; without a soft start, that is the integral before the tick.
LEMMA HandedBackFacts ==
    ASSUME readings \in [1..2 -> Temps \cup {None}], Temp # None,
           NEW x \in Works, NEW p \in Pids
    PROVE  LET h == HandedBack(x, p)
           IN  /\ h \in Works
               /\ h.pid.set_point = p.set_point
               /\ h.set = x.set
               /\ ~x.ctl.soft => ~h.ctl.soft /\ h.integral = x.pid.integral
  <1> DEFINE h == HandedBack(x, p)
             back == Base(x) - Kp * (x.set - Temp)
             c == [x.ctl EXCEPT !.soft = FALSE]
             q == [p EXCEPT !.integral = back]
             h1 == [[[[x EXCEPT !.pid = q] EXCEPT !.ctl = c]
                        EXCEPT !.integral = back] EXCEPT !.requested = Base(x)]
             h2 == [[[x EXCEPT !.pid = p]
                        EXCEPT !.integral = x.pid.integral] EXCEPT !.requested = Output(x, p.integral)]
  <1>1. Base(x) \in Powers /\ Base(x) \in Int
    BY ReferenceTypes, PowersAreNat
  <1>2. back \in Int
    BY <1>1, ErrorFacts
  <1>3. c \in Attributes
    BY WorkTypes, AttributeUpdates
  <1>4. q \in Pids /\ q.set_point = p.set_point
    <2> HIDE DEF back
    <2> QED
      BY <1>2 DEF Pids
  <1>5. x.pid.integral \in Int /\ p.integral \in Int
    BY WorkTypes DEF Pids
  <1>6. Output(x, p.integral) \in Powers
    BY <1>5, OutputTypes
  <1>7. h1 \in Works /\ h1.pid = q /\ h1.set = x.set
    <2> HIDE DEF q, c, back
    <2> QED
      BY <1>1, <1>2, <1>3, <1>4 DEF Works
  <1>8. /\ h2 \in Works /\ h2.pid = p /\ h2.set = x.set
        /\ h2.ctl = x.ctl /\ h2.integral = x.pid.integral
    BY <1>5, <1>6 DEF Works
  <1>9. \/ x.ctl.soft /\ h = h1
        \/ h = h2
    BY DEF HandedBack, Works, Attributes
  <1> HIDE DEF h, h1, h2, q
  <1> QED
    BY <1>4, <1>7, <1>8, <1>9 DEF h

\* The anti-windup keeps the set point, and gives back what the integral gained
\* while the output was held; x.integral is what it was.
LEMMA UnwoundFacts ==
    ASSUME readings \in [1..2 -> Temps \cup {None}], Temp # None,
           NEW x \in Works, NEW p \in Pids, NEW limited, NEW power \in Powers
    PROVE  LET u == Unwound(x, p, limited, power)
           IN  /\ u \in Pids /\ u.set_point = p.set_point
               /\ ~x.ctl.soft /\ (power < x.requested \/ x.ctl.boot > 0) =>
                    u.integral <= x.integral
  <1> DEFINE u == Unwound(x, p, limited, power)
             off_rail(output) == Max(output, x.floor + 1)
             back == Output(x, x.integral)
             held == power < x.requested \/ x.ctl.boot > 0
             low == Min(Base(x), PowerMax)
             seed == Base(x) - Kp * (x.set - Temp)
             u1 == [[p EXCEPT !.integral = seed] EXCEPT !.output = off_rail(low)]
             put == IF x.set > Temp THEN off_rail(back) ELSE back
             u2 == [[p EXCEPT !.integral = x.integral] EXCEPT !.output = put]
  <1>1. /\ x.floor + 1 \in 0..PowerMax /\ x.integral \in Int /\ p.integral \in Int
        /\ PowerMax \in Nat
    BY WorkTypes, FloorFacts, ConstantFacts DEF Pids
  <1>2. \A n \in 0..PowerMax : off_rail(n) \in 0..PowerMax
    BY <1>1 DEF Max
  <1>3. back \in 0..PowerMax
    BY <1>1, OutputTypes
  <1>4. Base(x) \in Nat
    BY ReferenceTypes, PowersAreNat
  <1>5. low \in 0..PowerMax
    BY <1>1, <1>4 DEF Min
  <1>6. seed \in Int
    BY <1>4, ErrorFacts
  <1>7. u1 \in Pids /\ u1.set_point = p.set_point
    <2>1. off_rail(low) \in 0..PowerMax
      BY <1>2, <1>5
    <2> HIDE DEF low, off_rail, seed
    <2> QED
      BY <1>6, <2>1 DEF Pids
  <1>8. put \in 0..PowerMax
    BY <1>2, <1>3
  <1>9. u2 \in Pids /\ u2.set_point = p.set_point /\ u2.integral = x.integral
    <2> HIDE DEF put
    <2> QED
      BY <1>1, <1>8 DEF Pids
  <1>10. \/ x.ctl.soft /\ u = u1
         \/ u = u2
         \/ u = p /\ ~(held /\ p.integral > x.integral)
    BY DEF Unwound, Pids
  <1> HIDE DEF u, u1, u2, held
  <1>11. CASE u = u2
    BY <1>1, <1>9, <1>11 DEF u
  <1>12. CASE x.ctl.soft /\ u = u1
    BY <1>7, <1>12 DEF u
  <1>13. CASE u = p /\ ~(held /\ p.integral > x.integral)
    BY <1>1, <1>13 DEF u, held
  <1> QED
    BY <1>10, <1>11, <1>12, <1>13

(***************************************************************************)
(* A tick                                                                  *)
(***************************************************************************)

\* What a record says of the power asked for: under a cap Power Min, unless the
\* power in force is within the step of it or unknown with the probe lost, and
\* more only when nothing speaks against it.
CapWinsIn(x) ==
    /\ x.asked = None <=> x.tick.asks = "nothing"
    /\ x.tick.cap # None =>
          /\ x.tick.cap = x.floor
          /\ x.asked # None => x.asked = PowerMin
          /\ x.asked = None => IF Reference(x) = None THEN Temp = None
                               ELSE Apart(Reference(x), PowerMin) < Step

RaisesIn(x) ==
    x.tick.asks = "more" =>
        x.tick.cap = None /\ x.ctl.boot = 0 /\ (Rising => Projected < x.pid.set_point)

\* The step of the throttle is at most the step of the fallback, and less than
\* what a power is from no power.
LEMMA StepFacts ==
    ASSUME NEW x \in Works
    PROVE  /\ EffectiveStep(x) \in Nat /\ EffectiveStep(x) <= Step
           /\ Apart(PowerMin, None - PowerMax) >= EffectiveStep(x)
  <1>1. EffectiveStep(x) \in Nat /\ EffectiveStep(x) <= Step
    BY ConstantFacts, HeatLoopAssumption DEF EffectiveStep
  <1>2. 2 * Step <= PowerMax - x.floor /\ x.floor \in Nat
    BY WorkTypes, FloorFacts
  <1>3. Apart(PowerMin, None - PowerMax) = PowerMin + 100 + PowerMax
    BY ConstantFacts DEF Apart, Max, Min, None
  <1> QED
    BY <1>1, <1>2, <1>3, ConstantFacts

\* Under a cap the throttle keeps back only what is within its step.
LEMMA CapFires ==
    ASSUME NEW x \in Works, NEW why, Caps(x), ~Fires(x, PowerMin, why)
    PROVE  Reference(x) # None /\ Apart(Reference(x), PowerMin) < Step
  <1> DEFINE reference == IF Reference(x) # None THEN Reference(x) ELSE None - PowerMax
  <1>1. ~(Apart(PowerMin, reference) >= EffectiveStep(x))
    BY DEF Fires
  <1>2. Reference(x) # None
    BY <1>1, StepFacts
  <1>3. Reference(x) \in Int /\ PowerMin \in Int /\ Step \in Int
    BY <1>2, ReferenceTypes, PowersAreNat, ConstantFacts DEF Power
  <1>4. Apart(Reference(x), PowerMin) = Apart(PowerMin, Reference(x))
    BY <1>3 DEF Apart, Max, Min
  <1>5. Apart(PowerMin, Reference(x)) \in Int
    BY <1>3 DEF Apart, Max, Min
  <1> QED
    BY <1>1, <1>2, <1>3, <1>4, <1>5, StepFacts

\* The throttle is passed in a boot hold only under a cap or by the back-off.
LEMMA FiresFacts ==
    ASSUME NEW x, NEW power, NEW why, Fires(x, power, why), ~Caps(x), why # "back_off"
    PROVE  x.ctl.boot = 0
  BY DEF Fires

\* The PID's step, from the record it is given to the one it leaves.
LEMMA PidStepFacts ==
    ASSUME readings \in [1..2 -> Temps \cup {None}], Temp # None, NEW given \in Works
    PROVE  LET z == PidStep(given)
           IN  /\ z \in Works /\ CapWinsIn(z) /\ RaisesIn(z)
               /\ z.tick.held => z.pid.integral <= given.pid.integral
  <1> DEFINE p0 == Unsaturated(Calculated(given), given)
             x == HandedBack(given, p0)
             base == Base(x)
             limited == Limited(x, x.requested, base)
             power == Clamped(x, limited.power)
             p == Unwound(x, x.pid, limited, power)
             held == ~given.ctl.soft /\ (power < x.requested \/ x.ctl.boot > 0)
             starved == /\ base <= x.floor /\ 2 * (x.set - Temp) > Fine
                        /\ Kp * (x.set - Temp) < PowerMax - x.floor
                        /\ ~Caps(x) /\ ~Stagnant(x) /\ ~Rising
             cap == Capped(x)
             t == [NoTick EXCEPT !.cap = cap, !.held = held, !.starved = starved]
             y == [Rests(x) EXCEPT !.pid = p, !.tick = t]
             backs_off == limited.why = "back_off" /\ Reference(x) # None /\ power < Reference(x)
             soft == x.ctl.soft \/ (backs_off /\ Apart(power, Reference(x)) >= EffectiveStep(x))
             w == [y EXCEPT !.ctl = [x.ctl EXCEPT !.soft = soft]]
             z == PidStep(given)
  <1>1. p0 \in Pids /\ p0.set_point = given.set
    BY CalculatedTypes, UnsaturatedTypes
  <1>2. /\ x \in Works /\ x.pid.set_point = x.set
        /\ ~given.ctl.soft => ~x.ctl.soft /\ x.integral = given.pid.integral
    <2> HIDE DEF p0
    <2> QED
      BY <1>1, HandedBackFacts
  <1> HIDE DEF p0, x
  <1>3. /\ x.pid \in Pids /\ x.ctl \in Attributes /\ x.requested \in Powers
        /\ x.ctl.soft \in BOOLEAN /\ x.floor \in Powers
    BY <1>2, WorkTypes, FloorFacts
  <1>4. base \in Powers
    BY <1>2, ReferenceTypes
  <1> HIDE DEF base
  <1>5. /\ limited.power \in Powers
        /\ ~Caps(x) /\ ~(limited.power <= base) /\ limited.power > x.floor =>
             limited.why # "back_off" /\ (Rising => Projected < x.set)
    BY <1>2, <1>3, <1>4, LimitedFacts
  <1> HIDE DEF limited
  <1>6. /\ power \in Powers
        /\ Caps(x) => power = PowerMin
        /\ ~Caps(x) => power \in {limited.power, x.floor}
    BY <1>2, <1>5, ClampedFacts
  <1> HIDE DEF power
  <1>7. /\ p \in Pids /\ p.set_point = x.set
        /\ held => p.integral <= given.pid.integral
    BY <1>2, <1>3, <1>6, UnwoundFacts
  <1> HIDE DEF p
  <1>8. held \in BOOLEAN /\ starved \in BOOLEAN
    BY DEF Rising
  <1> HIDE DEF held, starved
  <1>8a. cap \in Floors \cup {None} /\ (Caps(x) <=> cap # None) /\ (Caps(x) => cap = x.floor)
    BY <1>2, CappedTypes
  <1> HIDE DEF cap
  <1>9. /\ t \in Ticks /\ t.asks = "nothing" /\ t.held = held /\ t.cap = cap
    BY <1>8, <1>8a DEF NoTick, Ticks
  <1> HIDE DEF t
  <1>10. /\ y \in Works /\ y.pid = p /\ y.tick = t /\ y.ctl = x.ctl /\ y.asked = None
         /\ y.set = x.set /\ y.floor = x.floor /\ y.chip = x.chip
    BY <1>2, <1>7, <1>9, RestsTypes DEF Works
  <1> HIDE DEF y
  <1>11. soft \in BOOLEAN
    BY <1>3
  <1> HIDE DEF soft
  <1>12. [x.ctl EXCEPT !.soft = soft] \in Attributes /\ [x.ctl EXCEPT !.soft = soft].boot = x.ctl.boot
    BY <1>3, <1>11 DEF Attributes
  <1>13. /\ w \in Works /\ w.pid = p /\ w.tick = t /\ w.ctl.boot = x.ctl.boot
         /\ w.floor = x.floor /\ w.chip = x.chip
    BY <1>10, <1>12 DEF Works
  <1> HIDE DEF w
  <1>14. z = IF ~Fires(x, power, limited.why) THEN y ELSE Asks(w, base, power)
    <2>1. [y EXCEPT !.ctl.soft = @ \/ (backs_off /\ Apart(power, Reference(x)) >= EffectiveStep(x))] = w
      BY <1>10, <1>3 DEF w, soft, Works
    <2> QED
      BY <2>1 DEF PidStep, x, base, limited, power, p, p0, held, starved, cap, t, y
  <1> HIDE DEF z
  <1>15. CASE ~Fires(x, power, limited.why)
    <2>1. z = y
      BY <1>14, <1>15
    <2> QED
      <3>1. RaisesIn(z) /\ (z.tick.held => z.pid.integral <= given.pid.integral)
        BY <2>1, <1>7, <1>9, <1>10 DEF RaisesIn
      <3>2. Reference(z) = Reference(x)
        BY <2>1, <1>10 DEF Reference
      <3>3. z.tick.cap # None =>
              Reference(x) # None /\ Apart(Reference(x), PowerMin) < Step
        <4>1. z.tick.cap # None => Caps(x)
          BY <2>1, <1>8a, <1>9, <1>10
        <4> QED
          BY <4>1, <1>2, <1>6, <1>15, CapFires
      <3>4. /\ z.asked = None /\ z.tick.asks = "nothing" /\ z.floor = x.floor
            /\ z.tick.cap # None => z.tick.cap = x.floor
        BY <2>1, <1>8a, <1>9, <1>10
      <3>5. CapWinsIn(z)
        BY <3>2, <3>3, <3>4 DEF CapWinsIn
      <3> QED
        BY <3>1, <3>5, <2>1, <1>10 DEF z
  <1>16. CASE Fires(x, power, limited.why)
    <2>1. z = Asks(w, base, power)
      BY <1>14, <1>16
    <2>2. base \in Power
      BY <1>4, PowersAreNat
    <2>3. power # None
      BY <1>6, PowersAreNat
    <2>4. /\ z \in Works /\ z.pid = p /\ z.ctl = w.ctl /\ z.asked = power /\ z.floor = x.floor
          /\ z.tick.held = held /\ z.tick.cap = cap /\ z.tick.asks # "nothing"
          /\ z.tick.asks = "more" => ~(power <= base) /\ power > x.floor
      BY <1>6, <1>9, <1>13, <2>1, <2>2, AsksFacts
    <2>5. CapWinsIn(z)
      BY <1>6, <1>8a, <2>3, <2>4 DEF CapWinsIn
    <2>6. ASSUME z.tick.asks = "more"
          PROVE  z.tick.cap = None /\ z.ctl.boot = 0 /\ (Rising => Projected < z.pid.set_point)
      <3>1. ~(power <= base) /\ power > x.floor
        BY <2>4, <2>6
      <3>2. ~Caps(x)
        <4>1. ~(PowerMin > x.floor)
          BY <1>3, PowersAreNat, ConstantFacts
        <4> QED
          BY <1>6, <3>1, <4>1
      <3>3. power = limited.power
        <4>1. ~(x.floor > x.floor)
          BY <1>3, PowersAreNat
        <4> QED
          BY <1>6, <3>1, <3>2, <4>1
      <3>4. limited.why # "back_off" /\ (Rising => Projected < x.set)
        BY <1>5, <3>1, <3>2, <3>3
      <3>5. x.ctl.boot = 0
        BY <1>16, <3>2, <3>4, FiresFacts
      <3> QED
        BY <1>7, <1>8a, <1>13, <2>4, <3>2, <3>4, <3>5
    <2> QED
      BY <1>7, <2>4, <2>5, <2>6 DEF RaisesIn, z
  <1> QED
    BY <1>15, <1>16

\* The open loop, with the probe gone: nothing rises that is not read.
LEMMA FallbackFacts ==
    ASSUME readings \in [1..2 -> Temps \cup {None}], Temp = None, NEW given \in Works
    PROVE  LET z == FallbackStep(given)
           IN  z \in Works /\ CapWinsIn(z) /\ RaisesIn(z) /\ ~z.tick.held
  <1> DEFINE x == [given EXCEPT !.ctl.fallback = TRUE]
             reference == Reference(x)
             wanted == IF Idle(x) THEN x.floor ELSE x.curve
             asks == IF wanted # None THEN wanted ELSE reference
             power == IF Caps(x) THEN CapClamp ELSE Within(asks, x.floor, PowerMax)
             cap == Capped(x)
             rests == [Rests(x) EXCEPT !.tick.cap = cap]
             passes == \/ reference = None
                       \/ /\ Apart(power, reference) >= Step
                          /\ x.ctl.age >= Interval(x, power, reference) \/ Caps(x)
             z == FallbackStep(given)
  <1>1. x \in Works
    <2>1. given.ctl \in Attributes
      BY WorkTypes
    <2>2. [given.ctl EXCEPT !.fallback = TRUE] \in Attributes
      BY <2>1, AttributeUpdates
    <2>3. x = [given EXCEPT !.ctl = [given.ctl EXCEPT !.fallback = TRUE]]
      BY DEF Works
    <2> QED
      BY <2>2, <2>3, WorkUpdates
  <1> HIDE DEF x
  <1>2. reference \in Power
    BY <1>1, ReferenceTypes
  <1> HIDE DEF reference
  <1>3. x.floor \in Floors /\ x.floor \in Power
    BY <1>1, WorkTypes, FloorFacts, PowersAreNat
  <1>4. wanted \in Power
    BY <1>1, <1>3, WorkTypes
  <1> HIDE DEF wanted
  <1>5. asks \in Power
    BY <1>2, <1>4
  <1>6. wanted # None \/ reference # None => asks # None
    OBVIOUS
  <1> HIDE DEF asks
  <1>7. cap \in Floors \cup {None} /\ (Caps(x) <=> cap # None) /\ (Caps(x) => cap = x.floor)
    BY <1>1, CappedTypes
  <1> HIDE DEF cap
  <1>8. /\ rests \in Works /\ rests.ctl = x.ctl /\ rests.floor = x.floor /\ rests.asked = None
        /\ rests.tick.cap = cap /\ rests.tick.asks = "nothing" /\ ~rests.tick.held
    <2> DEFINE t == [NoTick EXCEPT !.cap = cap]
    <2>1. t \in Ticks /\ t.cap = cap /\ t.asks = "nothing" /\ ~t.held
      BY <1>7 DEF NoTick, Ticks
    <2>2. /\ Rests(x) \in Works /\ Rests(x).tick = NoTick /\ Rests(x).ctl = x.ctl
          /\ Rests(x).floor = x.floor /\ Rests(x).asked = None
      BY <1>1, RestsTypes
    <2>3. rests = [Rests(x) EXCEPT !.tick = t]
      BY <2>2 DEF Works
    <2> HIDE DEF t, rests
    <2>4. rests \in Works
      BY <2>1, <2>2, <2>3, WorkUpdates
    <2> QED
      BY <2>1, <2>2, <2>3, <2>4 DEF Works
  <1>9. ~Rising
    BY SupplyFacts
  <1>10. z = IF /\ wanted # None \/ reference # None
                /\ passes /\ (x.ctl.boot = 0 \/ Caps(x))
             THEN Asks(rests, reference, power) ELSE rests
    BY DEF FallbackStep, x, reference, wanted, asks, cap
  <1> HIDE DEF z, rests
  <1>11. CASE /\ z = rests
              /\ Caps(x) => ~(wanted # None \/ reference # None) \/ ~passes
    <2>1. RaisesIn(z) /\ ~z.tick.held
      BY <1>8, <1>11 DEF RaisesIn
    <2>2. Reference(z) = reference
      BY <1>8, <1>11 DEF Reference, reference
    <2>3. ASSUME Caps(x), reference # None PROVE Apart(reference, PowerMin) < Step
      <3>1. ~(Apart(PowerMin, reference) >= Step)
        BY <1>11, <2>3 DEF CapClamp
      <3>2. reference \in Int /\ PowerMin \in Int /\ Step \in Int
        BY <1>2, <2>3, PowersAreNat, ConstantFacts DEF Power
      <3> QED
        BY <3>1, <3>2 DEF Apart, Max, Min
    <2>4. /\ z.asked = None /\ z.tick.asks = "nothing" /\ z.floor = x.floor
          /\ z.tick.cap # None => Caps(x) /\ z.tick.cap = x.floor
      BY <1>7, <1>8, <1>11
    <2>5. CapWinsIn(z)
      BY <2>2, <2>3, <2>4 DEF CapWinsIn
    <2> QED
      BY <1>8, <1>11, <2>1, <2>5 DEF z
  <1>12. CASE /\ z = Asks(rests, reference, power)
              /\ wanted # None \/ reference # None
              /\ x.ctl.boot = 0 \/ Caps(x)
    <2>1. asks \in Int
      BY <1>5, <1>6, <1>12, PowersAreNat DEF Power
    <2>2. Within(asks, x.floor, PowerMax) \in Powers
      BY <1>3, <2>1, WithinPowers
    <2>3. PowerMin \in Powers
      BY ConstantFacts DEF Powers
    <2>4. power \in Powers /\ (Caps(x) => power = PowerMin)
      BY <2>2, <2>3 DEF CapClamp
    <2> HIDE DEF power
    <2>5. power # None /\ ~(PowerMin > x.floor)
      BY <1>3, <2>4, PowersAreNat, FloorFacts, ConstantFacts
    <2>6. /\ z \in Works /\ z.ctl = x.ctl /\ z.asked = power /\ z.floor = x.floor
          /\ z.tick.held = rests.tick.held /\ z.tick.cap = cap /\ z.tick.asks # "nothing"
          /\ z.tick.asks = "more" => power > x.floor
      BY <1>2, <1>8, <1>12, <2>4, AsksFacts
    <2>7. CapWinsIn(z)
      BY <1>7, <2>4, <2>5, <2>6 DEF CapWinsIn
    <2>8. ASSUME z.tick.asks = "more"
          PROVE  z.tick.cap = None /\ z.ctl.boot = 0
      <3>1. ~Caps(x)
        BY <2>4, <2>5, <2>6, <2>8
      <3> QED
        BY <1>7, <1>12, <2>6, <3>1
    <2>9. RaisesIn(z)
      BY <1>9, <2>8 DEF RaisesIn
    <2> QED
      BY <1>8, <2>6, <2>7, <2>9 DEF z
  <1> QED
    BY <1>10, <1>11, <1>12

\* A control step on the record it is given.
LEMMA ControlFacts ==
    ASSUME readings \in [1..2 -> Temps \cup {None}], NEW x \in Works
    PROVE  LET z == ControlStep(x)
           IN  /\ z \in Works /\ CapWinsIn(z) /\ RaisesIn(z)
               /\ z.tick.held /\ ~x.ctl.fallback => z.pid.integral <= x.pid.integral
  <1>1. CASE Temp = None
    BY <1>1, FallbackFacts DEF ControlStep
  <1>2. CASE Temp # None
    <2> DEFINE r == Resumed(x)
    <2>1. r \in Works
      BY ResumedTypes
    <2>2. ~x.ctl.fallback => r = x
      BY DEF Resumed
    <2>3. ControlStep(x) = PidStep(r)
      BY <1>2 DEF ControlStep
    <2> HIDE DEF r
    <2> QED
      BY <1>2, <2>1, <2>2, <2>3, PidStepFacts
  <1> QED
    BY <1>1, <1>2

(***************************************************************************)
(* The steps                                                               *)
(***************************************************************************)

\* A poll begins with the state and what it is given.
LEMMA GivenTypes ==
    ASSUME TypeOK, NEW input \in Inputs
    PROVE  /\ Given(input) \in Works
           /\ Given(input).pid = pid /\ Given(input).ctl = ctl
  <1>1. pid \in Pids /\ ctl \in Attributes /\ tick \in Ticks
    BY TypesAre
  <1>2. None \in Power /\ PowerMax \in Power /\ PowerMin \in Powers
    BY ConstantFacts DEF Power, Powers
  <1>3. /\ input.set \in Targets /\ input.floor \in Floors /\ input.demand \in Demands
        /\ input.chip \in BOOLEAN /\ input.curve \in Power
    BY <1>2 DEF Inputs
  <1> QED
    BY <1>1, <1>2, <1>3 DEF Given, Works

\* What a poll leaves, as a limit, as an operating power or unsent, is what the
\* record of its tick says.
LEMMA Becoming ==
    ASSUME TypeOK, UNCHANGED readings, due' \in BOOLEAN,
           NEW x \in Works, CapWinsIn(x), RaisesIn(x),
           (Becomes(x) /\ x.asked = None) \/ Commands(x)
    PROVE  TypeOK' /\ CapWins' /\ NoRaiseIntoHeat' /\ pid' = x.pid /\ tick' = x.tick
  <1>1. /\ x.pid \in Pids /\ x.ctl \in Attributes /\ x.tick \in Ticks
        /\ x.floor \in Floors /\ x.asked \in Power
    BY WorkTypes
  <1>2. /\ pid' = x.pid /\ tick' = x.tick /\ ctl' \in Attributes
        /\ ctl'.boot = x.ctl.boot
    <2>1. CASE Becomes(x)
      BY <1>1, <2>1 DEF Becomes
    <2>2. CASE Commands(x) /\ x.asked # None
      <3> DEFINE power == Within(x.asked, x.floor, PowerMax)
                 c == [x.ctl EXCEPT !.target = power, !.commanded = power, !.age = 0]
      <3>1. x.asked \in Int
        BY <1>1, <2>2, PowersAreNat DEF Power
      <3>2. power \in Power
        BY <1>1, <3>1, WithinPowers, PowersAreNat
      <3> HIDE DEF power
      <3>3. 0 \in 0..Decrease /\ 0 \in 0..Spacing
        BY ConstantFacts
      <3>4. /\ c \in Attributes /\ c.boot = x.ctl.boot
            /\ [c EXCEPT !.limit_age = 0] \in Attributes
            /\ [c EXCEPT !.limit_age = 0].boot = x.ctl.boot
        BY <1>1, <3>2, <3>3 DEF Attributes
      <3>5. /\ SentAsPower(x, power).pid = x.pid /\ SentAsPower(x, power).tick = x.tick
            /\ SentAsPower(x, power).ctl = c
        BY DEF SentAsPower, Works
      <3>6. SentAsPower(x, power) \in Works
        BY <3>4, WorkUpdates DEF SentAsPower
      <3>7. /\ SentAsLimit(x, power).pid = x.pid /\ SentAsLimit(x, power).tick = x.tick
            /\ SentAsLimit(x, power).ctl = [c EXCEPT !.limit_age = 0]
        <4> HIDE DEF c
        <4> QED
          BY <3>5, <3>6 DEF SentAsLimit, Works
      <3> HIDE DEF c
      <3>8. Becomes(SentAsPower(x, power)) \/ Becomes(SentAsLimit(x, power))
        BY <2>2 DEF Commands, power
      <3> QED
        BY <3>4, <3>5, <3>7, <3>8 DEF Becomes
    <2> QED
      BY <2>1, <2>2 DEF Commands
  <1>3. readings' = readings /\ readings \in [1..2 -> Temps \cup {None}]
    BY TypesAre
  <1>4. TypeOK'
    BY <1>1, <1>2, <1>3 DEF TypeOK, Pids, Attributes, Ticks
  <1>5. CapWins'
    <2>1. CASE Becomes(x) /\ x.asked = None
      <3>1. Reference([ctl |-> ctl])' = Reference(x) /\ tick' = x.tick /\ Temp' = Temp
        BY <1>3, <2>1 DEF Becomes, Reference, Temp
      <3> QED
        BY <1>4, <2>1, <3>1 DEF CapWins, CapWinsIn
    <2>2. CASE x.asked # None /\ x.tick.cap = None
      BY <1>2, <1>4, <2>2 DEF CapWins
    <2>3. CASE x.asked # None /\ x.tick.cap # None /\ Commands(x)
      <3> DEFINE power == Within(x.asked, x.floor, PowerMax)
      <3>1. x.asked = PowerMin /\ x.tick.cap = x.floor
        BY <2>3 DEF CapWinsIn
      <3>2. x.floor # None /\ x.floor \in Int /\ PowerMin <= x.floor /\ x.floor <= PowerMax
            /\ PowerMin \in Int /\ PowerMax \in Int
        BY <1>1, FloorFacts, PowersAreNat, ConstantFacts
      <3>3. power = x.floor
        BY <3>1, <3>2 DEF Within, Max, Min
      <3> HIDE DEF power
      <3>4. ctl'.commanded = power
        BY <2>3 DEF Commands, Becomes, SentAsLimit, SentAsPower, Works, Attributes, power
      <3>5. Reference([ctl |-> ctl])' = x.floor
        BY <3>2, <3>3, <3>4 DEF Reference
      <3> QED
        BY <1>2, <1>4, <3>1, <3>5 DEF CapWins
    <2> QED
      BY <2>1, <2>2, <2>3 DEF Commands
  <1>6. Rising' = Rising /\ Projected' = Projected
    BY <1>3 DEF Rising, Projected, Slope, Temp
  <1>7. NoRaiseIntoHeat'
    BY <1>2, <1>6 DEF NoRaiseIntoHeat, RaisesIn
  <1> QED
    BY <1>2, <1>4, <1>5, <1>7

\* A poll of a miner that mines.
LEMMA MiningPolls ==
    ASSUME TypeOK, UNCHANGED readings, due' \in BOOLEAN, PollMining
    PROVE  /\ TypeOK' /\ CapWins' /\ NoRaiseIntoHeat'
           /\ tick'.held /\ ctl.mining = "yes" /\ ~ctl.fallback => pid'.integral <= pid.integral
  <1>1. PICK input \in Inputs, flag \in BOOLEAN : Polled(Edge(Given(input), flag))
    BY DEF PollMining
  <1> DEFINE g == Given(input)
             x == Edge(g, flag)
  <1>2. readings \in [1..2 -> Temps \cup {None}]
    BY TypesAre
  <1>3. g \in Works /\ g.pid = pid /\ g.ctl = ctl
    BY GivenTypes
  <1> HIDE DEF g
  <1>4. x \in Works
    BY <1>2, <1>3, EdgeTypes
  <1>5. ctl.mining = "yes" => x = g
    BY <1>3 DEF Edge
  <1>6. Polled(x)
    BY <1>1 DEF g
  <1> HIDE DEF x
  <1>7. CASE Becomes(Rests(x))
    <2>1. /\ Rests(x) \in Works /\ CapWinsIn(Rests(x)) /\ RaisesIn(Rests(x))
          /\ ~Rests(x).tick.held /\ Rests(x).asked = None
      BY <1>4, RestsTypes DEF NoTick, CapWinsIn, RaisesIn
    <2> QED
      BY <1>7, <2>1, Becoming
  <1>8. CASE Commands(ControlStep(x))
    <2> DEFINE z == ControlStep(x)
    <2>1. /\ z \in Works /\ CapWinsIn(z) /\ RaisesIn(z)
          /\ z.tick.held /\ ~x.ctl.fallback => z.pid.integral <= x.pid.integral
      BY <1>2, <1>4, ControlFacts
    <2> HIDE DEF z
    <2>2. TypeOK' /\ CapWins' /\ NoRaiseIntoHeat' /\ pid' = z.pid /\ tick' = z.tick
      BY <1>8, <2>1, Becoming DEF z
    <2> QED
      BY <1>3, <1>5, <2>1, <2>2
  <1> QED
    BY <1>6, <1>7, <1>8 DEF Polled

\* Every other step asks for nothing.
LEMMA OtherSteps ==
    ASSUME TypeOK,
           \/ Passes \/ StopOrResume \/ MiningControlOn \/ Reload
           \/ PollStopped /\ UNCHANGED readings /\ due' \in BOOLEAN
    PROVE  TypeOK' /\ tick' = NoTick
  <1>1. /\ readings \in [1..2 -> Temps \cup {None}] /\ pid \in Pids /\ ctl \in Attributes
        /\ due \in BOOLEAN /\ tick \in Ticks
    BY TypesAre
  <1>2. NoTick \in Ticks
    BY DEF NoTick, Ticks
  <1>3. /\ None \in Power /\ 0 \in 0..Decrease /\ 0 \in 0..BootHold /\ BootHold \in 0..BootHold
        /\ Decrease \in 0..Decrease /\ Spacing \in 0..Spacing /\ 0 \in 0..PowerMax
    BY ConstantFacts DEF Power
  <1>4. ctl.boot \in 0..BootHold /\ ctl.age \in 0..Decrease /\ ctl.limit_age \in 0..Spacing
    BY <1>1 DEF Attributes
  <1>5. SUFFICES /\ readings' \in [1..2 -> Temps \cup {None}] /\ pid' \in Pids
                 /\ ctl' \in Attributes /\ due' \in BOOLEAN /\ tick' = NoTick
    BY <1>2 DEF TypeOK, Pids, Attributes, Ticks
  <1>6. CASE Passes
    <2>1. readings' \in [1..2 -> Temps \cup {None}]
      BY <1>1, <1>6, NotedType DEF Passes
    <2>2. /\ Max(ctl.boot - 1, 0) \in 0..BootHold /\ Older(ctl.age, Decrease) \in 0..Decrease
          /\ Older(ctl.limit_age, Spacing) \in 0..Spacing
      BY <1>4, ConstantFacts DEF Max, Min, Older
    <2>3. ctl' = [ctl EXCEPT !.boot = Max(ctl.boot - 1, 0), !.age = Older(ctl.age, Decrease),
                             !.limit_age = Older(ctl.limit_age, Spacing)]
      BY <1>6 DEF Passes
    <2>4. ctl' \in Attributes
      BY <1>1, <2>2, <2>3 DEF Attributes
    <2> QED
      BY <1>1, <1>6, <2>1, <2>4 DEF Passes
  <1>7. CASE StopOrResume
    <2>1. PICK boot \in 0..BootHold : ctl' = [ctl EXCEPT !.commanded = None, !.age = 0, !.boot = boot]
      BY <1>3, <1>4, <1>7 DEF StopOrResume
    <2>2. ctl' \in Attributes
      BY <1>1, <1>3, <2>1 DEF Attributes
    <2> QED
      BY <1>1, <1>7, <2>2 DEF StopOrResume
  <1>8. CASE MiningControlOn
    <2>1. ctl' \in Attributes
      BY <1>1, <1>3, <1>8 DEF MiningControlOn, Attributes
    <2> QED
      BY <1>1, <1>8, <2>1 DEF MiningControlOn
  <1>9. CASE Reload
    <2>1. ctl.target \in Power
      BY <1>1 DEF Attributes
    <2>2. Controller(ctl.target) \in Attributes
      BY <1>3, <2>1 DEF Controller, Attributes
    <2>3. NewPid \in Pids
      BY <1>3 DEF NewPid, Pids
    <2>4. Unread \in [1..2 -> Temps \cup {None}]
      BY DEF Unread
    <2> QED
      BY <1>9, <2>2, <2>3, <2>4 DEF Reload
  <1>10. CASE PollStopped /\ UNCHANGED readings /\ due' \in BOOLEAN
    <2> DEFINE x == [pid |-> pid, ctl |-> ctl]
               stopped == [ctl EXCEPT !.mining = "no"]
               lost == [ctl EXCEPT !.mining = "no", !.commanded = None, !.age = Decrease, !.soft = FALSE]
               zero == [pid EXCEPT !.integral = 0]
    <2>1. stopped \in Attributes /\ lost \in Attributes
      BY <1>1, <1>3 DEF Attributes
    <2>2. zero \in Pids
      BY <1>1, PidUpdates
    <2>3. /\ Stops(x).pid = zero /\ Stops(x).ctl \in {stopped, lost}
          /\ [x EXCEPT !.ctl.mining = "no"].pid = pid
          /\ [x EXCEPT !.ctl.mining = "no"].ctl = stopped
      BY DEF Stops
    <2>4. pid' \in {pid, zero} /\ ctl' \in {stopped, lost} /\ tick' = NoTick
      BY <1>10, <2>3 DEF PollStopped
    <2> QED
      BY <1>1, <1>10, <2>1, <2>2, <2>4
  <1> QED
    BY <1>6, <1>7, <1>8, <1>9, <1>10

\* One step of the loop.
LEMMA LoopSteps ==
    ASSUME TypeOK, Next
    PROVE  /\ TypeOK' /\ CapWins' /\ NoRaiseIntoHeat'
           /\ tick'.held /\ ctl.mining = "yes" /\ ~ctl.fallback => pid'.integral <= pid.integral
  <1>1. CASE Poll /\ PollMining
    BY <1>1, MiningPolls DEF Poll
  <1>2. CASE ~(Poll /\ PollMining)
    <2>1. TypeOK' /\ tick' = NoTick
      BY <1>2, OtherSteps DEF Next, Poll
    <2> QED
      BY <2>1 DEF CapWins, NoRaiseIntoHeat, NoTick
  <1> QED
    BY <1>1, <1>2

\* The loop begins with nothing asked for.
LEMMA LoopInit == Init => TypeOK /\ CapWins /\ NoRaiseIntoHeat
  <1> SUFFICES ASSUME Init PROVE TypeOK /\ CapWins /\ NoRaiseIntoHeat
    OBVIOUS
  <1>1. None \in Power /\ Decrease \in 0..Decrease /\ Spacing \in 0..Spacing /\ 0 \in 0..BootHold
        /\ 0 \in 0..PowerMax
    BY ConstantFacts DEF Power
  <1>2. Controller(None) \in Attributes /\ NewPid \in Pids /\ NoTick \in Ticks
        /\ Unread \in [1..2 -> Temps \cup {None}]
    BY <1>1 DEF Controller, Attributes, NewPid, Pids, NoTick, Ticks, Unread
  <1>3. TypeOK
    BY <1>2, TypesAre DEF Init
  <1> QED
    BY <1>3 DEF Init, CapWins, NoRaiseIntoHeat, NoTick

(***************************************************************************)
(* Theorems                                                                *)
(***************************************************************************)

\* The reachable states have their types.
LEMMA LoopTypes == Spec => []TypeOK
  <1>1. Init => TypeOK
    BY LoopInit
  <1>2. TypeOK /\ [Next]_vars => TypeOK'
    <2> SUFFICES ASSUME TypeOK, [Next]_vars PROVE TypeOK'
      OBVIOUS
    <2>1. CASE Next
      BY <2>1, LoopSteps
    <2>2. CASE UNCHANGED vars
      BY <2>2 DEF vars, TypeOK
    <2> QED
      BY <2>1, <2>2
  <1> QED
    BY <1>1, <1>2, PTL DEF Spec

\* Whatever throttle, boot hold, soft start, thermostats, dwell or fallback want,
\* a safety cap leaves the power in force at the crash floor, within the step of
\* Power Min, or unknown with the probe lost and nothing commanded.
THEOREM CapAlwaysWins == Spec => []CapWins
  <1>1. Init => CapWins
    BY LoopInit
  <1>2. CapWins /\ [Next]_vars => CapWins'
    <2> SUFFICES ASSUME CapWins, [Next]_vars PROVE CapWins'
      OBVIOUS
    <2>1. CASE Next
      BY <2>1, LoopSteps DEF CapWins
    <2>2. CASE UNCHANGED vars
      BY <2>2 DEF vars, CapWins, TypeOK, Reference, Temp
    <2> QED
      BY <2>1, <2>2
  <1> QED
    BY <1>1, <1>2, PTL DEF Spec

\* No path of the tick, the soft start, the hand-back, the settled hold and the
\* fallback included, asks for more while the supply rises to or past its target
\* within the horizon, under a cap or during the boot hold.
THEOREM NoneRaisesIntoHeat == Spec => []NoRaiseIntoHeat
  <1>1. Init => NoRaiseIntoHeat
    BY LoopInit
  <1>2. TypeOK /\ NoRaiseIntoHeat /\ [Next]_vars => NoRaiseIntoHeat'
    <2> SUFFICES ASSUME TypeOK, NoRaiseIntoHeat, [Next]_vars PROVE NoRaiseIntoHeat'
      OBVIOUS
    <2>1. CASE Next
      BY <2>1, LoopSteps
    <2>2. CASE UNCHANGED vars
      BY <2>2 DEF vars, NoRaiseIntoHeat, Rising, Projected, Slope, Temp
    <2> QED
      BY <2>1, <2>2
  <1> QED
    BY <1>1, <1>2, LoopTypes, PTL DEF Spec

\* A tick whose output is held below what the PID asks for leaves the integral
\* where it was or lower, whichever of the clamps and hand-backs it passes.
THEOREM HeldLoopsDoNotWindUp == Spec => HeldLoopKeepsIntegral
  <1>1. TypeOK /\ [Next]_vars =>
          [tick'.held /\ ctl.mining = "yes" /\ ~ctl.fallback => pid'.integral <= pid.integral]_vars
    BY LoopSteps
  <1> QED
    BY <1>1, LoopTypes, PTL DEF Spec, HeldLoopKeepsIntegral
=============================================================================
