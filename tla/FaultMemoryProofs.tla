-------------------------- MODULE FaultMemoryProofs --------------------------
(***************************************************************************)
(* Proofs about the fault memory, for any power range, margins, durations  *)
(* and numbers of events: there is always a power to command; neither a    *)
(* poll nor a command credits a hold with the run before a fault, or with  *)
(* one the miner did not hash through; and a restart of ours is no crash.  *)
(* Every operator that takes the attributes to what they become is shown   *)
(* to keep their types and what a fault leaves behind, then what a credit  *)
(* and a crash rest on; the steps are compositions of them.                *)
(***************************************************************************)
EXTENDS FaultMemory, TLAPS

\* A fault of age a denies the hold and the proof of c what is older than it.
Denies(c, a) ==
    /\ c.tainted \/ c.hold_since = None \/ c.hold_since <= a
    /\ a < StableRun => c.proven_at = None \/ c.proven_at >= a

\* What an armed fault leaves in the attributes.
FaultKept(c) == Armed(c.fault_at) => Denies(c, c.fault_at)

\* No untainted hold has begun before the last fault evidence.
HoldKept == ctl.tainted \/ ctl.hold_since = None \/ ctl.hold_since <= past.clean

FaultInv == TypeOK /\ FaultKept(ctl) /\ HoldKept

----------------------------------------------------------------------------
(* The operators, one after the other *)

\* The record of a pending regression, and none when there is none.
Regressing(c) == c.before = None => ~c.ours /\ ~c.short /\ c.regression_power = None

\* A hold that has lasted a full run without fault evidence.
HeldFull(c) == ~c.tainted /\ c.hold_since # None /\ c.hold_since >= StableRun

\* d comes of c without fault evidence: a hold goes on or begins anew, stays
\* tainted, and is credited or its proof refreshed only after a full run.
Keeps(c, d) ==
    /\ d \in Memory /\ (Regressing(c) => Regressing(d))
    /\ d.fault_at = c.fault_at /\ d.fault_power = c.fault_power
    /\ c.tainted => d.tainted
    /\ d.hold_since \in {c.hold_since, 0, None}
    /\ \/ d.proven_max = c.proven_max /\ d.proven_at = c.proven_at
       \/ HeldFull(c) /\ d.proven_at = 0

\* d comes of c with fault evidence, if any: it leaves the hold and the proof.
Faults(c, d) ==
    /\ d \in Memory /\ (Regressing(c) => Regressing(d))
    /\ d.hold_since = c.hold_since /\ d.proven_max = c.proven_max /\ d.proven_at = c.proven_at
    /\ \/ d.fault_at = c.fault_at /\ d.fault_power = c.fault_power /\ d.tainted = c.tainted
       \/ d.fault_at = 0 /\ d.tainted

\* The durations and powers there are.
LEMMA Sizes ==
    /\ PowerMin \in Nat \ {0} /\ PowerMax \in Nat /\ PowerMin <= PowerMax
    /\ CrashStep \in Nat /\ ProvenMargin \in Nat /\ DerateDelta \in Nat /\ DeratePolls \in Nat
    /\ StableRun \in Nat \ {0} /\ FaultTTL \in Nat \ {0} /\ ProvenRefresh \in Nat \ {0}
    /\ BootHold \in Nat \ {0} /\ DeratePostWrite \in Nat \ {0} /\ DerateMin \in Nat \ {0}
    /\ BootTime \in Nat /\ MaxUptime \in Nat /\ MaxSilence \in Nat /\ MaxEvents \in Nat
  BY FaultAssumption

\* An age begins with 0, and an unknown one is no number.
LEMMA Ages ==
    ASSUME NEW h \in Nat
    PROVE  /\ 0 \in Age(h) /\ None \in Age(h) /\ None \notin Nat
           /\ \A a \in Age(h) : a = None \/ (a \in Nat /\ a <= h)
  BY DEF Age, None

\* The power in force is a power, or not known.
LEMMA InForce ==
    ASSUME NEW c \in Memory, NEW r \in Powers
    PROVE  PowerInForce(c, r) \in Powers /\ LimitInForce(c, r) \in Powers
  BY DEF Memory, Power, PowerInForce, LimitInForce, Known

\* Two operators without fault evidence, one after the other, are one.
LEMMA KeepsAlong ==
    ASSUME NEW c \in Memory, NEW d \in Memory, NEW e \in Memory, Keeps(c, d), Keeps(d, e)
    PROVE  Keeps(c, e)
  <1>1. HeldFull(d) => HeldFull(c)
    <2>1. ~(0 >= StableRun)
      BY Sizes
    <2> QED
      BY <2>1 DEF Keeps, HeldFull
  <1>2. e.hold_since \in {c.hold_since, 0, None}
    BY DEF Keeps
  <1> QED
    BY <1>1, <1>2 DEF Keeps

\* What changes nothing brings no fault evidence.
LEMMA KeepsSame ==
    ASSUME NEW c \in Memory
    PROVE  Keeps(c, c)
  BY DEF Keeps

\* Fault evidence taints the hold.
LEMMA NotingFault ==
    ASSUME NEW c \in Memory, NEW p \in Powers
    PROVE  /\ Faults(c, NotesFault(c, p)) /\ NotesFault(c, p).tainted
           /\ NotesFault(c, p).derated = c.derated
  <1>1. 0 \in Age(FaultTTL) /\ p \in Power
    BY Ages, Sizes DEF Power
  <1>2. NotesFault(c, p) \in Memory
    BY <1>1 DEF NotesFault, Memory
  <1> QED
    BY <1>2 DEF NotesFault, Faults, Memory, Regressing

\* The hold that ends is credited only after a full run.
LEMMA Settling ==
    ASSUME NEW c \in Memory
    PROVE  /\ Keeps(c, Settled(c))
           /\ Settled(c).force = c.force /\ Settled(c).before = c.before
  <1>1. CASE c.hold_power # None /\ HoldIsProof(c) /\ c.hold_power > c.proven_max
    <2>1. Settled(c) = [c EXCEPT !.proven_max = c.hold_power, !.proven_at = 0]
      BY <1>1 DEF Settled
    <2>2. HeldFull(c)
      BY <1>1 DEF HoldIsProof, HeldFull
    <2>3. 0 \in Age(FaultTTL) /\ c.hold_power \in Power
      BY Ages, Sizes DEF Memory
    <2>4. Settled(c) \in Memory
      BY ZenonT(60), <2>1, <2>3 DEF Memory
    <2> QED
      BY <2>1, <2>2, <2>4 DEF Keeps, Memory, Regressing
  <1>2. CASE ~(c.hold_power # None /\ HoldIsProof(c) /\ c.hold_power > c.proven_max)
    BY <1>2, KeepsSame DEF Settled
  <1> QED
    BY <1>1, <1>2

\* A hold begins at age 0.
LEMMA BeginningHold ==
    ASSUME NEW c \in Memory, NEW p \in Power
    PROVE  Keeps(c, Holding(c, p))
  <1> DEFINE since == IF p = None THEN None ELSE 0
  <1>1. since \in Age(StableRun) /\ since \in {0, None}
    BY Ages, Sizes
  <1>2. Holding(c, p) = [c EXCEPT !.hold_power = p, !.hold_since = since]
    BY DEF Holding
  <1> HIDE DEF since
  <1>3. Holding(c, p) \in Memory
    BY ZenonT(60), <1>1, <1>2 DEF Memory
  <1> QED
    BY <1>1, <1>2, <1>3 DEF Keeps, Memory, Regressing

\* A hold goes on, is cut and begins anew, or is long proven and proven again.
LEMMA HoldingAt ==
    ASSUME NEW c \in Memory, NEW p \in Power
    PROVE  Keeps(c, HoldsAt(c, p))
  <1>1. CASE p = None \/ p # c.hold_power
    <2>1. Settled(c) \in Memory /\ Keeps(c, Settled(c))
      BY Settling DEF Keeps
    <2>2. Keeps(Settled(c), Holding(Settled(c), p)) /\ Holding(Settled(c), p) \in Memory
      BY <2>1, BeginningHold DEF Keeps
    <2> QED
      BY <1>1, <2>1, <2>2, KeepsAlong DEF HoldsAt
  <1>2. CASE ~(p = None \/ p # c.hold_power) /\ c.hold_since = None
    <2>1. HoldsAt(c, p) = [c EXCEPT !.hold_since = 0] /\ 0 \in Age(StableRun)
      BY <1>2, Ages, Sizes DEF HoldsAt
    <2>2. HoldsAt(c, p) \in Memory
      BY <2>1 DEF Memory
    <2> QED
      BY <2>1, <2>2 DEF Keeps, Memory, Regressing
  <1>3. CASE /\ ~(p = None \/ p # c.hold_power) /\ c.hold_since # None
             /\ p = c.proven_max /\ HoldIsProof(c)
             /\ c.proven_at = None \/ c.proven_at >= ProvenRefresh
    <2>1. HoldsAt(c, p) = [c EXCEPT !.proven_at = 0] /\ 0 \in Age(FaultTTL)
      BY <1>3, Ages, Sizes DEF HoldsAt
    <2>2. HoldsAt(c, p) \in Memory
      BY <2>1 DEF Memory
    <2>3. HeldFull(c)
      BY <1>3 DEF HoldIsProof, HeldFull
    <2> QED
      BY <2>1, <2>2, <2>3 DEF Keeps, Memory, Regressing
  <1> QED
    BY <1>1, <1>2, <1>3, KeepsSame DEF HoldsAt

\* A poll begins, goes on with or ends a hold.
LEMMA NotingHold ==
    ASSUME NEW c \in Memory, NEW mining \in BOOLEAN, NEW r \in Powers
    PROVE  Keeps(c, NotesHold(c, mining, r))
  <1>1. (IF mining THEN PowerInForce(c, r) ELSE None) \in Power
    BY InForce DEF Power
  <1> QED
    BY <1>1, HoldingAt DEF NotesHold

\* What of the attributes is neither of the hold nor of a fault or a proof.
Beside(c, d) ==
    /\ d \in Memory
    /\ d.fault_at = c.fault_at /\ d.fault_power = c.fault_power /\ d.tainted = c.tainted
    /\ d.hold_since = c.hold_since /\ d.proven_max = c.proven_max /\ d.proven_at = c.proven_at

\* What leaves the hold, the fault and the proof brings no fault evidence.
LEMMA BesideKept ==
    ASSUME NEW c \in Memory, NEW d \in Memory, Beside(c, d), Regressing(c) => Regressing(d)
    PROVE  Keeps(c, d)
  BY DEF Beside, Keeps

\* The derate candidate is beside the hold and the fault.
LEMMA ForgettingCandidate ==
    ASSUME NEW c \in Memory
    PROVE  /\ Beside(c, NoCandidate(c)) /\ (Regressing(c) => Regressing(NoCandidate(c)))
           /\ NoCandidate(c).derated = c.derated
           /\ NoCandidate(c).match_polls = c.match_polls
  <1>1. None \in Age(DerateMin) /\ 0 \in 0..DeratePolls
    BY Ages, Sizes
  <1>2. NoCandidate(c) \in Memory
    BY <1>1 DEF NoCandidate, Memory
  <1> QED
    BY <1>2 DEF NoCandidate, Beside, Memory, Regressing

\* What is noted of a restart is beside the hold and the fault.
LEMMA NotingRestart ==
    ASSUME NEW c \in Memory, NEW r \in Powers
    PROVE  /\ Beside(c, NotesRestart(c, r)) /\ (Regressing(c) => Regressing(NotesRestart(c, r)))
           /\ NotesRestart(c, r).before = c.before
  <1>1. LimitInForce(c, r) \in Power
    BY InForce DEF Power
  <1>2. NotesRestart(c, r) \in Memory
    BY <1>1 DEF NotesRestart, Memory
  <1> QED
    BY <1>2 DEF NotesRestart, Beside, Memory, Regressing

\* A crash raises the floor.
LEMMA NotingCrash ==
    ASSUME NEW c \in Memory, NEW p \in Powers
    PROVE  /\ Beside(c, NotesCrash(c, p)) /\ (Regressing(c) => Regressing(NotesCrash(c, p)))
           /\ NotesCrash(c, p).before = c.before
           /\ NotesCrash(c, p).regression_power = c.regression_power
  <1> DEFINE floor == Larger(c.crash_floor, p + CrashStep)
  <1>1. floor \in Nat \cup {None}
    <2>1. c.crash_floor \in Nat \cup {None} /\ p + CrashStep \in Nat
      BY Sizes DEF Memory, Powers
    <2> QED
      BY <2>1 DEF Larger, None
  <1>2. NotesCrash(c, p) = [c EXCEPT !.crash_at = 0, !.crash_floor = floor]
    BY DEF NotesCrash
  <1>3. 0 \in Age(FaultTTL)
    BY Ages, Sizes
  <1> HIDE DEF floor
  <1>4. NotesCrash(c, p) \in Memory
    BY ZenonT(60), <1>1, <1>2, <1>3 DEF Memory
  <1> QED
    BY <1>2, <1>4 DEF Beside, Memory, Regressing

Uptimes == 0..MaxUptime

\* A restart is counted as ours, as nothing of note or as a crash.
LEMMA CountingRestart ==
    ASSUME NEW c \in Memory, NEW thermal \in BOOLEAN, NEW r \in Powers
    PROVE  /\ Beside(c, CountsRestart(c, thermal, r))
           /\ CountsRestart(c, thermal, r).regression_power = None
  <1> DEFINE actuated == IF c.ours THEN None ELSE c.actuated
             s == [c EXCEPT !.actuated = actuated, !.restart_ours = c.ours,
                            !.regression_power = None]
             q == Known(c.regression_power, PowerInForce(c, r))
  <1>1. actuated \in Age(BootHold) /\ c.ours \in BOOLEAN /\ None \in Power
    BY Ages, Sizes DEF Memory, Power
  <1>2. q \in Powers
    BY InForce DEF Memory, Power, Known
  <1> HIDE DEF actuated
  <1>3. s \in Memory
    BY <1>1 DEF Memory
  <1>4. Beside(c, s) /\ s.regression_power = None
    BY <1>3 DEF Beside, Memory
  <1>5. \/ CountsRestart(c, thermal, r) = s
        \/ CountsRestart(c, thermal, r) = NotesCrash(s, q)
    <2>1. CountsRestart(c, thermal, r) =
             IF c.ours \/ ~c.short \/ q = None \/ thermal \/ Armed(c.fault_at)
             THEN s ELSE NotesCrash(s, q)
      BY Zenon DEF CountsRestart, actuated
    <2> HIDE DEF s, q
    <2> QED
      BY <2>1
  <1> HIDE DEF s, q
  <1> QED
    BY <1>2, <1>3, <1>4, <1>5, NotingCrash DEF Beside

\* No regression is pending any more.
LEMMA EndingRegression ==
    ASSUME NEW c \in Memory
    PROVE  /\ Beside(c, NoRegression(c)) /\ NoRegression(c).before = None
           /\ ~NoRegression(c).ours /\ ~NoRegression(c).short
           /\ NoRegression(c).regression_power = c.regression_power
  <1>1. NoRegression(c) \in Memory
    BY DEF NoRegression, Memory
  <1> QED
    BY <1>1 DEF NoRegression, Beside, Memory

\* The uptime falls: the hold so far is settled before the power is.
LEMMA RegressingUptime ==
    ASSUME NEW c \in Memory, NEW up \in Uptimes, c.uptime # None, NEW r \in Powers
    PROVE  Keeps(c, Regresses(c, up, r)) /\ Regressing(Regresses(c, up, r))
  <1> DEFINE short == c.uptime - Larger(c.idle, 0) < StableRun
             q == PowerInForce(c, r)
             n == [c EXCEPT !.before = c.uptime, !.ours = OursPending(c),
                            !.short = short, !.regression_power = q]
  <1>1. /\ short \in BOOLEAN /\ OursPending(c) \in BOOLEAN /\ q \in Power
        /\ c.uptime \in Uptimes
    BY InForce DEF OursPending, Power, Uptimes, Memory
  <1>2. Regresses(c, up, r) = NotesRestart(Settled(n), r)
    BY DEF Regresses
  <1> HIDE DEF short, q
  <1>3. n \in Memory
    BY <1>1 DEF Memory, Uptimes
  <1>4. n.before # None
    BY <1>1, Sizes DEF Uptimes, None, Memory
  <1>5. Keeps(c, n) /\ Regressing(n)
    BY <1>3, <1>4 DEF Keeps, Memory, Regressing
  <1> HIDE DEF n
  <1>6. Keeps(n, Settled(n)) /\ Settled(n) \in Memory /\ Regressing(Settled(n))
    BY <1>3, <1>5, Settling DEF Keeps
  <1>7. /\ Keeps(Settled(n), Regresses(c, up, r)) /\ Regresses(c, up, r) \in Memory
        /\ Regressing(Regresses(c, up, r))
    BY <1>2, <1>6, NotingRestart, BesideKept DEF Beside
  <1> QED
    BY <1>3, <1>5, <1>6, <1>7, KeepsAlong

\* A counter that fell back is judged later, or counted: it denies no hold.
LEMMA NotingRegression ==
    ASSUME NEW c \in Memory, NEW up \in Uptimes, NEW thermal \in BOOLEAN, NEW r \in Powers
    PROVE  Keeps(c, NotesRegression(c, up, thermal, r))
  <1>1. CASE c.before # None /\ up < c.before
    <2>1. /\ CountsRestart(c, thermal, r) \in Memory
          /\ CountsRestart(c, thermal, r).regression_power = None
          /\ Beside(c, CountsRestart(c, thermal, r))
      BY CountingRestart DEF Beside
    <2> DEFINE e == NoRegression(CountsRestart(c, thermal, r))
    <2>2. Beside(CountsRestart(c, thermal, r), e) /\ Regressing(e)
      BY <2>1, EndingRegression DEF Regressing
    <2>3. Beside(c, e) /\ e \in Memory
      BY <2>1, <2>2 DEF Beside
    <2> QED
      BY <1>1, <2>2, <2>3, BesideKept DEF NotesRegression
  <1>2. CASE c.before # None /\ ~(up < c.before)
    <2> DEFINE e == [NoRegression(c) EXCEPT !.regression_power = None]
    <2>1. NotesRegression(c, up, thermal, r) = e
      BY <1>2 DEF NotesRegression
    <2>2. NoRegression(c) \in Memory
      BY EndingRegression DEF Beside
    <2>3. Beside(c, NoRegression(c)) /\ ~NoRegression(c).ours /\ ~NoRegression(c).short
      BY EndingRegression
    <2>4. e \in Memory
      BY <2>2 DEF Memory, Power
    <2>5. Beside(NoRegression(c), e) /\ Regressing(e)
      BY <2>2, <2>3, <2>4 DEF Beside, Memory, Regressing
    <2>6. Beside(c, e)
      BY <2>3, <2>5 DEF Beside
    <2> QED
      BY <2>1, <2>4, <2>5, <2>6, BesideKept
  <1>3. CASE c.before = None
    BY <1>3, RegressingUptime, KeepsSame DEF NotesRegression, Keeps
  <1> QED
    BY <1>1, <1>2, <1>3

\* So does what a poll says of the uptime.
LEMMA NotingUptime ==
    ASSUME NEW c \in Memory, NEW mining \in BOOLEAN, NEW up \in Uptimes,
           NEW thermal \in BOOLEAN, NEW r \in Powers
    PROVE  Keeps(c, NotesUptime(c, mining, up, thermal, r))
  <1> DEFINE s == NotesRegression(c, up, thermal, r)
             idle == IF s.idle # None /\ up < s.idle THEN None ELSE s.idle
             since == IF mining THEN idle ELSE IF up > 0 THEN up ELSE None
             n == [s EXCEPT !.uptime = up, !.idle = since]
  <1>1. Keeps(c, s) /\ s \in Memory
    BY NotingRegression DEF Keeps
  <1>2. NotesUptime(c, mining, up, thermal, r) = NotesHold(n, mining, r)
    BY DEF NotesUptime
  <1> HIDE DEF s
  <1>3. since \in 0..MaxUptime \cup {None}
    BY <1>1 DEF Memory, Uptimes
  <1> HIDE DEF since
  <1>4. n \in Memory
    BY <1>1, <1>3 DEF Memory, Uptimes
  <1>5. Keeps(s, n)
    BY <1>1, <1>4 DEF Keeps, Memory, Regressing
  <1> HIDE DEF n
  <1>6. Keeps(n, NotesHold(n, mining, r)) /\ NotesHold(n, mining, r) \in Memory
    BY <1>4, NotingHold DEF Keeps
  <1> QED
    BY <1>1, <1>2, <1>4, <1>5, <1>6, KeepsAlong

\* A limit adopted from the miner leaves the hold and the fault.
LEMMA Adopting ==
    ASSUME NEW c \in Memory, NEW adopts \in BOOLEAN, NEW r \in Powers
    PROVE  Keeps(c, Adopts(c, adopts, r))
  <1>1. CASE adopts /\ c.limit # None /\ r # c.force
    <2>1. Adopts(c, adopts, r) = [c EXCEPT !.limit = r] /\ r \in Power
      BY <1>1 DEF Adopts, Power
    <2>2. Adopts(c, adopts, r) \in Memory
      BY <2>1 DEF Memory
    <2> QED
      BY <2>1, <2>2 DEF Keeps, Memory, Regressing
  <1>2. CASE ~(adopts /\ c.limit # None /\ r # c.force)
    BY <1>2, KeepsSame DEF Adopts
  <1> QED
    BY <1>1, <1>2

\* A claimed restart leaves the hold and the fault.
LEMMA Claiming ==
    ASSUME NEW c \in Memory
    PROVE  Keeps(c, Claims(c))
  <1> DEFINE actuated == IF c.before = None /\ ~c.restart_ours /\ OursPending(c)
                         THEN None ELSE c.actuated
  <1>1. actuated \in Age(BootHold)
    BY Ages, Sizes DEF Memory
  <1>2. Claims(c) = [c EXCEPT !.restart_ours = FALSE, !.actuated = actuated]
    BY DEF Claims
  <1> HIDE DEF actuated
  <1>3. Claims(c) \in Memory
    BY ZenonT(60), <1>1, <1>2 DEF Memory
  <1> QED
    BY <1>2, <1>3 DEF Keeps, Memory, Regressing

\* The mining edges begin and settle holds.
LEMMA Edging ==
    ASSUME NEW c \in Memory, NEW mining \in BOOLEAN, NEW r \in Powers
    PROVE  /\ Edges(c, mining, r) \in Memory
           /\ LET e == [Edges(c, mining, r) EXCEPT !.mining = IF mining THEN "yes" ELSE "no"]
              IN  Keeps(c, e)
  <1>0. /\ None \in Power
        /\ \A d \in Memory : PowerInForce(d, r) \in Power
    BY InForce DEF Power
  <1>1. Keeps(c, Edges(c, mining, r))
    <2>1. CASE mining /\ c.mining = "unknown"
      <3> DEFINE n == NotesRestart(c, r)
      <3>1. Keeps(c, n) /\ n \in Memory
        BY NotingRestart, BesideKept DEF Beside
      <3>2. Edges(c, mining, r) = Holding(n, PowerInForce(n, r))
        BY <2>1 DEF Edges
      <3> HIDE DEF n
      <3>3. Keeps(n, Holding(n, PowerInForce(n, r))) /\ Holding(n, PowerInForce(n, r)) \in Memory
        BY <1>0, <3>1, BeginningHold DEF Keeps
      <3> QED
        BY <3>1, <3>2, <3>3, KeepsAlong
    <2>2. CASE mining /\ c.mining = "no"
      <3> DEFINE m == Claims(c)  n == NotesRestart(m, r)  k == Settled(n)
      <3>1. Keeps(c, m) /\ m \in Memory
        BY Claiming DEF Keeps
      <3>2. Edges(c, mining, r) = Holding(k, PowerInForce(n, r))
        BY <2>2 DEF Edges
      <3> HIDE DEF m
      <3>3. Keeps(m, n) /\ n \in Memory
        BY <3>1, NotingRestart, BesideKept DEF Beside
      <3> HIDE DEF n
      <3>4. Keeps(n, k) /\ k \in Memory
        BY <3>3, Settling DEF Keeps
      <3> HIDE DEF k
      <3>5. Keeps(k, Holding(k, PowerInForce(n, r))) /\ Holding(k, PowerInForce(n, r)) \in Memory
        BY <1>0, <3>3, <3>4, BeginningHold DEF Keeps
      <3>6. Keeps(c, k)
        BY <3>1, <3>3, <3>4, KeepsAlong
      <3> QED
        BY <3>2, <3>4, <3>5, <3>6, KeepsAlong
    <2>3. CASE ~mining /\ c.mining = "yes"
      <3>1. Keeps(c, Settled(c)) /\ Settled(c) \in Memory
        BY Settling DEF Keeps
      <3>2. Keeps(Settled(c), Holding(Settled(c), None)) /\ Holding(Settled(c), None) \in Memory
        BY <1>0, <3>1, BeginningHold DEF Keeps
      <3>3. Edges(c, mining, r) = Holding(Settled(c), None)
        BY <2>3 DEF Edges
      <3> QED
        BY <3>1, <3>2, <3>3, KeepsAlong
    <2>4. CASE ~(mining /\ c.mining \in {"unknown", "no"}) /\ ~(~mining /\ c.mining = "yes")
      BY <2>4, KeepsSame DEF Edges
    <2> QED
      BY <2>1, <2>2, <2>3, <2>4
  <1> DEFINE s == Edges(c, mining, r)
             word == IF mining THEN "yes" ELSE "no"
             e == [s EXCEPT !.mining = word]
  <1>2. s \in Memory /\ Keeps(c, s) /\ word \in {"unknown", "yes", "no"}
    BY <1>1 DEF Keeps
  <1> HIDE DEF s, word
  <1>3. e \in Memory
    BY <1>2 DEF Memory
  <1>4. Keeps(s, e)
    BY <1>2, <1>3 DEF Keeps, Memory, Regressing
  <1>5. Keeps(c, e)
    BY <1>2, <1>3, <1>4, KeepsAlong
  <1> QED
    BY <1>2, <1>5 DEF s, word

\* The drop of the limit has lasted long enough to be held against the miner.
DerateDue(c, mining, tuned, r) ==
    /\ mining /\ c.commanded # None /\ tuned /\ ~(c.sent_at < DeratePostWrite)
    /\ r < c.commanded - DerateDelta
    /\ ~c.derated /\ Smaller(c.candidate_polls + 1, DeratePolls) >= DeratePolls
    /\ (IF c.candidate = None THEN 0 ELSE c.candidate) >= DerateMin

\* A derate taints the hold when it is due, and nothing else of note happens.
LEMMA NotingDerate ==
    ASSUME NEW c \in Memory, NEW mining \in BOOLEAN, NEW tuned \in BOOLEAN, NEW r \in Powers
    PROVE  LET d == NotesDerate(c, mining, tuned, r)
           IN  /\ Faults(c, d)
               /\ DerateDue(c, mining, tuned, r) => d.derated /\ d.tainted /\ d.fault_at = 0
               /\ ~DerateDue(c, mining, tuned, r) =>
                     Beside(c, d) /\ (d.derated => c.derated)
  <1> DEFINE n == Smaller(c.candidate_polls + 1, DeratePolls)
             since == IF c.candidate = None THEN 0 ELSE c.candidate
             seen == [c EXCEPT !.match_polls = 0, !.candidate_polls = n, !.candidate = since]
             due == [seen EXCEPT !.derated = TRUE]
             again == NoCandidate(c)
             matches == again.match_polls + 1
             matched == [again EXCEPT !.match_polls = matches]
             over == [matched EXCEPT !.derated = FALSE, !.match_polls = 0]
             d == NotesDerate(c, mining, tuned, r)
  <1>1. /\ n \in 0..DeratePolls /\ since \in Age(DerateMin) /\ 0 \in 0..DeratePolls
        /\ n = IF c.candidate_polls + 1 <= DeratePolls THEN c.candidate_polls + 1 ELSE DeratePolls
    <2>1. c.candidate_polls \in 0..DeratePolls /\ DeratePolls \in Nat
      BY Sizes DEF Memory
    <2>2. since \in Age(DerateMin)
      BY Ages, Sizes DEF Memory
    <2> QED
      BY <2>1, <2>2 DEF Smaller
  <1>2. /\ Beside(c, again) /\ (Regressing(c) => Regressing(again)) /\ again \in Memory
        /\ again.derated = c.derated /\ again.match_polls = c.match_polls
    BY ForgettingCandidate DEF Beside
  <1>3. CASE DerateDue(c, mining, tuned, r)
    <2>1. d = NotesFault(due, r)
      BY <1>3 DEF NotesDerate, DerateDue
    <2> HIDE DEF n, since
    <2>2. seen \in Memory
      BY ZenonT(60), <1>1 DEF Memory
    <2>3. Beside(c, seen) /\ (Regressing(c) => Regressing(seen))
      BY <2>2 DEF Beside, Regressing, Memory
    <2> HIDE DEF seen
    <2>4. due \in Memory
      BY <2>2 DEF Memory
    <2>5. Beside(seen, due) /\ (Regressing(seen) => Regressing(due)) /\ due.derated
      BY <2>2, <2>4 DEF Beside, Regressing, Memory
    <2> HIDE DEF due
    <2>6. Faults(due, d) /\ d.tainted /\ d.derated /\ d.fault_at = 0
      <3>1. NotesFault(due, r).fault_at = 0
        BY <2>4 DEF NotesFault, Memory
      <3> QED
        BY <2>1, <2>4, <2>5, <3>1, NotingFault
    <2> QED
      BY <1>3, <2>3, <2>5, <2>6 DEF Beside, Faults
  <1>4. CASE ~DerateDue(c, mining, tuned, r) /\ mining /\ c.commanded # None /\ tuned
             /\ ~(c.sent_at < DeratePostWrite) /\ r < c.commanded - DerateDelta
    <2>1. d = seen
      BY <1>4 DEF NotesDerate, DerateDue
    <2> HIDE DEF n, since
    <2>2. seen \in Memory
      BY ZenonT(60), <1>1 DEF Memory
    <2>3. Beside(c, seen) /\ (Regressing(c) => Regressing(seen)) /\ seen.derated = c.derated
      BY <2>2 DEF Beside, Regressing, Memory
    <2> QED
      BY <1>4, <2>1, <2>3 DEF Beside, Faults
  <1>5. CASE ~DerateDue(c, mining, tuned, r)
             /\ (d = again \/ (matches < DeratePolls /\ d = matched)
                 \/ (matches >= DeratePolls /\ d = over))
    <2>1. CASE d = again
      BY <1>2, <1>5, <2>1 DEF Beside, Faults
    <2>2. CASE matches < DeratePolls /\ d = matched
      <3>1. matches \in 0..DeratePolls
        BY <1>2, <2>2, Sizes DEF Memory
      <3> HIDE DEF again, matches
      <3>2. matched \in Memory
        BY <1>2, <3>1 DEF Memory
      <3>3. /\ Beside(again, matched) /\ (Regressing(again) => Regressing(matched))
            /\ matched.derated = again.derated
        BY <1>2, <3>2 DEF Beside, Regressing, Memory
      <3> QED
        BY <1>2, <1>5, <2>2, <3>3 DEF Beside, Faults
    <2>3. CASE matches >= DeratePolls /\ d = over
      <3> DEFINE free == [again EXCEPT !.derated = FALSE, !.match_polls = 0]
      <3> HIDE DEF again, matches
      <3>1. free \in Memory
        BY <1>1, <1>2 DEF Memory
      <3>2. /\ Beside(again, free) /\ (Regressing(again) => Regressing(free)) /\ ~free.derated
        BY <1>2, <3>1 DEF Beside, Regressing, Memory
      <3>3. over = free
        BY <1>2 DEF Memory
      <3> QED
        BY <1>2, <1>5, <2>3, <3>2, <3>3 DEF Beside, Faults
    <2> QED
      BY <1>5, <2>1, <2>2, <2>3
  <1>6. ~(mining /\ c.commanded # None /\ tuned
             /\ ~(c.sent_at < DeratePostWrite) /\ r < c.commanded - DerateDelta) =>
        d = again \/ (matches < DeratePolls /\ d = matched) \/ (matches >= DeratePolls /\ d = over)
    <2>1. matched.match_polls = matches
      BY <1>2 DEF Memory
    <2>2. matches \in Nat /\ DeratePolls \in Nat
      BY <1>2, Sizes DEF Memory
    <2> SUFFICES ASSUME ~(mining /\ c.commanded # None /\ tuned
                          /\ ~(c.sent_at < DeratePostWrite) /\ r < c.commanded - DerateDelta)
                 PROVE  d = again \/ (matches < DeratePolls /\ d = matched)
                        \/ (matches >= DeratePolls /\ d = over)
      OBVIOUS
    <2>3. d = IF ~mining \/ c.commanded = None \/ ~tuned \/ c.sent_at < DeratePostWrite
              THEN again
              ELSE IF r < c.commanded - DerateDelta
              THEN IF ~c.derated /\ n >= DeratePolls /\ seen.candidate >= DerateMin
                   THEN NotesFault(due, r) ELSE seen
              ELSE IF ~c.derated THEN again
              ELSE IF matched.match_polls >= DeratePolls THEN over ELSE matched
      BY Zenon DEF NotesDerate
    <2> HIDE DEF matches, matched, over, again, d, seen, due
    <2> QED
      BY <2>1, <2>2, <2>3
  <1> QED
    BY <1>3, <1>4, <1>5, <1>6 DEF DerateDue

\* The fault evidence a poll shows of the attributes c (FaultShown of ctl).
Shown(c, i, r) == i.error \/ (NotesDerate(c, i.mining, i.tuned, r).derated /\ ~c.derated)

\* A poll takes its fault evidence first, and what follows credits nothing that
\* the evidence has tainted.
LEMMA Handling ==
    ASSUME NEW c \in Memory, NEW i \in Shows, NEW r \in Powers
    PROVE  /\ Handled(c, i, r) \in Memory
           /\ \E d \in Memory :
                 /\ Faults(c, d) /\ Keeps(d, Handled(c, i, r))
                 /\ Shown(c, i, r) => d.tainted /\ d.fault_at = 0
                 /\ ~Shown(c, i, r) => /\ d.tainted = c.tainted /\ d.fault_at = c.fault_at
                                       /\ d.fault_power = c.fault_power
  <1>0. /\ i.mining \in BOOLEAN /\ i.up \in Uptimes /\ i.error \in BOOLEAN /\ i.tuned \in BOOLEAN
        /\ i.thermal \in BOOLEAN /\ i.adopts \in BOOLEAN
    BY DEF Shows, Uptimes
  <1> DEFINE p == PowerInForce(c, r)
             e == NotesErrors(c, i.error, r)
             d == NotesDerate(e, i.mining, i.tuned, r)
             u == NotesUptime(d, i.mining, i.up, i.thermal, r)
             a == Adopts(u, i.adopts, r)
  <1>1. /\ e \in Memory /\ Faults(c, e)
        /\ i.error => e.tainted /\ e.fault_at = 0
        /\ ~i.error => e = c
        /\ DerateDue(e, i.mining, i.tuned, r) <=> DerateDue(c, i.mining, i.tuned, r)
        /\ e.derated = c.derated
    <2>1. CASE i.error
      <3>1. e = NotesFault(c, p) /\ p \in Powers
        BY <2>1, InForce DEF NotesErrors
      <3>2. Faults(c, e) /\ e.tainted /\ e.derated = c.derated
        BY <3>1, NotingFault
      <3>3. /\ e.fault_at = 0 /\ e.commanded = c.commanded /\ e.sent_at = c.sent_at
            /\ e.candidate_polls = c.candidate_polls /\ e.candidate = c.candidate
        BY <3>1 DEF NotesFault, Memory
      <3> QED
        BY <2>1, <3>2, <3>3 DEF Faults, DerateDue
    <2>2. CASE ~i.error
      BY <2>2 DEF NotesErrors, Faults
    <2> QED
      BY <2>1, <2>2
  <1> HIDE DEF e
  <1>2. /\ d \in Memory /\ Faults(e, d)
        /\ DerateDue(c, i.mining, i.tuned, r) => d.tainted /\ d.fault_at = 0
        /\ ~DerateDue(c, i.mining, i.tuned, r) => Beside(e, d)
    <2>1. \A m, t \in BOOLEAN :
             /\ Faults(e, NotesDerate(e, m, t, r))
             /\ DerateDue(e, m, t, r) =>
                   NotesDerate(e, m, t, r).tainted /\ NotesDerate(e, m, t, r).fault_at = 0
             /\ ~DerateDue(e, m, t, r) => Beside(e, NotesDerate(e, m, t, r))
      BY <1>1, NotingDerate
    <2> QED
      BY <1>0, <1>1, <2>1 DEF Faults
  <1>3. Shown(c, i, r) <=> i.error \/ DerateDue(c, i.mining, i.tuned, r)
    <2>1. \A m, t \in BOOLEAN :
             /\ DerateDue(c, m, t, r) => NotesDerate(c, m, t, r).derated
             /\ ~DerateDue(c, m, t, r) => (NotesDerate(c, m, t, r).derated => c.derated)
             /\ DerateDue(c, m, t, r) => ~c.derated
      BY NotingDerate DEF DerateDue
    <2> QED
      BY <1>0, <2>1 DEF Shown
  <1> HIDE DEF d
  <1>4. Keeps(d, u) /\ u \in Memory
    BY SMTT(40), <1>0, <1>2, NotingUptime DEF Keeps
  <1>5. Handled(c, i, r) = [Edges(a, i.mining, r) EXCEPT !.mining = IF i.mining THEN "yes" ELSE "no"]
    BY DEF Handled, Evidence, d, e
  <1> HIDE DEF u
  <1>6. Keeps(u, a) /\ a \in Memory
    BY SMTT(40), <1>0, <1>4, Adopting DEF Keeps
  <1> HIDE DEF a
  <1>7. Keeps(a, Handled(c, i, r)) /\ Handled(c, i, r) \in Memory
    BY <1>0, <1>5, <1>6, Edging DEF Keeps
  <1>8. Keeps(d, Handled(c, i, r))
    BY <1>2, <1>4, <1>6, <1>7, KeepsAlong
  <1>9. Faults(c, d)
    BY <1>1, <1>2 DEF Faults
  <1>10. Shown(c, i, r) => d.tainted /\ d.fault_at = 0
    BY <1>1, <1>2, <1>3 DEF Faults, Beside
  <1>11. ~Shown(c, i, r) => /\ d.tainted = c.tainted /\ d.fault_at = c.fault_at
                            /\ d.fault_power = c.fault_power
    BY <1>1, <1>2, <1>3 DEF Beside
  <1> QED
    BY <1>2, <1>7, <1>8, <1>9, <1>10, <1>11

\* A command settles the hold and begins a new one, untainted.
LEMMA CommandingAnew ==
    ASSUME NEW c \in Memory
    PROVE  LET e == CommandBoundary(c)
           IN  /\ e \in Memory /\ (Regressing(c) => Regressing(e))
               /\ e.fault_at = c.fault_at /\ e.fault_power = c.fault_power /\ e.hold_since = 0
               /\ \/ e.proven_max = c.proven_max /\ e.proven_at = c.proven_at
                  \/ HeldFull(c) /\ e.proven_at = 0
  <1> DEFINE s == Settled(c)
             e == [s EXCEPT !.hold_power = c.force, !.hold_since = 0, !.tainted = FALSE]
  <1>1. Keeps(c, s) /\ s \in Memory
    BY Settling DEF Keeps
  <1>2. e = CommandBoundary(c)
    BY DEF CommandBoundary
  <1>3. c.force \in Power /\ 0 \in Age(StableRun)
    BY Ages, Sizes DEF Memory
  <1> HIDE DEF s
  <1>4. e \in Memory
    BY <1>1, <1>3 DEF Memory
  <1>5. /\ e.fault_at = s.fault_at /\ e.fault_power = s.fault_power /\ e.hold_since = 0
        /\ e.proven_max = s.proven_max /\ e.proven_at = s.proven_at
        /\ Regressing(s) => Regressing(e)
    BY <1>1 DEF Memory, Regressing
  <1> QED
    BY <1>1, <1>2, <1>4, <1>5 DEF Keeps

\* Everything grows older by a tick, up to where it no longer matters.
LEMMA Aging ==
    ASSUME NEW c \in Memory
    PROVE  /\ Aged(c) \in Memory /\ (Regressing(c) => Regressing(Aged(c)))
           /\ Aged(c).fault_at = Older(c.fault_at, FaultTTL)
           /\ Aged(c).proven_at = Older(c.proven_at, FaultTTL)
           /\ Aged(c).hold_since = Older(c.hold_since, StableRun)
           /\ Aged(c).tainted = c.tainted /\ Aged(c).proven_max = c.proven_max
           /\ Aged(c).fault_power = c.fault_power
  <1>1. \A h \in Nat : \A a \in Age(h) : Older(a, h) \in Age(h)
    BY DEF Older, Age, None
  <1>2. /\ c.crash_at \in Age(FaultTTL) /\ c.fault_at \in Age(FaultTTL)
        /\ c.proven_at \in Age(FaultTTL) /\ c.sent_at \in Age(DeratePostWrite)
        /\ c.hold_since \in Age(StableRun) /\ c.candidate \in Age(DerateMin)
        /\ c.actuated \in Age(BootHold)
    BY DEF Memory
  <1>3. /\ Older(c.crash_at, FaultTTL) \in Age(FaultTTL)
        /\ Older(c.fault_at, FaultTTL) \in Age(FaultTTL)
        /\ Older(c.proven_at, FaultTTL) \in Age(FaultTTL)
        /\ Older(c.sent_at, DeratePostWrite) \in Age(DeratePostWrite)
        /\ Older(c.hold_since, StableRun) \in Age(StableRun)
        /\ Older(c.candidate, DerateMin) \in Age(DerateMin)
        /\ Older(c.actuated, BootHold) \in Age(BootHold)
    BY <1>1, <1>2, Sizes
  <1>4. Aged(c) \in Memory
    BY <1>3 DEF Aged, Memory
  <1> QED
    BY <1>4 DEF Aged, Memory, Regressing

----------------------------------------------------------------------------
(* What a fault leaves behind, from step to step *)

Within(c, clean) == c.tainted \/ c.hold_since = None \/ c.hold_since <= clean

\* A fault denies the hold it taints.
LEMMA FaultDenies ==
    ASSUME NEW c \in Memory, NEW d \in Memory, Faults(c, d), FaultKept(c)
    PROVE  FaultKept(d)
  <1>1. d.fault_at = 0 /\ d.tainted => Denies(d, d.fault_at)
    <2>1. d.proven_at = None \/ d.proven_at >= 0
      BY Ages, Sizes DEF Memory
    <2> QED
      BY <2>1 DEF Denies
  <1>2. \/ d.fault_at = 0 /\ d.tainted
        \/ /\ d.fault_at = c.fault_at /\ d.tainted = c.tainted
           /\ d.hold_since = c.hold_since /\ d.proven_at = c.proven_at
    BY DEF Faults
  <1> QED
    BY <1>1, <1>2 DEF FaultKept, Denies

\* A hold that is begun after a fault is younger than it.
LEMMA DenialKept ==
    ASSUME NEW c \in Memory, NEW d \in Memory, FaultKept(c),
           d.fault_at = c.fault_at, (c.tainted => d.tainted) \/ d.hold_since \in {0, None},
           d.hold_since \in {c.hold_since, 0, None},
           d.proven_at = c.proven_at \/ (HeldFull(c) /\ d.proven_at = 0)
    PROVE  FaultKept(d)
  <1> SUFFICES ASSUME Armed(d.fault_at) PROVE Denies(d, d.fault_at)
    BY DEF FaultKept
  <1>1. Denies(c, d.fault_at) /\ d.fault_at \in Nat /\ StableRun \in Nat
    BY Ages, Sizes DEF FaultKept, Armed, Memory
  <1>2. d.tainted \/ d.hold_since = None \/ d.hold_since <= d.fault_at
    BY <1>1 DEF Denies
  <1>3. CASE d.proven_at = c.proven_at
    BY <1>1, <1>2, <1>3 DEF Denies
  <1>4. CASE HeldFull(c) /\ d.proven_at = 0
    <2>1. c.hold_since \in Nat /\ c.hold_since <= d.fault_at /\ c.hold_since >= StableRun
      BY <1>1, <1>4, Ages, Sizes DEF Denies, HeldFull, Memory
    <2> QED
      BY <1>1, <1>2, <2>1 DEF Denies
  <1> QED
    BY <1>3, <1>4

\* The fault and the hold grow older together: none outgrows the other.
LEMMA DenialAges ==
    ASSUME NEW c \in Memory, FaultKept(c)
    PROVE  FaultKept(Aged(c))
  <1> DEFINE d == Aged(c)
  <1>1. /\ d.fault_at = Older(c.fault_at, FaultTTL) /\ d.proven_at = Older(c.proven_at, FaultTTL)
        /\ d.hold_since = Older(c.hold_since, StableRun) /\ d.tainted = c.tainted
    BY Aging
  <1>2. /\ c.fault_at \in Age(FaultTTL) /\ c.proven_at \in Age(FaultTTL)
        /\ c.hold_since \in Age(StableRun) /\ StableRun \in Nat \ {0} /\ FaultTTL \in Nat \ {0}
    BY Sizes DEF Memory
  <1> HIDE DEF d
  <1> SUFFICES ASSUME Armed(d.fault_at) PROVE Denies(d, d.fault_at)
    BY DEF FaultKept, d
  <1>3. c.fault_at \in Nat /\ c.fault_at < FaultTTL /\ d.fault_at = c.fault_at + 1 /\ Denies(c, c.fault_at)
    BY <1>1, <1>2 DEF Older, Armed, Age, None, FaultKept
  <1>4. d.tainted \/ d.hold_since = None \/ d.hold_since <= d.fault_at
    BY <1>1, <1>2, <1>3 DEF Denies, Older, Age, None
  <1>5. d.fault_at < StableRun => d.proven_at = None \/ d.proven_at >= d.fault_at
    BY <1>1, <1>2, <1>3 DEF Denies, Older, Age, None
  <1> QED
    BY <1>4, <1>5 DEF Denies

MinerType == [up : 0..MaxUptime, warm : 0..BootTime, hashes : BOOLEAN, limit : Powers]
PastType ==
    [clean : 0..StableRun, held : 0..StableRun, broken : BOOLEAN,
     boots : SUBSET {"self", "us"}, silent : 0..MaxSilence, garbled : BOOLEAN]

\* The type of every variable, from those of its parts.
LEMMA TypesFrom ==
    ASSUME ctl' \in Memory, Regressing(ctl'), miner' \in MinerType, fresh' \in BOOLEAN,
           events' \in 0..MaxEvents, past' \in PastType
    PROVE  TypeOK'
  BY DEF TypeOK, Regressing, MinerType, PastType

\* What a step has to show.
Kept == FaultInv' /\ (Credits => past'.clean >= StableRun)

\* Attributes that come of ctl without fault evidence, the clean run going on.
LEMMA CleanStep ==
    ASSUME FaultInv, NEW d, Keeps(ctl, d), ctl' = d, past' \in PastType, past'.clean = past.clean,
           miner' \in MinerType, fresh' \in BOOLEAN, events' \in 0..MaxEvents
    PROVE  Kept
  <1>1. ctl \in Memory /\ Regressing(ctl) /\ FaultKept(ctl) /\ Within(ctl, past.clean)
        /\ past \in PastType
    BY DEF FaultInv, TypeOK, HoldKept, Within, Regressing, PastType
  <1>2. ctl' \in Memory /\ Regressing(ctl')
    BY <1>1 DEF Keeps
  <1>3. FaultKept(ctl')
    BY <1>1, <1>2, DenialKept DEF Keeps
  <1>4. past.clean \in 0..StableRun /\ StableRun \in Nat
    BY <1>1, Sizes DEF PastType
  <1>5. HoldKept'
    BY <1>1, <1>4 DEF Keeps, Within, HoldKept
  <1>6. Credits => HeldFull(ctl)
    BY DEF Credits, Keeps
  <1>7. HeldFull(ctl) => past'.clean >= StableRun
    BY <1>1, <1>4 DEF HeldFull, Within, Memory, Age, None
  <1> QED
    BY <1>2, <1>3, <1>5, <1>6, <1>7, TypesFrom DEF FaultInv, Kept

----------------------------------------------------------------------------
(* Every step keeps the invariant and credits only what is clean *)

\* The floor is never above the ceiling, and both are powers.
LEMMA PowersBetween ==
    ASSUME TypeOK
    PROVE  /\ Floor(ctl) \in Powers /\ Ceiling(ctl) \in Powers /\ Floor(ctl) <= Ceiling(ctl)
           /\ Floor(ctl)..Ceiling(ctl) \subseteq Powers
  <1>1. /\ ctl.crash_floor \in Nat \cup {None} /\ ctl.fault_power \in Power
        /\ ctl.proven_max \in Power
        /\ PowerMin \in Nat /\ PowerMax \in Nat /\ PowerMin <= PowerMax /\ ProvenMargin \in Nat
    BY Sizes DEF TypeOK, Memory
  <1>2. FaultReference(ctl) \in Powers
    BY <1>1 DEF FaultReference, Witnessed, Known, Power, Powers
  <1>3. Ceiling(ctl) \in Powers
    BY <1>1, <1>2 DEF Ceiling, Larger, Smaller, Powers
  <1>4. CrashFloor(ctl) \in Powers
    BY <1>1 DEF CrashFloor, Larger, Smaller, Powers, None
  <1> QED
    BY <1>1, <1>3, <1>4 DEF Floor, Smaller, Powers

\* A good poll, garbled or not.
LEMMA PollKeeps ==
    ASSUME FaultInv, NEW i \in Shows, NEW garbled \in BOOLEAN, PollShows(i, garbled),
           events' \in 0..MaxEvents
    PROVE  Kept
  <1>1. ctl \in Memory /\ Regressing(ctl) /\ FaultKept(ctl) /\ Within(ctl, past.clean)
        /\ past \in PastType /\ miner \in MinerType /\ miner.limit \in Powers
    BY DEF FaultInv, TypeOK, HoldKept, Within, Regressing, PastType, MinerType
  <1>2. /\ ctl' = Handled(ctl, i, miner.limit) /\ fresh' = TRUE /\ UNCHANGED miner
        /\ past' = [past EXCEPT
                  !.clean = IF FaultShown(i) THEN 0 ELSE @,
                  !.held = IF past.broken \/ ~miner.hashes THEN 0 ELSE @,
                  !.broken = FALSE, !.silent = 0, !.garbled = garbled,
                  !.boots = IF ctl'.before = None THEN {} ELSE @]
    BY DEF PollShows
  <1>3. past' \in PastType /\ past'.clean = IF FaultShown(i) THEN 0 ELSE past.clean
    <2> DEFINE clean == IF FaultShown(i) THEN 0 ELSE past.clean
               held == IF past.broken \/ ~miner.hashes THEN 0 ELSE past.held
               boots == IF ctl'.before = None THEN {} ELSE past.boots
    <2>1. /\ clean \in 0..StableRun /\ held \in 0..StableRun /\ boots \in SUBSET {"self", "us"}
          /\ 0 \in 0..MaxSilence
      BY <1>1, Sizes DEF PastType
    <2>2. past' = [past EXCEPT !.clean = clean, !.held = held, !.broken = FALSE, !.silent = 0,
                               !.garbled = garbled, !.boots = boots]
      BY <1>2
    <2> HIDE DEF clean, held, boots
    <2>3. past' \in PastType /\ past'.clean = clean
      BY <1>1, <2>1, <2>2 DEF PastType
    <2> QED
      BY <2>3 DEF clean
  <1>4. FaultShown(i) <=> Shown(ctl, i, miner.limit)
    BY DEF FaultShown, Shown
  <1>5. PICK d \in Memory :
           /\ Faults(ctl, d) /\ Keeps(d, ctl')
           /\ FaultShown(i) => d.tainted /\ d.fault_at = 0
           /\ ~FaultShown(i) => d.tainted = ctl.tainted
    BY <1>1, <1>2, <1>4, Handling
  <1>6. ctl' \in Memory /\ Regressing(d) /\ Regressing(ctl')
    BY <1>1, <1>5 DEF Faults, Keeps
  <1>7. FaultKept(ctl')
    <2>1. FaultKept(d)
      BY <1>1, <1>5, FaultDenies
    <2> QED
      BY <1>5, <1>6, <2>1, DenialKept DEF Keeps
  <1>8. past.clean \in 0..StableRun /\ StableRun \in Nat
    BY <1>1, Sizes DEF PastType
  <1>9. Within(d, past.clean) /\ (FaultShown(i) => d.tainted)
    BY <1>1, <1>5 DEF Faults, Within
  <1>10. HoldKept'
    BY <1>3, <1>5, <1>8, <1>9 DEF Keeps, Within, HoldKept
  <1>11. Credits => HeldFull(d)
    BY <1>5 DEF Credits, Keeps, Faults
  <1>12. HeldFull(d) => past'.clean >= StableRun
    BY <1>3, <1>8, <1>9 DEF HeldFull, Within, Memory, Age, None
  <1>13. fresh' \in BOOLEAN /\ miner' \in MinerType
    BY <1>1, <1>2
  <1> QED
    BY <1>3, <1>6, <1>7, <1>10, <1>11, <1>12, <1>13, TypesFrom DEF FaultInv, Kept

\* A step of the miner's leaves the clean run what it was.
LEMMA Interrupting ==
    ASSUME past \in PastType, NEW boot \in {"none", "self", "us"}, Interrupted(boot)
    PROVE  past' \in PastType /\ past'.clean = past.clean
  <1> DEFINE boots == IF boot = "none" THEN past.boots ELSE past.boots \cup {boot}
  <1>1. boots \in SUBSET {"self", "us"}
    BY DEF PastType
  <1>2. past' = [past EXCEPT !.broken = TRUE, !.boots = boots]
    BY DEF Interrupted
  <1> HIDE DEF boots
  <1> QED
    BY <1>1, <1>2 DEF PastType

\* A command.
LEMMA CommandKeeps ==
    ASSUME FaultInv, NEW n \in Memory, Beside(ctl, n), Regressing(n), ctl' = CommandBoundary(n),
           past' \in PastType, past'.clean = past.clean,
           miner' \in MinerType, fresh' \in BOOLEAN, events' \in 0..MaxEvents
    PROVE  Kept
  <1>1. /\ ctl \in Memory /\ FaultKept(ctl) /\ Within(ctl, past.clean)
        /\ past.clean \in 0..StableRun /\ StableRun \in Nat
    BY Sizes DEF FaultInv, TypeOK, HoldKept, Within
  <1>2. /\ ctl' \in Memory /\ Regressing(ctl') /\ ctl'.hold_since = 0
        /\ ctl'.fault_at = ctl.fault_at
        /\ \/ ctl'.proven_max = ctl.proven_max /\ ctl'.proven_at = ctl.proven_at
           \/ HeldFull(ctl) /\ ctl'.proven_at = 0
    BY CommandingAnew DEF Beside, HeldFull
  <1>3. FaultKept(ctl')
    BY <1>1, <1>2, DenialKept
  <1>4. HoldKept'
    BY <1>1, <1>2 DEF HoldKept
  <1>5. Credits => HeldFull(ctl)
    BY <1>2 DEF Credits
  <1>6. HeldFull(ctl) => past'.clean >= StableRun
    BY <1>1 DEF HeldFull, Within, Memory, Age, None
  <1> QED
    BY <1>2, <1>3, <1>4, <1>5, <1>6, TypesFrom DEF FaultInv, Kept

\* Setting the limit restarts btminer, setting a power does not.
LEMMA SettingKeeps ==
    ASSUME FaultInv, NEW p \in Powers, SetLimit(p) \/ SetPower(p)
    PROVE  Kept
  <1>1. ctl \in Memory /\ Regressing(ctl) /\ past \in PastType /\ miner \in MinerType
        /\ fresh \in BOOLEAN /\ miner' \in MinerType /\ fresh' \in BOOLEAN
        /\ events' \in 0..MaxEvents /\ past' \in PastType /\ past'.clean = past.clean
    <2>1. /\ ctl \in Memory /\ Regressing(ctl) /\ past \in PastType /\ miner \in MinerType
          /\ fresh \in BOOLEAN /\ events \in 0..MaxEvents
      BY DEF FaultInv, TypeOK, Regressing, PastType, MinerType
    <2>2. events' \in 0..MaxEvents /\ fresh' = fresh
      BY <2>1, Sizes DEF SetLimit, SetPower, Event
    <2>3. CASE SetLimit(p)
      <3>1. miner' \in MinerType
        BY <2>3, Sizes DEF SetLimit, Booting, MinerType
      <3> QED
        BY <2>1, <2>2, <2>3, <3>1, Interrupting DEF SetLimit
    <2> QED
      BY <2>1, <2>2, <2>3 DEF SetPower
  <1>2. CASE SetPower(p)
    <2> DEFINE n == [ctl EXCEPT !.force = p]
    <2>1. n \in Memory
      BY <1>1 DEF Memory, Power
    <2>2. Beside(ctl, n) /\ Regressing(n)
      BY <1>1, <2>1 DEF Beside, Regressing, Memory
    <2>3. ctl' = CommandBoundary(n)
      BY <1>2 DEF SetPower
    <2> HIDE DEF n
    <2> QED
      BY <1>1, <2>1, <2>2, <2>3, CommandKeeps
  <1>3. CASE SetLimit(p)
    <2> DEFINE m == NoCandidate(ctl)
               n == [m EXCEPT !.limit = p, !.force = p, !.commanded = p, !.sent_at = 0,
                              !.match_polls = 0, !.actuated = 0]
    <2>1. Beside(ctl, m) /\ Regressing(m) /\ m \in Memory
      BY <1>1, ForgettingCandidate DEF Beside
    <2>2. ctl' = CommandBoundary(n) \/ UNCHANGED ctl
      BY <1>3 DEF SetLimit
    <2>3. /\ p \in Power /\ 0 \in Age(DeratePostWrite) /\ 0 \in Age(BootHold)
          /\ 0 \in 0..DeratePolls
      BY Ages, Sizes DEF Power
    <2> HIDE DEF m
    <2>4. n \in Memory
      BY <2>1, <2>3 DEF Memory
    <2>5. Beside(ctl, n) /\ Regressing(n)
      <3>1. Beside(m, n) /\ Regressing(n)
        BY <2>1, <2>4 DEF Beside, Regressing, Memory
      <3> QED
        BY <2>1, <3>1 DEF Beside
    <2> HIDE DEF n
    <2>6. CASE ctl' = CommandBoundary(n)
      BY <1>1, <2>4, <2>5, <2>6, CommandKeeps
    <2>7. CASE UNCHANGED ctl
      BY <1>1, <2>7, KeepsSame, CleanStep
    <2> QED
      BY <2>2, <2>6, <2>7
  <1> QED
    BY <1>2, <1>3

\* What happens to the miner, and a poll that fails.
LEMMA MinerKeeps ==
    ASSUME FaultInv,
           \/ PollFails \/ StopsMiner \/ StartsMiner \/ Hashes \/ RestartsItself
           \/ \E p \in Powers : Derates(p)
           \/ UNCHANGED vars
    PROVE  Kept
  <1>0. /\ ctl \in Memory /\ Regressing(ctl) /\ past \in PastType /\ miner \in MinerType
        /\ fresh \in BOOLEAN /\ events \in 0..MaxEvents /\ miner.limit \in Powers
        /\ miner.hashes \in BOOLEAN
    BY DEF FaultInv, TypeOK, Regressing, PastType, MinerType
  <1>1. fresh' \in BOOLEAN /\ events' \in 0..MaxEvents
    <2>1. fresh' \in {fresh, FALSE} /\ (events' = events \/ Event)
      BY DEF PollFails, StopsMiner, StartsMiner, Hashes, RestartsItself, Derates, vars
    <2>2. Event => events' \in 0..MaxEvents
      BY <1>0, Sizes DEF Event
    <2> QED
      BY <1>0, <2>1, <2>2
  <1>2. \A l \in Powers : Booting(l) \in MinerType
    BY Sizes DEF Booting, MinerType
  <1>3. miner' \in MinerType
    <2>1. CASE StopsMiner
      <3>1. BootTime \in 0..BootTime
        BY Sizes
      <3> QED
        BY <1>0, <2>1, <3>1 DEF StopsMiner, MinerType
    <2>2. CASE StartsMiner \/ RestartsItself
      BY <1>0, <1>2, <2>2 DEF StartsMiner, RestartsItself
    <2>3. CASE Hashes
      BY <1>0, <2>3 DEF Hashes, MinerType
    <2>4. ASSUME NEW p \in Powers, Derates(p)
          PROVE  miner' \in MinerType
      BY <1>0, <2>4 DEF Derates, MinerType
    <2> QED
      BY <1>0, <2>1, <2>2, <2>3, <2>4 DEF PollFails, vars
  <1>4. past' \in PastType /\ past'.clean = past.clean
    BY <1>0, Interrupting DEF PollFails, StopsMiner, StartsMiner, Hashes, RestartsItself, Derates, vars
  <1>5. Keeps(ctl, ctl')
    <2>1. CASE StopsMiner \/ StartsMiner
      <3>1. [ctl EXCEPT !.actuated = 0] \in Memory
        BY <1>0, Ages, Sizes DEF Memory
      <3>2. Keeps(ctl, [ctl EXCEPT !.actuated = 0])
        BY <1>0, <3>1 DEF Keeps, Regressing, Memory
      <3> QED
        BY <1>0, <2>1, <3>2, KeepsSame DEF StopsMiner, StartsMiner, Actuates
    <2>2. CASE PollFails
      <3>1. CASE ctl.mining = "unknown"
        <4>1. PICK m \in {FALSE, miner.hashes} :
                 ctl' = [Edges(ctl, m, miner.limit) EXCEPT !.mining = IF m THEN "yes" ELSE "no"]
          BY <2>2, <3>1 DEF PollFails
        <4>2. m \in BOOLEAN
          BY <1>0
        <4> QED
          BY <1>0, <4>1, <4>2, Edging
      <3> QED
        BY <1>0, <2>2, <3>1, KeepsSame DEF PollFails
    <2> QED
      BY <1>0, <2>1, <2>2, KeepsSame DEF Hashes, RestartsItself, Derates, vars
  <1> QED
    BY <1>1, <1>3, <1>4, <1>5, CleanStep

\* The reset forgets the faults with what they tainted.
LEMMA ResetKeeps == FaultInv /\ ResetsFaultMemory => Kept
  <1> SUFFICES ASSUME FaultInv, ResetsFaultMemory PROVE Kept
    OBVIOUS
  <1>0. /\ ctl \in Memory /\ Regressing(ctl) /\ past \in PastType /\ miner \in MinerType
        /\ fresh \in BOOLEAN /\ events \in 0..MaxEvents
    BY DEF FaultInv, TypeOK, Regressing, PastType, MinerType
  <1>1. fresh' \in BOOLEAN /\ events' \in 0..MaxEvents /\ miner' \in MinerType
    BY <1>0, Sizes DEF ResetsFaultMemory, Event
  <1>2. past' \in PastType /\ past'.clean = StableRun
    <2>1. past' = [past EXCEPT !.clean = StableRun] /\ StableRun \in 0..StableRun
      BY Sizes DEF ResetsFaultMemory
    <2> QED
      BY <1>0, <2>1 DEF PastType
  <1> DEFINE m == NoCandidate(ctl)
             n == [m EXCEPT
                 !.crash_at = None, !.crash_floor = None, !.fault_at = None,
                 !.fault_power = None, !.proven_max = None, !.proven_at = None,
                 !.tainted = FALSE, !.derated = FALSE, !.match_polls = 0]
  <1>3. m \in Memory /\ Beside(ctl, m) /\ Regressing(m)
    BY <1>0, ForgettingCandidate DEF Beside
  <1>4. ctl' = n
    BY DEF ResetsFaultMemory
  <1>5. None \in Age(FaultTTL) /\ None \in Power /\ 0 \in 0..DeratePolls
    BY Ages, Sizes DEF Power
  <1> HIDE DEF m
  <1>6. n \in Memory
    BY <1>3, <1>5 DEF Memory
  <1>7. /\ n.fault_at = None /\ n.proven_at = None /\ n.hold_since = m.hold_since
        /\ Regressing(n)
    BY <1>3, <1>6 DEF Memory, Regressing
  <1>8. n.hold_since = None \/ n.hold_since <= StableRun
    BY <1>6, Ages, Sizes DEF Memory
  <1> HIDE DEF n
  <1>9. FaultKept(ctl') /\ HoldKept' /\ ~Credits
    <2>1. 0 # None /\ ctl'.fault_at = None /\ ctl'.proven_at = None
      BY <1>4, <1>7 DEF None
    <2>2. FaultKept(ctl') /\ ~Credits
      BY <2>1 DEF FaultKept, Armed, Credits
    <2>3. HoldKept'
      BY <1>2, <1>4, <1>8 DEF HoldKept
    <2> QED
      BY <2>2, <2>3
  <1> QED
    BY <1>1, <1>2, <1>4, <1>6, <1>7, <1>9, TypesFrom DEF FaultInv, Kept

\* A reload keeps the faults and their proofs, and no hold.
LEMMA ReloadKeeps == FaultInv /\ Reloads => Kept
  <1> SUFFICES ASSUME FaultInv, Reloads PROVE Kept
    OBVIOUS
  <1>0. /\ ctl \in Memory /\ FaultKept(ctl) /\ past \in PastType /\ miner \in MinerType
        /\ fresh \in BOOLEAN /\ events \in 0..MaxEvents
    BY DEF FaultInv, TypeOK, PastType, MinerType
  <1>1. /\ fresh' \in BOOLEAN /\ events' \in 0..MaxEvents /\ miner' \in MinerType
        /\ past' \in PastType
    <2>1. fresh' = FALSE /\ UNCHANGED <<miner, past>> /\ Event
      BY DEF Reloads
    <2>2. events' \in 0..MaxEvents
      BY <1>0, <2>1, Sizes DEF Event
    <2> QED
      BY <1>0, <2>1, <2>2
  <1>2. Started \in Memory /\ Started.hold_since = None /\ Started.before = None
        /\ ~Started.ours /\ ~Started.short /\ Started.regression_power = None
    <2>1. /\ \A h \in Nat : None \in Age(h)
          /\ None \in Power /\ 0 \in 0..DeratePolls
      BY Ages, Sizes DEF Power
    <2>2. Started \in Memory
      BY <2>1, Sizes DEF Started, Memory
    <2> QED
      BY <2>2 DEF Started
  <1> DEFINE n == [Started EXCEPT
                 !.crash_at = ctl.crash_at, !.crash_floor = ctl.crash_floor,
                 !.fault_at = ctl.fault_at, !.fault_power = ctl.fault_power,
                 !.proven_max = ctl.proven_max, !.proven_at = ctl.proven_at,
                 !.limit = ctl.limit]
  <1>3. ctl' = n
    BY DEF Reloads
  <1>4. /\ ctl.crash_at \in Age(FaultTTL) /\ ctl.crash_floor \in Nat \cup {None}
        /\ ctl.fault_at \in Age(FaultTTL) /\ ctl.fault_power \in Power
        /\ ctl.proven_max \in Power /\ ctl.proven_at \in Age(FaultTTL) /\ ctl.limit \in Power
    BY <1>0 DEF Memory
  <1>5. n \in Memory
    BY <1>2, <1>4 DEF Memory
  <1>6. /\ n.fault_at = ctl.fault_at /\ n.proven_at = ctl.proven_at
        /\ n.proven_max = ctl.proven_max /\ n.hold_since = None /\ Regressing(n)
    BY <1>2, <1>5 DEF Memory, Regressing
  <1> HIDE DEF n
  <1>7. FaultKept(ctl')
    BY <1>0, <1>3, <1>5, <1>6, DenialKept
  <1>8. HoldKept' /\ ~Credits
    BY <1>3, <1>6 DEF HoldKept, Credits
  <1> QED
    BY <1>1, <1>3, <1>5, <1>6, <1>7, <1>8, TypesFrom DEF FaultInv, Kept

\* A tick makes all ages older alike.
LEMMA TickKeeps == FaultInv /\ Tick => Kept
  <1> SUFFICES ASSUME FaultInv, Tick PROVE Kept
    OBVIOUS
  <1>0. /\ ctl \in Memory /\ Regressing(ctl) /\ FaultKept(ctl) /\ Within(ctl, past.clean)
        /\ past \in PastType /\ miner \in MinerType
        /\ fresh \in BOOLEAN /\ events \in 0..MaxEvents
    BY DEF FaultInv, TypeOK, HoldKept, Within, Regressing, PastType, MinerType
  <1>1. fresh' \in BOOLEAN /\ events' \in 0..MaxEvents
    BY <1>0 DEF Tick
  <1>2. miner' \in MinerType
    <2> DEFINE up == miner.up + 1  warm == Larger(miner.warm - 1, 0)
    <2>1. miner.up \in 0..MaxUptime /\ miner.warm \in 0..BootTime /\ miner.up < MaxUptime
      BY <1>0 DEF MinerType, Tick
    <2>2. up \in 0..MaxUptime /\ warm \in 0..BootTime
      BY <2>1, Sizes DEF Larger
    <2>3. miner' = [miner EXCEPT !.up = up, !.warm = warm]
      BY DEF Tick
    <2> HIDE DEF up, warm
    <2> QED
      BY <1>0, <2>2, <2>3 DEF MinerType
  <1>3. past' \in PastType /\ past'.clean = Smaller(past.clean + 1, StableRun)
    <2> DEFINE clean == Smaller(past.clean + 1, StableRun)
               held == IF miner.hashes /\ ~past.broken THEN Smaller(past.held + 1, StableRun)
                       ELSE past.held
               silent == past.silent + 1
    <2>1. /\ past.clean \in 0..StableRun /\ past.held \in 0..StableRun
          /\ past.silent \in 0..MaxSilence /\ past.silent < MaxSilence
      BY <1>0 DEF PastType, Tick
    <2>2. clean \in 0..StableRun /\ held \in 0..StableRun /\ silent \in 0..MaxSilence
      BY <2>1, Sizes DEF Smaller
    <2>3. past' = [past EXCEPT !.clean = clean, !.held = held, !.silent = silent]
      BY DEF Tick
    <2> HIDE DEF clean, held, silent
    <2>4. past' \in PastType /\ past'.clean = clean
      BY <1>0, <2>2, <2>3 DEF PastType
    <2> QED
      BY <2>4 DEF clean
  <1>4. ctl' = Aged(ctl)
    BY DEF Tick
  <1>5. /\ ctl' \in Memory /\ Regressing(ctl') /\ FaultKept(ctl')
        /\ ctl'.proven_at = Older(ctl.proven_at, FaultTTL)
        /\ ctl'.hold_since = Older(ctl.hold_since, StableRun) /\ ctl'.tainted = ctl.tainted
    BY <1>0, <1>4, Aging, DenialAges
  <1>6. HoldKept'
    <2>1. /\ ctl.hold_since \in Age(StableRun) /\ past.clean \in 0..StableRun
          /\ StableRun \in Nat
      BY <1>0, Sizes DEF Memory, PastType
    <2> QED
      BY <1>0, <1>3, <1>5, <2>1 DEF HoldKept, Within, Older, Smaller, Age, None
  <1>7. ~Credits
    <2>1. ctl.proven_at \in Age(FaultTTL) /\ FaultTTL \in Nat \ {0}
      BY <1>0, Sizes DEF Memory
    <2>2. ctl'.proven_at # 0
      BY <1>5, <2>1 DEF Older, Age, None
    <2> QED
      BY <2>2 DEF Credits
  <1> QED
    BY <1>1, <1>2, <1>3, <1>5, <1>6, <1>7, TypesFrom DEF FaultInv, Kept

\* No step disturbs the invariant or credits what is not clean.
LEMMA FaultSteps == FaultInv /\ [Next]_vars => Kept
  <1> SUFFICES ASSUME FaultInv, [Next]_vars PROVE Kept
    OBVIOUS
  <1>0. TypeOK /\ events \in 0..MaxEvents
    BY DEF FaultInv, TypeOK
  <1>1. CASE PollSucceeds
    <2>1. PICK i \in Shows : PollShows(i, FALSE) /\ (IF i.error THEN Event ELSE UNCHANGED events)
      BY <1>1 DEF PollSucceeds
    <2>2. events' \in 0..MaxEvents
      BY <1>0, <2>1, Sizes DEF Event
    <2> QED
      BY <2>1, <2>2, PollKeeps
  <1>2. CASE PollGarbled
    <2>1. PICK i \in Shows : PollShows(i, TRUE) /\ Event
      BY <1>2 DEF PollGarbled
    <2>2. events' \in 0..MaxEvents
      BY <1>0, <2>1, Sizes DEF Event
    <2> QED
      BY <2>1, <2>2, PollKeeps
  <1>3. ASSUME NEW p \in Floor(ctl)..Ceiling(ctl), SetLimit(p) \/ SetPower(p)
        PROVE  Kept
    BY <1>0, <1>3, PowersBetween, SettingKeeps
  <1> QED
    BY <1>1, <1>2, <1>3, MinerKeeps, ResetKeeps, ReloadKeeps, TickKeeps DEF Next

\* At first nothing is known of any fault.
LEMMA FaultBegins == Init => FaultInv
  <1> SUFFICES ASSUME Init PROVE FaultInv
    OBVIOUS
  <1>1. Started \in Memory /\ Regressing(Started) /\ Started.fault_at = None
        /\ Started.hold_since = None
    <2>1. /\ \A h \in Nat : None \in Age(h)
          /\ None \in Power /\ 0 \in 0..DeratePolls
      BY Ages, Sizes DEF Power
    <2>2. Started \in Memory
      BY <2>1, Sizes DEF Started, Memory
    <2> QED
      BY <2>2 DEF Started, Regressing
  <1>2. miner \in MinerType
    <2>1. PICK p \in Powers : miner = [Booting(p) EXCEPT !.warm = 0]
      BY DEF Init
    <2>2. Booting(p) \in MinerType /\ 0 \in 0..BootTime
      BY Sizes DEF Booting, MinerType
    <2> QED
      BY <2>1, <2>2 DEF MinerType
  <1>3. past \in PastType
    BY Sizes DEF Init, PastType
  <1>4. TypeOK
    <2>1. ctl = Started /\ fresh = FALSE /\ events = 0 /\ 0 \in 0..MaxEvents
      BY Sizes DEF Init
    <2> QED
      BY <1>1, <1>2, <1>3, <2>1 DEF TypeOK, Regressing, MinerType, PastType
  <1> QED
    BY <1>1, <1>4 DEF Init, FaultInv, FaultKept, HoldKept, Armed

\* The invariant holds throughout.
LEMMA FaultInductive == Spec => []FaultInv
  <1>1. FaultInv /\ [Next]_vars => FaultInv'
    BY FaultSteps DEF Kept
  <1> QED
    BY <1>1, FaultBegins, PTL DEF Spec

----------------------------------------------------------------------------
(* The theorems *)

\* Whatever faults, derates and crashes came together and whatever the margins
\* are, there is a power to command (_clamp_bounds): the floor is not above the
\* ceiling, and both are powers.
THEOREM PowerExists == Spec => []BoundsOrdered
  <1>1. FaultInv => BoundsOrdered
    BY PowersBetween DEF FaultInv, BoundsOrdered
  <1> QED
    BY <1>1, FaultInductive, PTL

\* For STABLE_RUN_MIN_S after a fault, no proof lifts the ceiling off the power
\* that faulted (_fault_ceiling).
THEOREM FaultLowers == Spec => []NoEarlyWitness
  <1>1. FaultInv => NoEarlyWitness
    <2> SUFFICES ASSUME FaultInv, Armed(ctl.fault_at), ctl.fault_at < StableRun
                 PROVE  Ceiling(ctl) <= Larger(PowerMin, Known(ctl.fault_power, PowerMin) + ProvenMargin)
      BY DEF NoEarlyWitness
    <2>1. /\ ctl \in Memory /\ ctl.fault_at \in Nat
          /\ ctl.proven_at = None \/ ctl.proven_at >= ctl.fault_at
      BY Ages, Sizes DEF FaultInv, TypeOK, FaultKept, Denies, Armed, Memory
    <2>2. ctl.proven_at \in Nat \cup {None}
      BY <2>1, Ages, Sizes DEF Memory
    <2>3. ~Witnessed(ctl)
      BY <2>1, <2>2 DEF Witnessed
    <2>4. Known(ctl.fault_power, PowerMin) \in Nat
      BY <2>1, Sizes DEF Known, Memory, Power, Powers
    <2>5. Ceiling(ctl) = Larger(PowerMin, Smaller(PowerMax,
                                  Known(ctl.fault_power, PowerMin) + ProvenMargin))
      BY <2>3 DEF Ceiling, FaultReference
    <2> QED
      BY <2>4, <2>5, Sizes DEF Larger, Smaller
  <1> QED
    BY <1>1, FaultInductive, PTL

\* A hold is credited, or proven again, only after STABLE_RUN_MIN_S without
\* fault evidence: what a poll shows is taken before what it credits.
THEOREM CreditsCleanRuns == Spec => CreditIsClean
  <1>1. FaultInv /\ [Next]_vars => [Credits => past'.clean >= StableRun]_vars
    BY FaultSteps DEF Kept
  <1> QED
    BY <1>1, FaultInductive, PTL DEF Spec, CreditIsClean

(***************************************************************************)
(* What a credit rests on: the miner has hashed, without a restart, for as *)
(* long as the hold lasts, up to the last good poll.  That needs polls     *)
(* closer together than a boot takes: the first poll after a restart then  *)
(* shows a miner that does not hash, and cuts the hold.                    *)
(***************************************************************************)

\* A hold that has lasted a full run, tainted or not.
HeldLong(c) == c.hold_since # None /\ c.hold_since >= StableRun

\* What a step may do to the hold, and what it credits.
HoldMoves ==
    /\ ctl'.hold_since \in {ctl.hold_since, 0, None}
    /\ Credits => HeldLong(ctl)

\* The hold is no longer than the miner was seen hashing, but for the silence
\* since it broke off.
HoldHashed ==
    ctl.hold_since # None =>
        ctl.hold_since <= past.held + (IF past.broken THEN past.silent ELSE 0)

\* A miner that was seen hashing, or holds a power, hashes until it breaks off,
\* and then not before its boot is over.
StillHashes ==
    /\ (ctl.mining = "yes" \/ ctl.hold_since # None) /\ ~past.broken => miner.hashes
    /\ past.broken => ~miner.hashes /\ miner.warm + past.silent >= BootTime

HeldInv == HoldHashed /\ StillHashes

\* A hold is not credited before it is full, nor without the credit showing.
LEMMA MovesFrom ==
    ASSUME NEW d \in Memory, d.hold_since = ctl.hold_since, d.proven_max = ctl.proven_max,
           d.proven_at = ctl.proven_at, Keeps(d, ctl')
    PROVE  HoldMoves
  BY DEF Keeps, HoldMoves, Credits, HeldFull, HeldLong

\* A poll that shows a miner which does not hash ends the hold.
LEMMA NotHolding ==
    ASSUME NEW c \in Memory, NEW i \in Shows, NEW r \in Powers, ~i.mining
    PROVE  Handled(c, i, r).hold_since = None
  <1> DEFINE d == NotesDerate(NotesErrors(c, i.error, r), i.mining, i.tuned, r)
             s == NotesRegression(d, i.up, i.thermal, r)
             idle == IF s.idle # None /\ i.up < s.idle THEN None ELSE s.idle
             since == IF i.mining THEN idle ELSE IF i.up > 0 THEN i.up ELSE None
             n == [s EXCEPT !.uptime = i.up, !.idle = since]
             h == NotesHold(n, i.mining, r)
             a == Adopts(h, i.adopts, r)
             e == Edges(a, i.mining, r)
  <1>0. /\ i.mining = FALSE /\ i.up \in Uptimes /\ i.error \in BOOLEAN /\ i.tuned \in BOOLEAN
        /\ i.thermal \in BOOLEAN /\ i.adopts \in BOOLEAN
    BY DEF Shows, Uptimes
  <1>1. Handled(c, i, r) = [e EXCEPT !.mining = IF i.mining THEN "yes" ELSE "no"]
    BY DEF Handled, Evidence, NotesUptime
  <1>2. d \in Memory
    <2>1. NotesErrors(c, i.error, r) \in Memory
      BY <1>0, InForce, NotingFault DEF NotesErrors, Faults
    <2> QED
      BY <1>0, <2>1, NotingDerate DEF Faults
  <1> HIDE DEF d
  <1>3. s \in Memory
    BY <1>0, <1>2, NotingRegression DEF Keeps
  <1> HIDE DEF s
  <1>4. since \in 0..MaxUptime \cup {None}
    BY <1>0, <1>3 DEF Memory, Uptimes
  <1> HIDE DEF since
  <1>5. n \in Memory
    BY <1>0, <1>3, <1>4 DEF Memory, Uptimes
  <1> HIDE DEF n
  <1>6. h \in Memory /\ h.hold_since = None
    <2>1. h = Holding(Settled(n), None)
      BY <1>0 DEF NotesHold, HoldsAt
    <2>2. Settled(n) \in Memory
      BY <1>5, Settling DEF Keeps
    <2>3. Holding(Settled(n), None) \in Memory
      BY <2>2, BeginningHold DEF Keeps, Power
    <2>4. Holding(Settled(n), None).hold_since = None
      BY <2>2 DEF Holding, Memory
    <2> QED
      BY <2>1, <2>3, <2>4
  <1> HIDE DEF h
  <1>7. a \in Memory /\ a.hold_since = None
    <2>1. a \in Memory
      BY <1>0, <1>6, Adopting DEF Keeps
    <2>2. a = h \/ a = [h EXCEPT !.limit = r]
      BY DEF Adopts
    <2> QED
      BY <1>6, <2>1, <2>2 DEF Memory
  <1> HIDE DEF a
  <1>8. e \in Memory /\ e.hold_since = None
    <2>1. CASE a.mining = "yes"
      <3>1. e = Holding(Settled(a), None)
        BY <1>0, <2>1 DEF Edges
      <3>2. Settled(a) \in Memory
        BY <1>7, Settling DEF Keeps
      <3>3. Holding(Settled(a), None) \in Memory
        BY <3>2, BeginningHold DEF Keeps, Power
      <3>4. Holding(Settled(a), None).hold_since = None
        BY <3>2 DEF Holding, Memory
      <3> QED
        BY <3>1, <3>3, <3>4
    <2>2. CASE a.mining # "yes"
      BY <1>0, <1>7, <2>2 DEF Edges
    <2> QED
      BY <2>1, <2>2
  <1> HIDE DEF e
  <1> QED
    BY <1>1, <1>8 DEF Memory

\* The poll takes note of whether the miner hashes.
LEMMA HandledMining ==
    ASSUME NEW c \in Memory, NEW i \in Shows, NEW r \in Powers
    PROVE  Handled(c, i, r).mining = IF i.mining THEN "yes" ELSE "no"
  <1> DEFINE e == Edges(Adopts(Evidence(c, i, r), i.adopts, r), i.mining, r)
             word == IF i.mining THEN "yes" ELSE "no"
  <1>1. Handled(c, i, r) = [e EXCEPT !.mining = word]
    BY DEF Handled
  <1>2. Handled(c, i, r) \in Memory
    BY Handling
  <1> HIDE DEF e, word
  <1>3. [e EXCEPT !.mining = word].mining = word
    BY <1>1, <1>2 DEF Memory
  <1> QED
    BY <1>1, <1>3 DEF word

\* What breaks the miner off leaves the rest of the history.
LEMMA BreakingOff ==
    ASSUME past \in PastType, NEW boot \in {"none", "self", "us"}, Interrupted(boot)
    PROVE  /\ past'.broken = TRUE /\ past'.held = past.held /\ past'.silent = past.silent
           /\ past'.garbled = past.garbled
           /\ past'.boots = IF boot = "none" THEN past.boots ELSE past.boots \cup {boot}
  <1> DEFINE boots == IF boot = "none" THEN past.boots ELSE past.boots \cup {boot}
  <1>1. past' = [past EXCEPT !.broken = TRUE, !.boots = boots]
    BY DEF Interrupted
  <1> HIDE DEF boots
  <1>2. /\ past'.broken = TRUE /\ past'.held = past.held /\ past'.silent = past.silent
        /\ past'.garbled = past.garbled /\ past'.boots = boots
    BY <1>1 DEF PastType
  <1> QED
    BY <1>2 DEF boots

\* The numbers in the invariant.
LEMMA HeldTypes ==
    ASSUME TypeOK
    PROVE  /\ ctl \in Memory /\ Regressing(ctl) /\ past \in PastType /\ miner \in MinerType
           /\ ctl.hold_since \in Nat \cup {None} /\ None \notin Nat
           /\ ctl.hold_since = None \/ ctl.hold_since <= StableRun
           /\ past.held \in Nat /\ past.held <= StableRun
           /\ past.silent \in Nat /\ past.silent <= MaxSilence
           /\ past.broken \in BOOLEAN /\ past.garbled \in BOOLEAN
           /\ miner.warm \in Nat /\ miner.up \in Nat /\ miner.hashes \in BOOLEAN
           /\ miner.limit \in Powers
  <1>1. /\ ctl \in Memory /\ Regressing(ctl) /\ past \in PastType /\ miner \in MinerType
    BY DEF TypeOK, Regressing, PastType, MinerType
  <1>2. ctl.hold_since \in Nat \cup {None} /\ None \notin Nat
        /\ (ctl.hold_since = None \/ ctl.hold_since <= StableRun)
    BY <1>1, Ages, Sizes DEF Memory
  <1>3. /\ past.held \in Nat /\ past.held <= StableRun
        /\ past.silent \in Nat /\ past.silent <= MaxSilence
        /\ past.broken \in BOOLEAN /\ past.garbled \in BOOLEAN
    BY <1>1, Sizes DEF PastType
  <1>4. miner.warm \in Nat /\ miner.up \in Nat /\ miner.hashes \in BOOLEAN /\ miner.limit \in Powers
    BY <1>1, Sizes DEF MinerType
  <1> QED
    BY <1>1, <1>2, <1>3, <1>4
\* A poll cuts the hold of a miner that has broken off, and cuts no other short.
LEMMA PollHeld ==
    ASSUME TypeOK, HeldInv, NEW i \in Shows, NEW garbled \in BOOLEAN, PollShows(i, garbled),
           i.mining => miner.hashes
    PROVE  HeldInv' /\ HoldMoves
  <1>1. /\ ctl \in Memory /\ past \in PastType /\ miner.limit \in Powers
        /\ past.broken \in BOOLEAN /\ miner.hashes \in BOOLEAN
        /\ past.held \in Nat /\ past.silent \in Nat
    BY HeldTypes
  <1>2. ctl' = Handled(ctl, i, miner.limit) /\ UNCHANGED miner
    BY DEF PollShows
  <1>3. past'.broken = FALSE /\ (~past.broken /\ miner.hashes => past'.held = past.held)
    <2> DEFINE clean == IF FaultShown(i) THEN 0 ELSE past.clean
               held == IF past.broken \/ ~miner.hashes THEN 0 ELSE past.held
               boots == IF ctl'.before = None THEN {} ELSE past.boots
    <2>1. past' = [past EXCEPT !.clean = clean, !.held = held, !.broken = FALSE, !.silent = 0,
                               !.garbled = garbled, !.boots = boots]
      BY DEF PollShows
    <2>2. ~past.broken /\ miner.hashes => held = past.held
      OBVIOUS
    <2> HIDE DEF clean, held, boots
    <2> QED
      BY <1>1, <2>1, <2>2 DEF PastType
  <1>4. HoldMoves
    <2>1. PICK d \in Memory : Faults(ctl, d) /\ Keeps(d, ctl')
      BY <1>1, <1>2, Handling
    <2> QED
      BY <2>1, MovesFrom DEF Faults
  <1>5. CASE ~i.mining
    <2>1. ctl'.hold_since = None /\ ctl'.mining = "no"
      BY <1>1, <1>2, <1>5, NotHolding, HandledMining
    <2> QED
      BY <1>3, <1>4, <2>1 DEF HeldInv, HoldHashed, StillHashes
  <1>6. CASE i.mining
    <2>1. miner.hashes /\ ~past.broken /\ past'.held = past.held
      BY <1>3, <1>6 DEF HeldInv, StillHashes
    <2>2. StillHashes'
      BY <1>2, <1>3, <2>1 DEF StillHashes
    <2>3. ctl.hold_since # None => ctl.hold_since <= past.held
      BY <1>1, <2>1 DEF HeldInv, HoldHashed
    <2>4. HoldHashed'
      <3> SUFFICES ASSUME ctl'.hold_since # None
                   PROVE  ctl'.hold_since <= past'.held
        BY <1>1, <1>3, <2>1 DEF HoldHashed
      <3> QED
        BY <1>1, <1>4, <2>1, <2>3 DEF HoldMoves
    <2> QED
      BY <1>4, <2>2, <2>4 DEF HeldInv
  <1> QED
    BY <1>5, <1>6

\* A command begins a hold of its own.
LEMMA CommandMoves ==
    ASSUME TypeOK, NEW p \in Powers, SetLimit(p) \/ SetPower(p)
    PROVE  HoldMoves
  <1>1. ctl \in Memory
    BY HeldTypes
  <1>2. ASSUME NEW n \in Memory, Beside(ctl, n), ctl' = CommandBoundary(n)
        PROVE  HoldMoves
    <2>1. /\ ctl'.hold_since = 0
          /\ \/ ctl'.proven_max = n.proven_max /\ ctl'.proven_at = n.proven_at
             \/ HeldFull(n) /\ ctl'.proven_at = 0
      BY <1>2, CommandingAnew
    <2> QED
      BY <1>2, <2>1 DEF Beside, HoldMoves, Credits, HeldFull, HeldLong
  <1>3. CASE SetPower(p)
    <2> DEFINE n == [ctl EXCEPT !.force = p]
    <2>1. n \in Memory
      BY <1>1 DEF Memory, Power
    <2>2. Beside(ctl, n) /\ ctl' = CommandBoundary(n)
      BY <1>1, <1>3, <2>1 DEF Beside, Memory, SetPower
    <2> QED
      BY <1>2, <2>1, <2>2
  <1>4. CASE SetLimit(p)
    <2> DEFINE m == NoCandidate(ctl)
               n == [m EXCEPT !.limit = p, !.force = p, !.commanded = p, !.sent_at = 0,
                              !.match_polls = 0, !.actuated = 0]
    <2>1. Beside(ctl, m) /\ m \in Memory
      BY <1>1, ForgettingCandidate DEF Beside
    <2>2. ctl' = CommandBoundary(n) \/ UNCHANGED ctl
      BY <1>4 DEF SetLimit
    <2>3. /\ p \in Power /\ 0 \in Age(DeratePostWrite) /\ 0 \in Age(BootHold)
          /\ 0 \in 0..DeratePolls
      BY Ages, Sizes DEF Power
    <2> HIDE DEF m
    <2>4. n \in Memory
      BY <2>1, <2>3 DEF Memory
    <2>5. Beside(m, n)
      BY <2>1, <2>4 DEF Beside, Memory
    <2> HIDE DEF n
    <2>6. Beside(ctl, n)
      BY <2>1, <2>5 DEF Beside
    <2>7. UNCHANGED ctl => HoldMoves
      BY DEF HoldMoves, Credits
    <2> QED
      BY <1>2, <2>2, <2>4, <2>6, <2>7
  <1> QED
    BY <1>3, <1>4

\* So does the limit, which restarts btminer; a set power finds it hashing.
LEMMA CommandHeld ==
    ASSUME TypeOK, HeldInv, NEW p \in Powers, SetLimit(p) \/ SetPower(p)
    PROVE  HeldInv' /\ HoldMoves
  <1>1. /\ past \in PastType /\ ctl.hold_since \in Nat \cup {None}
        /\ past.held \in Nat /\ past.silent \in Nat /\ past.broken \in BOOLEAN
    BY HeldTypes
  <1>2. HoldMoves
    BY CommandMoves
  <1>3. CASE SetLimit(p)
    <2>1. miner' = Booting(p) /\ Interrupted("us")
      BY <1>3 DEF SetLimit
    <2>2. /\ past'.broken = TRUE /\ past'.held = past.held /\ past'.silent = past.silent
          /\ miner'.hashes = FALSE /\ miner'.warm = BootTime
      BY <1>1, <2>1, BreakingOff DEF Booting
    <2>3. HoldHashed'
      BY <1>1, <1>2, <2>2 DEF HeldInv, HoldHashed, HoldMoves
    <2>4. StillHashes'
      BY <1>1, <2>2, Sizes DEF StillHashes
    <2> QED
      BY <1>2, <2>3, <2>4 DEF HeldInv
  <1>4. CASE SetPower(p)
    <2>1. ctl.mining = "yes" /\ UNCHANGED <<miner, past>>
      BY <1>4 DEF SetPower, Commands
    <2>2. HoldHashed'
      BY <1>1, <1>2, <2>1 DEF HeldInv, HoldHashed, HoldMoves
    <2>3. StillHashes'
      BY <2>1 DEF HeldInv, StillHashes
    <2> QED
      BY <1>2, <2>2, <2>3 DEF HeldInv
  <1> QED
    BY <1>3, <1>4

\* A poll that fails has the edge of a miner not seen before, at most.
LEMMA FailedHeld ==
    ASSUME TypeOK, HeldInv, PollFails
    PROVE  HeldInv' /\ HoldMoves
  <1>1. /\ ctl \in Memory /\ miner.limit \in Powers /\ miner.hashes \in BOOLEAN
        /\ ctl.hold_since \in Nat \cup {None}
        /\ past.held \in Nat /\ past.silent \in Nat /\ past.broken \in BOOLEAN
    BY HeldTypes
  <1>2. UNCHANGED <<miner, past>>
    BY DEF PollFails
  <1>3. CASE ctl' = ctl
    BY <1>2, <1>3 DEF HeldInv, HoldHashed, StillHashes, HoldMoves, Credits
  <1>4. CASE ctl.mining = "unknown"
    <2>1. PICK m \in {FALSE, miner.hashes} :
             ctl' = [Edges(ctl, m, miner.limit) EXCEPT !.mining = IF m THEN "yes" ELSE "no"]
      BY <1>4 DEF PollFails
    <2>2. m \in BOOLEAN /\ (m => miner.hashes)
      BY <1>1
    <2>3. Keeps(ctl, ctl')
      BY <1>1, <2>1, <2>2, Edging
    <2>4. HoldMoves
      BY <1>1, <2>3, MovesFrom
    <2>5. HoldHashed'
      BY <1>1, <1>2, <2>4 DEF HeldInv, HoldHashed, HoldMoves
    <2>6. m \/ (ctl'.mining = "no" /\ ctl'.hold_since = ctl.hold_since)
      <3>1. CASE m = FALSE
        <4>1. ctl' = [ctl EXCEPT !.mining = "no"]
          BY <1>4, <2>1, <3>1 DEF Edges
        <4> QED
          BY <1>1, <4>1 DEF Memory
      <3> QED
        BY <2>2, <3>1
    <2>7. StillHashes'
      BY <1>2, <2>2, <2>6 DEF HeldInv, StillHashes
    <2> QED
      BY <2>4, <2>5, <2>7 DEF HeldInv
  <1> QED
    BY <1>3, <1>4 DEF PollFails

\* The miner breaks off, hashes once its boot is over, or changes its limit.
LEMMA MinerHeld ==
    ASSUME TypeOK, HeldInv, BootTime > MaxSilence,
           \/ StopsMiner \/ StartsMiner \/ Hashes \/ RestartsItself
           \/ \E p \in Powers : Derates(p)
           \/ UNCHANGED vars
    PROVE  HeldInv' /\ HoldMoves
  <1>1. /\ ctl \in Memory /\ past \in PastType /\ miner \in MinerType
        /\ ctl.hold_since \in Nat \cup {None}
        /\ past.held \in Nat /\ past.silent \in Nat /\ past.silent <= MaxSilence
        /\ past.broken \in BOOLEAN
    BY HeldTypes
  <1>2. /\ ctl'.hold_since = ctl.hold_since /\ ctl'.mining = ctl.mining
        /\ ctl'.proven_at = ctl.proven_at /\ ctl'.proven_max = ctl.proven_max
    <2>1. ctl' = ctl \/ ctl' = [ctl EXCEPT !.actuated = 0]
      BY DEF StopsMiner, StartsMiner, Actuates, Hashes, RestartsItself, Derates, vars
    <2> QED
      BY <1>1, <2>1 DEF Memory
  <1>3. HoldMoves
    BY <1>2 DEF HoldMoves, Credits
  <1>4. \/ /\ past'.broken = TRUE /\ past'.held = past.held /\ past'.silent = past.silent
           /\ miner'.hashes = FALSE /\ miner'.warm = BootTime
        \/ UNCHANGED past /\ miner'.hashes = miner.hashes /\ miner'.warm = miner.warm
        \/ /\ UNCHANGED past /\ miner'.hashes = TRUE /\ miner.warm = 0
    <2>1. \A l : Booting(l).hashes = FALSE /\ Booting(l).warm = BootTime
      BY DEF Booting
    <2>2. CASE StopsMiner
      <3>1. miner'.hashes = FALSE /\ miner'.warm = BootTime
        BY <1>1, <2>2 DEF StopsMiner, MinerType
      <3> QED
        BY <1>1, <2>2, <3>1, BreakingOff DEF StopsMiner
    <2>3. CASE StartsMiner \/ RestartsItself
      BY <1>1, <2>1, <2>3, BreakingOff DEF StartsMiner, RestartsItself
    <2>4. CASE Hashes
      BY <1>1, <2>4 DEF Hashes, MinerType
    <2>5. CASE \E p \in Powers : Derates(p)
      BY <1>1, <2>5 DEF Derates, MinerType
    <2>6. CASE UNCHANGED vars
      BY <2>6 DEF vars
    <2> QED
      BY <2>2, <2>3, <2>4, <2>5, <2>6
  <1>5. HoldHashed'
    BY <1>1, <1>2, <1>4 DEF HeldInv, HoldHashed
  <1>6. StillHashes'
    <2>1. BootTime \in Nat /\ MaxSilence \in Nat
      BY Sizes
    <2>2. past.broken => ~(miner.warm = 0)
      BY <1>1, <2>1 DEF HeldInv, StillHashes
    <2> QED
      BY <1>1, <1>2, <1>4, <2>1, <2>2 DEF HeldInv, StillHashes
  <1> QED
    BY <1>3, <1>5, <1>6 DEF HeldInv

\* A reset and a reload credit nothing.
LEMMA MemoryHeld ==
    ASSUME TypeOK, HeldInv, ResetsFaultMemory \/ Reloads
    PROVE  HeldInv' /\ HoldMoves
  <1>1. /\ ctl \in Memory /\ past \in PastType /\ ctl.hold_since \in Nat \cup {None}
    BY HeldTypes
  <1>2. CASE ResetsFaultMemory
    <2> DEFINE m == NoCandidate(ctl)
               n == [m EXCEPT
                 !.crash_at = None, !.crash_floor = None, !.fault_at = None,
                 !.fault_power = None, !.proven_max = None, !.proven_at = None,
                 !.tainted = FALSE, !.derated = FALSE, !.match_polls = 0]
    <2>1. m.hold_since = ctl.hold_since /\ m.mining = ctl.mining /\ m \in Memory
      BY <1>1, ForgettingCandidate DEF Beside, NoCandidate, Memory
    <2>2. ctl' = n
      BY <1>2 DEF ResetsFaultMemory
    <2> HIDE DEF m
    <2>3. /\ ctl'.hold_since = ctl.hold_since /\ ctl'.mining = ctl.mining
          /\ ctl'.proven_at = None
      BY <2>1, <2>2 DEF Memory
    <2>4. past' = [past EXCEPT !.clean = StableRun] /\ UNCHANGED miner
      BY <1>2 DEF ResetsFaultMemory
    <2>5. past'.held = past.held /\ past'.silent = past.silent /\ past'.broken = past.broken
      BY <1>1, <2>4 DEF PastType
    <2> QED
      BY <2>3, <2>4, <2>5 DEF HeldInv, HoldHashed, StillHashes, HoldMoves, Credits, None
  <1>3. CASE Reloads
    <2>1. /\ ctl'.hold_since = None /\ ctl'.mining = "unknown"
          /\ ctl'.proven_at = ctl.proven_at /\ ctl'.proven_max = ctl.proven_max
      BY <1>3 DEF Reloads, Started
    <2>2. UNCHANGED <<miner, past>>
      BY <1>3 DEF Reloads
    <2> QED
      BY <2>1, <2>2 DEF HeldInv, HoldHashed, StillHashes, HoldMoves, Credits
  <1> QED
    BY <1>2, <1>3

\* The hold grows with the run of hashing, or with the silence.
LEMMA TickHeld ==
    ASSUME TypeOK, HeldInv, Tick
    PROVE  HeldInv' /\ ~Credits
  <1>1. /\ ctl \in Memory /\ past \in PastType /\ miner \in MinerType
        /\ ctl.hold_since \in Nat \cup {None} /\ None \notin Nat
        /\ ctl.hold_since = None \/ ctl.hold_since <= StableRun
        /\ past.held \in Nat /\ past.held <= StableRun /\ past.silent \in Nat
        /\ past.broken \in BOOLEAN /\ miner.warm \in Nat /\ miner.hashes \in BOOLEAN
    BY HeldTypes
  <1>2. StableRun \in Nat /\ BootTime \in Nat /\ FaultTTL \in Nat \ {0}
    BY Sizes
  <1>3. /\ ctl'.hold_since = Older(ctl.hold_since, StableRun) /\ ctl'.mining = ctl.mining
        /\ ctl'.proven_at = Older(ctl.proven_at, FaultTTL)
    BY <1>1, Aging DEF Tick, Aged, Memory
  <1>4. /\ past'.held = IF miner.hashes /\ ~past.broken THEN Smaller(past.held + 1, StableRun)
                        ELSE past.held
        /\ past'.silent = past.silent + 1 /\ past'.broken = past.broken
    <2> DEFINE clean == Smaller(past.clean + 1, StableRun)
               held == IF miner.hashes /\ ~past.broken THEN Smaller(past.held + 1, StableRun)
                       ELSE past.held
               silent == past.silent + 1
    <2>1. past' = [past EXCEPT !.clean = clean, !.held = held, !.silent = silent]
      BY DEF Tick
    <2> HIDE DEF clean, held, silent
    <2>2. past'.held = held /\ past'.silent = silent /\ past'.broken = past.broken
      BY <1>1, <2>1 DEF PastType
    <2> QED
      BY <2>2 DEF held, silent
  <1>5. miner'.hashes = miner.hashes /\ miner'.warm = Larger(miner.warm - 1, 0)
    <2> DEFINE up == miner.up + 1  warm == Larger(miner.warm - 1, 0)
    <2>1. miner' = [miner EXCEPT !.up = up, !.warm = warm]
      BY DEF Tick
    <2> HIDE DEF up, warm
    <2>2. miner'.hashes = miner.hashes /\ miner'.warm = warm
      BY <1>1, <2>1 DEF MinerType
    <2> QED
      BY <2>2 DEF warm
  <1>6. ctl'.hold_since # None => ctl.hold_since # None
    BY <1>3 DEF Older
  <1>7. StillHashes'
    <2>1. past.broken => miner'.warm + past'.silent >= BootTime
      BY <1>1, <1>2, <1>4, <1>5 DEF HeldInv, StillHashes, Larger
    <2> QED
      BY <1>3, <1>4, <1>5, <1>6, <2>1 DEF HeldInv, StillHashes
  <1>8. HoldHashed'
    <2> SUFFICES ASSUME ctl'.hold_since # None
                 PROVE  ctl'.hold_since <= past'.held + (IF past'.broken THEN past'.silent ELSE 0)
      BY DEF HoldHashed
    <2>1. ctl.hold_since \in Nat /\ ctl.hold_since <= StableRun
          /\ ctl'.hold_since = IF ctl.hold_since >= StableRun THEN ctl.hold_since
                               ELSE ctl.hold_since + 1
      BY <1>1, <1>3, <1>6 DEF Older
    <2>2. CASE past.broken
      <3>1. ctl.hold_since <= past.held + past.silent
        BY <1>6, <2>2 DEF HeldInv, HoldHashed
      <3>2. past'.held = past.held /\ past'.silent = past.silent + 1 /\ past'.broken
        BY <1>4, <2>2
      <3> QED
        BY <1>1, <1>2, <2>1, <3>1, <3>2
    <2>3. CASE ~past.broken
      <3>1. ctl.hold_since <= past.held /\ miner.hashes
        BY <1>1, <1>6, <2>3 DEF HeldInv, HoldHashed, StillHashes
      <3>2. past'.held = Smaller(past.held + 1, StableRun) /\ ~past'.broken
        BY <1>4, <2>3, <3>1
      <3>3. ctl'.hold_since <= past'.held /\ past'.held \in Nat
        BY <1>1, <1>2, <2>1, <3>1, <3>2 DEF Smaller
      <3> QED
        BY <3>2, <3>3
    <2> QED
      BY <2>2, <2>3, <1>1
  <1>9. ~Credits
    <2>1. ctl.proven_at \in Age(FaultTTL)
      BY <1>1 DEF Memory
    <2>2. ctl'.proven_at # 0
      BY <1>2, <1>3, <2>1 DEF Older, Age, None
    <2> QED
      BY <2>2 DEF Credits
  <1> QED
    BY <1>7, <1>8, <1>9 DEF HeldInv

\* No step disturbs the invariant, or credits what was not held.
LEMMA HeldSteps ==
    ASSUME TypeOK, HeldInv, BootTime > MaxSilence, [Next]_vars
    PROVE  HeldInv' /\ (Credits => past.held + past.silent >= StableRun)
  <1>1. HeldInv' /\ (HoldMoves \/ ~Credits)
    <2>1. CASE PollSucceeds \/ PollGarbled
      <3>1. PICK i \in Shows, garbled \in BOOLEAN :
               PollShows(i, garbled) /\ (i.mining => miner.hashes)
        BY <2>1 DEF PollSucceeds, PollGarbled
      <3> QED
        BY <3>1, PollHeld
    <2>2. ASSUME NEW p \in Floor(ctl)..Ceiling(ctl), SetLimit(p) \/ SetPower(p)
          PROVE  HeldInv' /\ HoldMoves
      BY <2>2, PowersBetween, CommandHeld
    <2> QED
      BY <2>1, <2>2, FailedHeld, MinerHeld, MemoryHeld, TickHeld DEF Next
  <1>2. HeldLong(ctl) => past.held + past.silent >= StableRun
    <2>1. /\ ctl.hold_since \in Nat \cup {None} /\ None \notin Nat
          /\ past.held \in Nat /\ past.silent \in Nat /\ past.broken \in BOOLEAN
          /\ StableRun \in Nat
      BY HeldTypes, Sizes
    <2> QED
      BY <2>1 DEF HeldInv, HoldHashed, HeldLong
  <1> QED
    BY <1>1, <1>2 DEF HoldMoves

\* ProvenWasHeld: a hold is credited only when the miner has hashed, without a
\* restart, for a full run up to the last good poll: for any durations, when
\* the good polls are closer together than a boot of the miner takes.
THEOREM CreditsWereHeld ==
    ASSUME BootTime > MaxSilence PROVE Spec => ProvenWasHeld
  <1>1. Init => HeldInv
    <2> SUFFICES ASSUME Init PROVE HeldInv
      OBVIOUS
    <2>1. ctl.hold_since = None /\ ctl.mining = "unknown" /\ ~past.broken
      BY DEF Init, Started
    <2> QED
      BY <2>1 DEF HeldInv, HoldHashed, StillHashes
  <1>2. FaultInv => TypeOK
    BY DEF FaultInv
  <1>3. /\ TypeOK /\ HeldInv /\ [Next]_vars =>
             HeldInv' /\ [Credits => past.held + past.silent >= StableRun]_vars
    BY HeldSteps
  <1> QED
    BY <1>1, <1>2, <1>3, FaultInductive, PTL DEF Spec, ProvenWasHeld

(***************************************************************************)
(* Whose restart a crash is.  A regression of the uptime has a boot behind *)
(* it or a garbled poll, and one of ours is younger than the silence the   *)
(* regression ends, so that it is known for ours when polls are closer     *)
(* together than the hold of a boot.                                       *)
(***************************************************************************)

SameCrash(c, d) == d.crash_at = c.crash_at /\ d.crash_floor = c.crash_floor

\* d has the regression of c, and its crashes.
SameRegression(c, d) == d.before = c.before /\ d.ours = c.ours /\ SameCrash(c, d)

\* d has the restarts of c, and the last command that brings one about.
SameRestarts(c, d) == SameRegression(c, d) /\ d.uptime = c.uptime /\ d.actuated = c.actuated

RestartInv ==
    /\ ctl.before = None /\ ctl.uptime # None =>
         /\ past.boots = {} => ctl.uptime <= miner.up
         /\ "us" \in past.boots => ctl.actuated # None /\ ctl.actuated <= past.silent
    /\ ctl.before # None =>
         /\ past.boots = {} => ctl.before <= miner.up
         /\ ~ctl.ours => "self" \in past.boots \/ past.garbled

\* Settling a hold and beginning one leave the restarts alone,
LEMMA RestartsHold ==
    ASSUME NEW c \in Memory, NEW p \in Power
    PROVE  SameRestarts(c, Settled(c)) /\ SameRestarts(c, Holding(c, p))
  BY DEF SameRestarts, SameRegression, SameCrash, Settled, Holding, Memory

\* and so does the power a hold is at,
LEMMA RestartsHoldAt ==
    ASSUME NEW c \in Memory, NEW p \in Power
    PROVE  SameRestarts(c, HoldsAt(c, p))
  <1>1. CASE p = None \/ p # c.hold_power
    <2>1. Settled(c) \in Memory
      BY Settling DEF Keeps
    <2>2. HoldsAt(c, p) = Holding(Settled(c), p)
      BY <1>1 DEF HoldsAt
    <2>3. SameRestarts(c, Settled(c)) /\ SameRestarts(Settled(c), Holding(Settled(c), p))
      BY <2>1, RestartsHold
    <2> QED
      BY <2>2, <2>3 DEF SameRestarts, SameRegression, SameCrash
  <1>2. CASE ~(p = None \/ p # c.hold_power)
    <2>1. HoldsAt(c, p) \in {c, [c EXCEPT !.hold_since = 0], [c EXCEPT !.proven_at = 0]}
      BY <1>2 DEF HoldsAt
    <2> QED
      BY <2>1 DEF SameRestarts, SameRegression, SameCrash, Memory
  <1> QED
    BY <1>1, <1>2

\* and the evidence of faults.
LEMMA RestartsDerate ==
    ASSUME NEW c \in Memory, NEW mining \in BOOLEAN, NEW tuned \in BOOLEAN,
           NEW error \in BOOLEAN, NEW r \in Powers
    PROVE  /\ SameRestarts(c, NotesErrors(c, error, r))
           /\ SameRestarts(c, NotesDerate(c, mining, tuned, r))
           /\ SameRestarts(c, NoCandidate(c))
  <1>1. SameRestarts(c, NotesErrors(c, error, r))
    BY DEF SameRestarts, SameRegression, SameCrash, NotesErrors, NotesFault, Memory
  <1>2. SameRestarts(c, NoCandidate(c))
    BY DEF SameRestarts, SameRegression, SameCrash, NoCandidate, Memory
  <1>3. SameRestarts(c, NotesDerate(c, mining, tuned, r))
    <2> DEFINE n == Smaller(c.candidate_polls + 1, DeratePolls)
               since == IF c.candidate = None THEN 0 ELSE c.candidate
               seen == [c EXCEPT !.match_polls = 0, !.candidate_polls = n, !.candidate = since]
               polls == NoCandidate(c).match_polls + 1
               matched == [NoCandidate(c) EXCEPT !.match_polls = polls]
               s == [seen EXCEPT !.derated = TRUE]
               f == NotesFault(s, r)
               g == [matched EXCEPT !.derated = FALSE, !.match_polls = 0]
    <2>1. NotesDerate(c, mining, tuned, r) \in {NoCandidate(c), f, seen, g, matched}
      BY DEF NotesDerate
    <2> HIDE DEF n, since, polls
    <2>2. SameRestarts(c, seen) /\ SameRestarts(c, s) /\ SameRestarts(c, f)
      BY DEF SameRestarts, SameRegression, SameCrash, NotesFault, Memory
    <2>3. SameRestarts(c, matched) /\ SameRestarts(c, g)
      BY DEF SameRestarts, SameRegression, SameCrash, NoCandidate, Memory
    <2> HIDE DEF seen, f, g, matched
    <2> QED
      BY <1>2, <2>1, <2>2, <2>3
  <1> QED
    BY <1>1, <1>2, <1>3

\* An edge may claim the command for a start; the first one does not.
LEMMA RestartsEdge ==
    ASSUME NEW c \in Memory, NEW mining \in BOOLEAN, NEW r \in Powers
    PROVE  /\ SameRegression(c, Edges(c, mining, r)) /\ Edges(c, mining, r).uptime = c.uptime
           /\ c.mining = "unknown" => SameRestarts(c, Edges(c, mining, r))
  <1> DEFINE Held(s) == Holding(s, PowerInForce(s, r))
  <1>1. ASSUME NEW s \in Memory
        PROVE  NotesRestart(s, r) \in Memory /\ SameRestarts(s, NotesRestart(s, r))
    <2>1. NotesRestart(s, r) \in Memory
      BY NotingRestart DEF Beside
    <2> QED
      BY <2>1 DEF SameRestarts, SameRegression, SameCrash, NotesRestart, Memory
  <1>2. ASSUME NEW s \in Memory
        PROVE  Held(s) \in Memory /\ SameRestarts(s, Held(s))
    BY InForce, BeginningHold, RestartsHold DEF Keeps, Power
  <1>3. ASSUME NEW s \in Memory
        PROVE  Settled(s) \in Memory /\ SameRestarts(s, Settled(s))
    BY Settling, RestartsHold, Sizes DEF Keeps, Power
  <1>4. Claims(c) \in Memory /\ SameRegression(c, Claims(c)) /\ Claims(c).uptime = c.uptime
    <2>1. Claims(c) \in Memory
      BY Claiming DEF Keeps, Beside
    <2> QED
      BY <2>1 DEF SameRegression, SameCrash, Claims, Memory
  <1>5. CASE mining /\ c.mining = "unknown"
    <2>1. Edges(c, mining, r) = Held(NotesRestart(c, r))
      BY <1>5 DEF Edges
    <2> HIDE DEF Held
    <2> QED
      BY <1>1, <1>2, <2>1 DEF SameRestarts, SameRegression, SameCrash
  <1>6. CASE mining /\ c.mining = "no"
    <2> DEFINE s == NotesRestart(Claims(c), r)
    <2>1. s \in Memory /\ SameRegression(c, s) /\ s.uptime = c.uptime
      BY <1>1, <1>4 DEF SameRestarts, SameRegression, SameCrash
    <2>2. Edges(c, mining, r) = Holding(Settled(s), PowerInForce(s, r))
      BY <1>6 DEF Edges
    <2> HIDE DEF s
    <2>3. PowerInForce(s, r) \in Power /\ Settled(s) \in Memory /\ SameRestarts(s, Settled(s))
      BY <1>3, <2>1, InForce DEF Power
    <2>4. SameRestarts(Settled(s), Edges(c, mining, r))
      BY <2>2, <2>3, RestartsHold
    <2> QED
      BY <1>6, <2>1, <2>3, <2>4 DEF SameRestarts, SameRegression, SameCrash
  <1>7. CASE ~mining /\ c.mining = "yes"
    <2>1. Edges(c, mining, r) = Holding(Settled(c), None) /\ None \in Power
      BY <1>7 DEF Edges, Power
    <2>2. SameRestarts(Settled(c), Edges(c, mining, r))
      BY <1>3, <2>1, RestartsHold
    <2> QED
      BY <1>3, <1>7, <2>2 DEF SameRestarts, SameRegression, SameCrash
  <1>8. CASE Edges(c, mining, r) = c
    BY <1>8 DEF SameRestarts, SameRegression, SameCrash
  <1> QED
    BY <1>5, <1>6, <1>7, <1>8 DEF Edges

\* What a counted regression makes of the crashes.
LEMMA RestartsCounted ==
    ASSUME NEW c \in Memory, NEW thermal \in BOOLEAN, NEW r \in Powers
    PROVE  LET d == CountsRestart(c, thermal, r) IN
           /\ d \in Memory
           /\ d.uptime = c.uptime
           /\ SameCrash(c, d) \/ ~c.ours
  <1> DEFINE actuated == IF c.ours THEN None ELSE c.actuated
             s == [c EXCEPT !.actuated = actuated, !.restart_ours = c.ours,
                            !.regression_power = None]
             p == Known(c.regression_power, PowerInForce(c, r))
             d == CountsRestart(c, thermal, r)
  <1>1. d \in {s, NotesCrash(s, p)} /\ (c.ours => d = s)
    BY DEF CountsRestart
  <1>2. d \in Memory
    BY CountingRestart DEF Beside
  <1> HIDE DEF actuated, p
  <1>3. SameCrash(c, s) /\ s.uptime = c.uptime
    BY DEF SameCrash, Memory
  <1>4. NotesCrash(s, p).uptime = c.uptime
    BY DEF NotesCrash, Memory
  <1> HIDE DEF s, d
  <1>5. /\ d.uptime = c.uptime
        /\ SameCrash(c, d) \/ ~c.ours
    BY <1>1, <1>3, <1>4
  <1> QED
    BY <1>2, <1>5 DEF d

\* What an uptime makes of the restarts.
LEMMA RestartsUptime ==
    ASSUME NEW c \in Memory, NEW up \in Uptimes, NEW thermal \in BOOLEAN, NEW r \in Powers
    PROVE  LET d == NotesRegression(c, up, thermal, r) IN
           /\ c.before # None =>
                d.before = None /\ (SameCrash(c, d) \/ (up < c.before /\ ~c.ours))
           /\ c.before = None => SameCrash(c, d)
           /\ c.before = None /\ c.uptime # None /\ up < c.uptime =>
                d.before = c.uptime /\ d.ours = OursPending(c)
           /\ c.before = None /\ ~(c.uptime # None /\ up < c.uptime) => d.before = None
  <1> DEFINE d == NotesRegression(c, up, thermal, r)
  <1>1. CASE c.before # None /\ up < c.before
    <2> DEFINE k == CountsRestart(c, thermal, r)
    <2>1. d = NoRegression(k)
      BY <1>1 DEF NotesRegression
    <2>2. k \in Memory /\ (SameCrash(c, k) \/ ~c.ours)
      BY RestartsCounted
    <2> HIDE DEF k
    <2>3. d.before = None /\ SameCrash(k, d)
      BY <2>1, <2>2 DEF NoRegression, SameCrash, Memory
    <2> QED
      BY <1>1, <2>2, <2>3 DEF SameCrash, d
  <1>2. CASE c.before # None /\ ~(up < c.before)
    <2>1. d = [NoRegression(c) EXCEPT !.regression_power = None]
      BY <1>2 DEF NotesRegression
    <2>2. d.before = None /\ SameCrash(c, d)
      BY <2>1 DEF NoRegression, SameCrash, Memory
    <2> QED
      BY <1>2, <2>2
  <1>3. CASE c.before = None /\ c.uptime # None /\ up < c.uptime
    <2> DEFINE ours == OursPending(c)
               short == c.uptime - Larger(c.idle, 0) < StableRun
               power == PowerInForce(c, r)
               n == [c EXCEPT !.before = c.uptime, !.ours = ours, !.short = short,
                              !.regression_power = power]
    <2>1. d = NotesRestart(Settled(n), r)
      BY <1>3 DEF NotesRegression, Regresses
    <2>2. c.uptime \in 0..MaxUptime \cup {None} /\ ours \in BOOLEAN /\ short \in BOOLEAN
          /\ power \in Power
      BY InForce DEF Memory, OursPending, Power
    <2> HIDE DEF ours, short, power
    <2>3. n \in Memory
      BY <2>2 DEF Memory
    <2>4. n.before = c.uptime /\ n.ours = ours /\ SameCrash(c, n)
      BY DEF SameCrash, Memory
    <2> HIDE DEF n
    <2>5. Settled(n) \in Memory /\ SameRestarts(n, Settled(n))
      BY <2>3, Settling, RestartsHold, Sizes DEF Keeps, Power
    <2>6. SameRegression(Settled(n), d)
      BY <2>1, <2>5 DEF SameRegression, SameCrash, NotesRestart, Memory
    <2> QED
      BY <1>3, <2>4, <2>5, <2>6 DEF ours, SameRestarts, SameRegression, SameCrash
  <1>4. CASE c.before = None /\ ~(c.uptime # None /\ up < c.uptime)
    <2>1. d = c
      BY <1>4 DEF NotesRegression
    <2> QED
      BY <1>4, <2>1 DEF SameCrash
  <1> QED
    BY <1>1, <1>2, <1>3, <1>4 DEF d

\* What a poll makes of the restarts: it ends a pending regression, and counts
\* it if it was not ours, or begins one.
LEMMA RestartsHandled ==
    ASSUME NEW c \in Memory, NEW i \in Shows, NEW r \in Powers
    PROVE  LET d == Handled(c, i, r) IN
           /\ d.uptime = i.up
           /\ c.before # None =>
                d.before = None /\ (SameCrash(c, d) \/ (i.up < c.before /\ ~c.ours))
           /\ c.before = None => SameCrash(c, d)
           /\ c.before = None /\ c.uptime # None /\ i.up < c.uptime =>
                d.before = c.uptime /\ d.ours = OursPending(c)
           /\ c.before = None /\ ~(c.uptime # None /\ i.up < c.uptime) => d.before = None
  <1> DEFINE f == NotesErrors(c, i.error, r)
             d == NotesDerate(f, i.mining, i.tuned, r)
             s == NotesRegression(d, i.up, i.thermal, r)
             idle == IF s.idle # None /\ i.up < s.idle THEN None ELSE s.idle
             since == IF i.mining THEN idle ELSE IF i.up > 0 THEN i.up ELSE None
             n == [s EXCEPT !.uptime = i.up, !.idle = since]
             p == IF i.mining THEN PowerInForce(n, r) ELSE None
             h == HoldsAt(n, p)
             a == Adopts(h, i.adopts, r)
             e == Edges(a, i.mining, r)
             word == IF i.mining THEN "yes" ELSE "no"
  <1>0. /\ i.mining \in BOOLEAN /\ i.up \in Uptimes /\ i.error \in BOOLEAN
        /\ i.tuned \in BOOLEAN /\ i.thermal \in BOOLEAN /\ i.adopts \in BOOLEAN
    BY DEF Shows, Uptimes
  <1>1. Handled(c, i, r) = [e EXCEPT !.mining = word]
    BY DEF Handled, Evidence, NotesUptime, NotesHold
  <1>2. Handled(c, i, r) \in Memory
    BY Handling
  <1> HIDE DEF word
  <1>3. d \in Memory /\ SameRestarts(c, d)
    <2>1. f \in Memory /\ SameRestarts(c, f)
      BY <1>0, InForce, NotingFault, RestartsDerate DEF NotesErrors, Faults
    <2> HIDE DEF f
    <2>2. d \in Memory /\ SameRestarts(f, d)
      BY <1>0, <2>1, NotingDerate, RestartsDerate DEF Faults
    <2> QED
      BY <2>1, <2>2 DEF SameRestarts, SameRegression, SameCrash
  <1> HIDE DEF d, f
  <1>4. s \in Memory
    BY <1>0, <1>3, NotingRegression DEF Keeps
  <1>5. /\ c.before # None =>
             s.before = None /\ (SameCrash(c, s) \/ (i.up < c.before /\ ~c.ours))
        /\ c.before = None => SameCrash(c, s)
        /\ c.before = None /\ c.uptime # None /\ i.up < c.uptime =>
             s.before = c.uptime /\ s.ours = OursPending(c)
        /\ c.before = None /\ ~(c.uptime # None /\ i.up < c.uptime) => s.before = None
    <2>1. OursPending(d) = OursPending(c) /\ d.before = c.before /\ d.ours = c.ours
          /\ d.uptime = c.uptime /\ SameCrash(c, d)
      BY <1>3 DEF SameRestarts, SameRegression, OursPending
    <2>2. /\ d.before # None =>
               s.before = None /\ (SameCrash(d, s) \/ (i.up < d.before /\ ~d.ours))
          /\ d.before = None => SameCrash(d, s)
          /\ d.before = None /\ d.uptime # None /\ i.up < d.uptime =>
               s.before = d.uptime /\ s.ours = OursPending(d)
          /\ d.before = None /\ ~(d.uptime # None /\ i.up < d.uptime) => s.before = None
      BY <1>0, <1>3, RestartsUptime
    <2> HIDE DEF s
    <2>3. SameCrash(d, s) <=> SameCrash(c, s)
      BY <2>1 DEF SameCrash
    <2> QED
      BY <2>1, <2>2, <2>3
  <1> HIDE DEF s
  <1>6. since \in 0..MaxUptime \cup {None}
    BY <1>0, <1>4 DEF Memory, Uptimes
  <1> HIDE DEF since
  <1>7. n \in Memory /\ n.uptime = i.up /\ SameRegression(s, n)
    BY <1>0, <1>4, <1>6 DEF Memory, Uptimes, SameRegression, SameCrash
  <1> HIDE DEF n
  <1>8. h \in Memory /\ SameRestarts(n, h)
    <2>1. p \in Power
      BY <1>7, InForce DEF Power
    <2> HIDE DEF p
    <2> QED
      BY <1>7, <2>1, HoldingAt, RestartsHoldAt DEF Keeps
  <1> HIDE DEF h
  <1>9. a \in Memory /\ SameRestarts(h, a)
    <2>1. a \in Memory
      BY <1>0, <1>8, Adopting DEF Keeps
    <2>2. a = h \/ a = [h EXCEPT !.limit = r]
      BY DEF Adopts
    <2> HIDE DEF a
    <2> QED
      BY <1>8, <2>1, <2>2 DEF SameRestarts, SameRegression, SameCrash, Memory
  <1> HIDE DEF a
  <1>10. e \in Memory /\ SameRegression(a, e) /\ e.uptime = a.uptime
    BY <1>0, <1>9, RestartsEdge, Edging
  <1> HIDE DEF e
  <1>11. SameRegression(e, Handled(c, i, r)) /\ Handled(c, i, r).uptime = e.uptime
    BY <1>1, <1>10 DEF SameRegression, SameCrash, Memory
  <1>12. SameRegression(s, Handled(c, i, r)) /\ Handled(c, i, r).uptime = i.up
    BY <1>7, <1>8, <1>9, <1>10, <1>11 DEF SameRestarts, SameRegression, SameCrash
  <1> QED
    BY <1>5, <1>12 DEF SameRegression, SameCrash

\* What is noted as a crash is not a restart of ours, but for one that happens
\* to confirm a garbled summary.
CrashTheirs == NewCrash => \/ "self" \in past.boots
                           \/ past.garbled /\ "us" \in past.boots

\* The numbers of the restarts.
LEMMA RestartTypes ==
    ASSUME TypeOK
    PROVE  /\ ctl \in Memory /\ past \in PastType /\ miner \in MinerType
           /\ ctl.uptime \in Nat \cup {None} /\ ctl.before \in Nat \cup {None}
           /\ ctl.actuated \in Nat \cup {None} /\ None \notin Nat
           /\ miner.up \in Nat /\ past.boots \subseteq {"self", "us"}
           /\ past.silent \in Nat /\ past.silent <= MaxSilence
  <1>1. /\ ctl \in Memory /\ past \in PastType /\ miner \in MinerType
    BY HeldTypes
  <1>2. /\ ctl.uptime \in Uptimes \cup {None} /\ ctl.before \in Uptimes \cup {None}
        /\ ctl.actuated \in Age(BootHold)
    BY <1>1 DEF Memory, Uptimes
  <1>3. Uptimes \subseteq Nat /\ None \notin Nat /\ BootHold \in Nat
    BY Sizes, Ages DEF Uptimes
  <1>4. ctl.actuated \in Nat \cup {None}
    BY <1>2, <1>3, Ages
  <1>5. miner.up \in Nat /\ past.boots \subseteq {"self", "us"}
    BY <1>1, <1>3 DEF MinerType, PastType, Uptimes
  <1>6. ctl.uptime \in Nat \cup {None} /\ ctl.before \in Nat \cup {None}
    BY <1>2, <1>3
  <1> QED
    BY <1>1, <1>2, <1>3, <1>4, <1>5, <1>6, HeldTypes

\* A poll shows the uptime of the miner, or nothing of it once.
LEMMA PollRestarts ==
    ASSUME TypeOK, RestartInv, BootHold > MaxSilence,
           NEW i \in Shows, NEW garbled \in BOOLEAN, PollShows(i, garbled),
           (i.up = miner.up /\ ~garbled) \/ (i.up = 0 /\ garbled /\ ~past.garbled)
    PROVE  RestartInv' /\ CrashTheirs
  <1>1. /\ ctl \in Memory /\ past \in PastType /\ miner.limit \in Powers
        /\ ctl.uptime \in Nat \cup {None} /\ ctl.before \in Nat \cup {None}
        /\ ctl.actuated \in Nat \cup {None} /\ None \notin Nat
        /\ miner.up \in Nat /\ past.boots \subseteq {"self", "us"}
        /\ past.silent \in Nat /\ past.silent <= MaxSilence
        /\ BootHold \in Nat /\ MaxSilence \in Nat
    BY HeldTypes, RestartTypes, Sizes
  <1>2. /\ ctl'.uptime = i.up
        /\ ctl.before # None =>
             ctl'.before = None /\ (SameCrash(ctl, ctl') \/ (i.up < ctl.before /\ ~ctl.ours))
        /\ ctl.before = None => SameCrash(ctl, ctl')
        /\ ctl.before = None /\ ctl.uptime # None /\ i.up < ctl.uptime =>
             ctl'.before = ctl.uptime /\ ctl'.ours = OursPending(ctl)
        /\ ctl.before = None /\ ~(ctl.uptime # None /\ i.up < ctl.uptime) => ctl'.before = None
    BY <1>1, RestartsHandled DEF PollShows
  <1>3. past'.boots = (IF ctl'.before = None THEN {} ELSE past.boots)
        /\ past'.garbled = garbled /\ miner' = miner
    <2> DEFINE clean == IF FaultShown(i) THEN 0 ELSE past.clean
               held == IF past.broken \/ ~miner.hashes THEN 0 ELSE past.held
               boots == IF ctl'.before = None THEN {} ELSE past.boots
    <2>1. /\ past' = [past EXCEPT !.clean = clean, !.held = held, !.broken = FALSE,
                                  !.silent = 0, !.garbled = garbled, !.boots = boots]
          /\ miner' = miner
      BY DEF PollShows
    <2> HIDE DEF clean, held, boots
    <2>2. past'.boots = boots /\ past'.garbled = garbled /\ miner' = miner
      BY <1>1, <2>1 DEF PastType
    <2> QED
      BY <2>2 DEF boots
  <1>4. i.up \in Nat /\ i.up <= miner.up
    BY <1>1
  <1>5. CrashTheirs
    <2> SUFFICES ASSUME NewCrash
                 PROVE  "self" \in past.boots \/ (past.garbled /\ "us" \in past.boots)
      BY DEF CrashTheirs
    <2>1. ~SameCrash(ctl, ctl')
      BY DEF NewCrash, SameCrash
    <2>2. ctl.before # None /\ i.up < ctl.before /\ ~ctl.ours
      BY <1>2, <2>1
    <2>3. "self" \in past.boots \/ past.garbled
      BY <2>2 DEF RestartInv
    <2>4. CASE i.up = miner.up
      <3>1. ~(ctl.before <= miner.up)
        BY <1>1, <2>2, <2>4
      <3>2. past.boots # {}
        BY <2>2, <3>1 DEF RestartInv
      <3> QED
        BY <1>1, <2>3, <3>2
    <2>5. CASE ~past.garbled
      BY <2>3, <2>5
    <2> QED
      BY <2>4, <2>5
  <1>6. CASE ctl'.before = None
    <2>1. past'.boots = {} /\ ctl'.uptime <= miner'.up
      BY <1>2, <1>3, <1>4, <1>6
    <2> QED
      BY <1>5, <1>6, <2>1 DEF RestartInv
  <1>7. CASE ctl'.before # None
    <2>1. /\ ctl.before = None /\ ctl.uptime # None /\ i.up < ctl.uptime
          /\ ctl'.before = ctl.uptime /\ ctl'.ours = OursPending(ctl)
      BY <1>2, <1>7
    <2>2. past'.boots = past.boots
      BY <1>3, <1>7
    <2>3. past.boots = {} => ctl.uptime <= miner.up
      BY <2>1 DEF RestartInv
    <2>4. ~OursPending(ctl) => "us" \notin past.boots
      <3>1. "us" \in past.boots => ctl.actuated # None /\ ctl.actuated <= past.silent
        BY <2>1 DEF RestartInv
      <3>2. ctl.actuated # None /\ ctl.actuated <= past.silent => ctl.actuated < BootHold
        BY <1>1
      <3> QED
        BY <3>1, <3>2 DEF OursPending
    <2>5. ~OursPending(ctl) => "self" \in past.boots \/ garbled
      <3>1. CASE i.up = miner.up
        <4>1. past.boots # {}
          BY <1>1, <2>1, <2>3, <3>1
        <4> QED
          BY <1>1, <2>4, <4>1
      <3> QED
        BY <3>1
    <2> QED
      <3>1. past'.boots = {} => ctl'.before <= miner'.up
        BY <1>3, <2>1, <2>2, <2>3
      <3>2. ~ctl'.ours => "self" \in past'.boots \/ past'.garbled
        BY <1>3, <2>1, <2>2, <2>5
      <3> QED
        BY <1>5, <1>7, <3>1, <3>2 DEF RestartInv
  <1> QED
    BY <1>5, <1>6, <1>7

\* A command that is carried out and noted is younger than the silence.
LEMMA CommandRestarts ==
    ASSUME TypeOK, RestartInv, ~Losses, NEW p \in Powers, SetLimit(p) \/ SetPower(p)
    PROVE  RestartInv' /\ CrashTheirs
  <1>1. /\ ctl \in Memory /\ past \in PastType /\ past.silent \in Nat
    BY RestartTypes
  <1>2. \A n \in Memory : SameRestarts(n, CommandBoundary(n))
    <2> SUFFICES ASSUME NEW n \in Memory
                 PROVE  SameRestarts(n, CommandBoundary(n))
      OBVIOUS
    <2>1. Settled(n) \in Memory /\ SameRestarts(n, Settled(n))
      BY Settling, RestartsHold, Sizes DEF Keeps, Power
    <2>2. SameRestarts(Settled(n), CommandBoundary(n))
      BY <2>1 DEF CommandBoundary, SameRestarts, SameRegression, SameCrash, Memory
    <2> QED
      BY <2>1, <2>2 DEF SameRestarts, SameRegression, SameCrash
  <1>3. CASE SetPower(p)
    <2> DEFINE n == [ctl EXCEPT !.force = p]
    <2>1. n \in Memory /\ SameRestarts(ctl, n)
      BY <1>1 DEF Memory, Power, SameRestarts, SameRegression, SameCrash
    <2>2. ctl' = CommandBoundary(n) /\ UNCHANGED <<miner, past>>
      BY <1>3 DEF SetPower
    <2> HIDE DEF n
    <2>3. SameRestarts(ctl, ctl')
      BY <1>2, <2>1, <2>2 DEF SameRestarts, SameRegression, SameCrash
    <2> QED
      BY <2>2, <2>3 DEF SameRestarts, SameRegression, SameCrash, RestartInv, CrashTheirs,
                        NewCrash
  <1>4. CASE SetLimit(p)
    <2> DEFINE m == NoCandidate(ctl)
               n == [m EXCEPT !.limit = p, !.force = p, !.commanded = p, !.sent_at = 0,
                              !.match_polls = 0, !.actuated = 0]
    <2>1. m \in Memory /\ SameRestarts(ctl, m)
      BY <1>1, ForgettingCandidate, RestartsDerate DEF Beside
    <2>2. ctl' = CommandBoundary(n) /\ Interrupted("us")
      BY <1>4 DEF SetLimit
    <2>3. /\ p \in Power /\ 0 \in Age(DeratePostWrite) /\ 0 \in Age(BootHold)
          /\ 0 \in 0..DeratePolls
      BY Ages, Sizes DEF Power
    <2> HIDE DEF m
    <2>4. n \in Memory
      BY <2>1, <2>3 DEF Memory
    <2>5. SameRegression(m, n) /\ n.uptime = m.uptime /\ n.actuated = 0
      BY <2>1 DEF Memory, SameRegression, SameCrash
    <2> HIDE DEF n
    <2>6. SameRegression(ctl, ctl') /\ ctl'.uptime = ctl.uptime /\ ctl'.actuated = 0
      BY <1>2, <2>1, <2>2, <2>4, <2>5 DEF SameRestarts, SameRegression, SameCrash
    <2>7. /\ past'.boots = past.boots \cup {"us"} /\ past'.silent = past.silent
          /\ past'.garbled = past.garbled
      BY <1>1, <2>2, BreakingOff
    <2>8. CrashTheirs
      BY <2>6 DEF CrashTheirs, NewCrash, SameRegression, SameCrash
    <2> QED
      BY <1>1, <2>6, <2>7, <2>8 DEF SameRegression, RestartInv, None
  <1> QED
    BY <1>3, <1>4

\* So is a start; a restart of the miner's own is not ours.
LEMMA MinerRestarts ==
    ASSUME TypeOK, RestartInv, ~Losses,
           \/ StopsMiner \/ StartsMiner \/ Hashes \/ RestartsItself
           \/ \E p \in Powers : Derates(p)
           \/ UNCHANGED vars
    PROVE  RestartInv' /\ CrashTheirs
  <1>1. /\ ctl \in Memory /\ past \in PastType /\ miner \in MinerType /\ past.silent \in Nat
    BY RestartTypes
  <1>2. Actuates => ctl' = [ctl EXCEPT !.actuated = 0]
    BY DEF Actuates
  <1>3. /\ SameRegression(ctl, ctl') /\ ctl'.uptime = ctl.uptime
        /\ ctl'.actuated = ctl.actuated \/ ctl'.actuated = 0
    <2>1. ctl' = ctl \/ ctl' = [ctl EXCEPT !.actuated = 0]
      BY <1>2 DEF StopsMiner, StartsMiner, Hashes, RestartsItself, Derates, vars
    <2> QED
      BY <1>1, <2>1 DEF Memory, SameRegression, SameCrash
  <1>4. past'.silent = past.silent /\ past'.garbled = past.garbled
        /\ \/ past'.boots = past.boots /\ miner'.up = miner.up
           \/ past'.boots = past.boots \cup {"us"} /\ ctl'.actuated = 0
           \/ past'.boots = past.boots \cup {"self"}
    <2>1. CASE StopsMiner
      <3>1. miner'.up = miner.up
        BY <1>1, <2>1 DEF StopsMiner, MinerType
      <3> QED
        BY <1>1, <2>1, <3>1, BreakingOff DEF StopsMiner
    <2>2. CASE StartsMiner
      <3>1. ctl'.actuated = 0
        BY <1>1, <1>2, <2>2 DEF StartsMiner, Memory
      <3> QED
        BY <1>1, <2>2, <3>1, BreakingOff DEF StartsMiner
    <2>3. CASE RestartsItself
      BY <1>1, <2>3, BreakingOff DEF RestartsItself
    <2>4. CASE Hashes
      BY <1>1, <2>4 DEF Hashes, MinerType
    <2>5. CASE \E p \in Powers : Derates(p)
      BY <1>1, <2>5 DEF Derates, MinerType
    <2>6. CASE UNCHANGED vars
      BY <2>6 DEF vars
    <2> QED
      BY <2>1, <2>2, <2>3, <2>4, <2>5, <2>6
  <1>5. CrashTheirs
    BY <1>3 DEF CrashTheirs, NewCrash, SameRegression, SameCrash
  <1> QED
    BY <1>1, <1>3, <1>4, <1>5 DEF SameRegression, RestartInv, None

\* A poll that fails, a reset and a reload note no restart.
LEMMA OtherRestarts ==
    ASSUME TypeOK, RestartInv, PollFails \/ ResetsFaultMemory \/ Reloads
    PROVE  RestartInv' /\ CrashTheirs
  <1>1. /\ ctl \in Memory /\ past \in PastType /\ miner.limit \in Powers
        /\ miner.hashes \in BOOLEAN
    BY HeldTypes
  <1>2. CASE PollFails
    <2>1. UNCHANGED <<miner, past>>
      BY <1>2 DEF PollFails
    <2>2. SameRestarts(ctl, ctl')
      <3>1. CASE ctl.mining = "unknown"
        <4>1. PICK m \in BOOLEAN :
                 ctl' = [Edges(ctl, m, miner.limit) EXCEPT !.mining = IF m THEN "yes" ELSE "no"]
          BY <1>1, <1>2, <3>1 DEF PollFails
        <4> DEFINE e == Edges(ctl, m, miner.limit)
                   word == IF m THEN "yes" ELSE "no"
        <4>2. e \in Memory /\ SameRestarts(ctl, e)
          BY <1>1, <3>1, Edging, RestartsEdge
        <4>3. ctl' = [e EXCEPT !.mining = word]
          BY <4>1
        <4> HIDE DEF e, word
        <4> QED
          BY <4>2, <4>3 DEF SameRestarts, SameRegression, SameCrash, Memory
      <3>2. CASE ctl.mining # "unknown"
        BY <1>2, <3>2 DEF PollFails, SameRestarts, SameRegression, SameCrash
      <3> QED
        BY <3>1, <3>2
    <2> QED
      BY <2>1, <2>2 DEF SameRestarts, SameRegression, SameCrash, RestartInv, CrashTheirs,
                        NewCrash
  <1>3. CASE ResetsFaultMemory
    <2> DEFINE m == NoCandidate(ctl)
    <2>1. m \in Memory /\ SameRestarts(ctl, m)
      BY <1>1, ForgettingCandidate, RestartsDerate DEF Beside
    <2>2. ctl' = [m EXCEPT
                   !.crash_at = None, !.crash_floor = None, !.fault_at = None,
                   !.fault_power = None, !.proven_max = None, !.proven_at = None,
                   !.tainted = FALSE, !.derated = FALSE, !.match_polls = 0]
      BY <1>3 DEF ResetsFaultMemory
    <2> HIDE DEF m
    <2>3. /\ ctl'.uptime = m.uptime /\ ctl'.before = m.before /\ ctl'.ours = m.ours
          /\ ctl'.actuated = m.actuated /\ ctl'.crash_at = None
      BY <2>1, <2>2 DEF Memory
    <2>4. past' = [past EXCEPT !.clean = StableRun] /\ UNCHANGED miner
      BY <1>3 DEF ResetsFaultMemory
    <2>5. past'.boots = past.boots /\ past'.silent = past.silent /\ past'.garbled = past.garbled
      BY <1>1, <2>4 DEF PastType
    <2>6. CrashTheirs
      BY <2>3 DEF CrashTheirs, NewCrash, None
    <2> QED
      BY <2>1, <2>3, <2>4, <2>5, <2>6 DEF SameRestarts, SameRegression, RestartInv
  <1>4. CASE Reloads
    <2>1. /\ ctl'.uptime = None /\ ctl'.before = None
          /\ ctl'.crash_at = ctl.crash_at /\ ctl'.crash_floor = ctl.crash_floor
      BY <1>4 DEF Reloads, Started
    <2> QED
      BY <2>1 DEF RestartInv, CrashTheirs, NewCrash
  <1> QED
    BY <1>2, <1>3, <1>4

\* The command ages with the silence.
LEMMA TickRestarts ==
    ASSUME TypeOK, RestartInv, Tick
    PROVE  RestartInv' /\ CrashTheirs
  <1>1. /\ ctl \in Memory /\ past \in PastType /\ miner \in MinerType
        /\ ctl.uptime \in Nat \cup {None} /\ ctl.before \in Nat \cup {None} /\ None \notin Nat
        /\ ctl.actuated \in Nat \cup {None} /\ miner.up \in Nat /\ past.silent \in Nat
        /\ BootHold \in Nat /\ FaultTTL \in Nat \ {0}
    BY RestartTypes, Sizes
  <1>2. /\ ctl'.uptime = ctl.uptime /\ ctl'.before = ctl.before /\ ctl'.ours = ctl.ours
        /\ ctl'.actuated = Older(ctl.actuated, BootHold)
        /\ ctl'.crash_at = Older(ctl.crash_at, FaultTTL)
    BY <1>1 DEF Tick, Aged, Memory
  <1>3. past'.boots = past.boots /\ past'.garbled = past.garbled
        /\ past'.silent = past.silent + 1
    <2> DEFINE clean == Smaller(past.clean + 1, StableRun)
               held == IF miner.hashes /\ ~past.broken THEN Smaller(past.held + 1, StableRun)
                       ELSE past.held
               silent == past.silent + 1
    <2>1. past' = [past EXCEPT !.clean = clean, !.held = held, !.silent = silent]
      BY DEF Tick
    <2> HIDE DEF clean, held, silent
    <2>2. past'.boots = past.boots /\ past'.garbled = past.garbled /\ past'.silent = silent
      BY <1>1, <2>1 DEF PastType
    <2> QED
      BY <2>2 DEF silent
  <1>4. miner'.up = miner.up + 1
    <2> DEFINE up == miner.up + 1  warm == Larger(miner.warm - 1, 0)
    <2>1. miner' = [miner EXCEPT !.up = up, !.warm = warm]
      BY DEF Tick
    <2> HIDE DEF up, warm
    <2>2. miner'.up = up
      BY <1>1, <2>1 DEF MinerType
    <2> QED
      BY <2>2 DEF up
  <1>5. ctl.actuated # None /\ ctl.actuated <= past.silent =>
            ctl'.actuated # None /\ ctl'.actuated <= past'.silent
    <2> SUFFICES ASSUME ctl.actuated # None, ctl.actuated <= past.silent
                 PROVE  ctl'.actuated # None /\ ctl'.actuated <= past'.silent
      OBVIOUS
    <2>1. ctl.actuated \in Nat
      BY <1>1
    <2>2. ctl'.actuated \in {ctl.actuated, ctl.actuated + 1}
      BY <1>2 DEF Older
    <2> QED
      BY <1>1, <1>3, <2>1, <2>2
  <1>6. ctl.uptime # None /\ ctl.uptime <= miner.up => ctl'.uptime <= miner'.up
    BY <1>1, <1>2, <1>4
  <1>7. ctl.before # None /\ ctl.before <= miner.up => ctl'.before <= miner'.up
    BY <1>1, <1>2, <1>4
  <1>8. RestartInv'
    BY <1>2, <1>3, <1>5, <1>6, <1>7 DEF RestartInv
  <1>9. CrashTheirs
    <2>1. ctl.crash_at \in Age(FaultTTL)
      BY <1>1 DEF Memory
    <2>2. ctl'.crash_at # 0
      BY <1>1, <1>2, <2>1 DEF Older, Age, None
    <2> QED
      BY <2>2 DEF CrashTheirs, NewCrash
  <1> QED
    BY <1>8, <1>9

\* CrashNotOurs: the crash floor rises only for a restart that the miner made by
\* itself, or for one of ours that confirms a garbled summary: for any numbers
\* of commands, restarts and garbled polls, when every command that was carried
\* out is noted and its boot is held for longer than the polls are apart.
THEOREM CrashesAreTheirs ==
    ASSUME ~Losses, BootHold > MaxSilence PROVE Spec => CrashNotOurs
  <1>1. Init => RestartInv
    <2> SUFFICES ASSUME Init PROVE RestartInv
      OBVIOUS
    <2>1. ctl.uptime = None /\ ctl.before = None
      BY DEF Init, Started
    <2> QED
      BY <2>1 DEF RestartInv
  <1>2. TypeOK /\ RestartInv /\ [Next]_vars => RestartInv' /\ CrashTheirs
    <2> SUFFICES ASSUME TypeOK, RestartInv, [Next]_vars
                 PROVE  RestartInv' /\ CrashTheirs
      OBVIOUS
    <2>1. CASE PollSucceeds \/ PollGarbled
      <3>1. PICK i \in Shows, garbled \in BOOLEAN :
               /\ PollShows(i, garbled)
               /\ (i.up = miner.up /\ ~garbled) \/ (i.up = 0 /\ garbled /\ ~past.garbled)
        BY <2>1 DEF PollSucceeds, PollGarbled
      <3> QED
        BY <3>1, PollRestarts
    <2>2. ASSUME NEW p \in Floor(ctl)..Ceiling(ctl), SetLimit(p) \/ SetPower(p)
          PROVE  RestartInv' /\ CrashTheirs
      BY <2>2, PowersBetween, CommandRestarts
    <2> QED
      BY <2>1, <2>2, MinerRestarts, OtherRestarts, TickRestarts DEF Next
  <1>3. FaultInv => TypeOK
    BY DEF FaultInv
  <1>4. CrashTheirs => [NewCrash => \/ "self" \in past.boots
                                    \/ past.garbled /\ "us" \in past.boots]_vars
    BY DEF CrashTheirs
  <1> QED
    BY <1>1, <1>2, <1>3, <1>4, FaultInductive, PTL DEF Spec, CrashNotOurs
=============================================================================
