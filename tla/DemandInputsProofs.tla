-------------------------- MODULE DemandInputsProofs --------------------------
(***************************************************************************)
(* Proofs about DemandInputs: a freeze is held until a reading clears it,  *)
(* "clear" rests on a recent answer, the mean on samples hours apart, and  *)
(* "all idle" on the word of every thermostat.  The invariant says in      *)
(* addition how the age of the forecast kept bounds how long the weather   *)
(* service has failed, and that samples are an interval apart, in memory   *)
(* and in the Store.                                                       *)
(***************************************************************************)
EXTENDS DemandInputs, NaturalsInduction, FiniteSetTheorems, TLAPS

(***************************************************************************)
(* Numbers and sets                                                        *)
(***************************************************************************)

\* The assumption on the constants, spelled out.
LEMMA ConstantsAreNat ==
    /\ CacheFor \in Nat /\ StaleMax \in Nat /\ CacheFor <= StaleMax /\ Never \in Nat
    /\ FreezeAhead \in Nat /\ Window \in Nat /\ MinTrailing \in Nat \ {0}
    /\ Interval \in Nat \ {0} /\ Interval <= Window
    /\ Threshold \in Nat /\ Hysteresis \in Nat /\ Temps \subseteq Nat
  BY DemandInputsAssumption DEF Never

\* A set of natural numbers has a least one, so that Min is what it says.
LEMMA LeastOf ==
    ASSUME NEW S \in SUBSET Nat, S # {}
    PROVE  Min(S) \in S /\ \A x \in S : Min(S) <= x
  <1> DEFINE R == OpToRel(<, Nat)
  <1>1. IsWellFoundedOn(R, Nat)
    BY NatLessThanWellFounded
  <1>2. \A x, y \in Nat : y < x => <<y, x>> \in R
    <2> SUFFICES ASSUME NEW x \in Nat, NEW y \in Nat, y < x
                 PROVE  <<y, x>> \in {ss \in Nat \X Nat : ss[1] < ss[2]}
      BY DEF OpToRel
    <2> DEFINE p == <<y, x>>
    <2>1. p \in Nat \X Nat /\ p[1] = y /\ p[2] = x
      OBVIOUS
    <2>2. p[1] < p[2]
      BY <2>1
    <2> QED
      BY <2>1, <2>2
  <1> HIDE DEF R
  <1>3. PICK x \in S : \A y \in S : ~ (<<y, x>> \in R)
    BY <1>1, WFMin
  <1>4. \A y \in S : ~ (y < x)
    BY <1>2, <1>3
  <1>5. \A y \in S : x <= y
    BY <1>4
  <1> QED
    BY <1>5 DEF Min

\* A bounded one has a greatest.
LEMMA GreatestOf ==
    ASSUME NEW n \in Nat, NEW S \in SUBSET (0..n), S # {}
    PROVE  Max(S) \in S /\ \A x \in S : Max(S) >= x
  <1> DEFINE T == {n - x : x \in S}
  <1>1. T \in SUBSET Nat /\ T # {}
    <2>1. \A x \in S : n - x \in Nat
      OBVIOUS
    <2>2. PICK x \in S : TRUE
      OBVIOUS
    <2>3. n - x \in T
      OBVIOUS
    <2> QED
      BY <2>1, <2>3
  <1>2. Min(T) \in T /\ \A y \in T : Min(T) <= y
    BY <1>1, LeastOf
  <1>3. PICK x \in S : Min(T) = n - x
    BY <1>2
  <1>4. \A y \in S : x >= y
    <2> SUFFICES ASSUME NEW y \in S PROVE x >= y
      OBVIOUS
    <2>1. n - y \in T
      OBVIOUS
    <2>2. n - x <= n - y
      BY <1>2, <1>3, <2>1
    <2> QED
      BY <2>2
  <1> QED
    BY <1>4 DEF Max

\* Division, as far as it is needed.
LEMMA Division ==
    ASSUME NEW d \in Nat \ {0}, NEW x \in Nat
    PROVE  x \div d \in Nat /\ d * (x \div d) <= x /\ x < d * (x \div d) + d
  BY Z3

\* Numbers that lie d and more apart are divided into different ones.
LEMMA DividedApart ==
    ASSUME NEW d \in Nat \ {0}, NEW x \in Nat, NEW y \in Nat, y - x >= d
    PROVE  x \div d < y \div d
  <1> DEFINE p == x \div d
             q == y \div d
  <1>1. p \in Nat /\ q \in Nat /\ d * p <= x /\ y < d * q + d
    BY Division
  <1> HIDE DEF p, q
  <1>2. SUFFICES ASSUME q <= p PROVE FALSE
    BY <1>1 DEF p, q
  <1>3. d * q <= d * p
    <2>1. d * (p - q) >= 0
      BY <1>1, <1>2
    <2> QED
      BY <1>1, <2>1
  <1>4. d * q \in Int /\ d * p \in Int
    BY <1>1
  <1> QED
    BY <1>1, <1>3, <1>4

\* Of k numbers that are at least d apart one is d * (k - 1) or more.
LEMMA ApartSpans ==
    ASSUME NEW d \in Nat \ {0}, NEW n \in Nat, NEW S \in SUBSET (0..n),
           \A a, b \in S : a < b => b - a >= d,
           NEW k \in Nat \ {0}, Cardinality(S) >= k
    PROVE  \E x \in S : x >= d * (k - 1)
  <1> DEFINE m == Max(S)
             f == [x \in S |-> x \div d]
             T == 0..(m \div d)
  <1>1. IsFiniteSet(S) /\ Cardinality(S) \in Nat
    BY FS_Interval, FS_Subset, FS_CardinalityType, 0 \in Int, n \in Int
  <1>2. S # {}
    BY <1>1, FS_EmptySet
  <1>3. m \in S /\ \A x \in S : m >= x
    BY <1>2, GreatestOf
  <1> HIDE DEF m
  <1>4. m \div d \in Nat /\ d * (m \div d) <= m
    BY <1>3, Division
  <1>5. \A x \in S : x \div d \in T
    <2> SUFFICES ASSUME NEW x \in S PROVE x \div d \in T
      OBVIOUS
    <2>1. x \in Nat /\ m \in Nat /\ x \div d \in Nat
      BY <1>3, Division
    <2>2. CASE x = m
      BY <1>4, <2>2
    <2>3. CASE x # m
      <3>1. m - x >= d
        BY <1>3, <2>1, <2>3
      <3>2. x \div d < m \div d
        BY <2>1, <3>1, DividedApart
      <3> QED
        BY <1>4, <2>1, <3>2
    <2> QED
      BY <2>2, <2>3
  <1>6. \A x, y \in S : f[x] = f[y] => x = y
    <2> SUFFICES ASSUME NEW x \in S, NEW y \in S, x < y PROVE x \div d < y \div d
      <3>1. \A x, y \in S : x < y => x \div d # y \div d
        BY Division
      <3> QED
        BY <3>1
    <2> QED
      BY DividedApart
  <1>7. f \in Injection(S, T)
    BY <1>5, <1>6 DEF Injection, IsInjective
  <1>8. IsFiniteSet(T) /\ Cardinality(T) = m \div d + 1
    BY <1>4, FS_Interval, 0 \in Int
  <1>9. Cardinality(S) <= m \div d + 1
    BY <1>7, <1>8, FS_Injection
  <1>10. m \div d >= k - 1
    BY <1>1, <1>4, <1>9
  <1>11. d * (k - 1) <= d * (m \div d)
    <2>1. d * ((m \div d) - (k - 1)) >= 0
      BY <1>4, <1>10
    <2> QED
      BY <1>4, <2>1
  <1> QED
    BY <1>3, <1>4, <1>11

(***************************************************************************)
(* The thermostats                                                         *)
(***************************************************************************)

\* classify_thermostat calls idle exactly the thermostat that says it needs no
\* heat.
LEMMA ClassSays ==
    ASSUME NEW r \in Reports
    PROVE  Class(r) = "idle" <=> SaysIdle(r)
  <1>1. r.available \in BOOLEAN /\ r.stale \in BOOLEAN
    BY DEF Reports
  <1> QED
    BY <1>1 DEF Class, SaysIdle

\* The summary of a poll says "all idle" exactly when all of them do.
LEMMA SnapshotSays ==
    ASSUME NEW snapshot \in Snapshots
    PROVE  /\ snapshot.summary \in {"calling", "all_idle", "unknown"}
           /\ snapshot.idle \in BOOLEAN
           /\ (snapshot.summary = "all_idle") = snapshot.idle
  <1>1. PICK said \in [Thermostats -> Said] :
            snapshot = [summary |-> Summary({said[t][1] : t \in Thermostats}),
                        idle |-> \A t \in Thermostats : said[t][2]]
    BY DEF Snapshots
  <1> DEFINE classes == {said[t][1] : t \in Thermostats}
             quiet == \A t \in Thermostats : said[t][2]
  <1>2. \A t \in Thermostats : said[t][1] = "idle" <=> said[t][2]
    <2> SUFFICES ASSUME NEW t \in Thermostats PROVE said[t][1] = "idle" <=> said[t][2]
      OBVIOUS
    <2>1. PICK r \in Reports : said[t] = <<Class(r), SaysIdle(r)>>
      BY DEF Said
    <2> QED
      BY <2>1, ClassSays
  <1>3. classes = {"idle"} <=> \A t \in Thermostats : said[t][1] = "idle"
    BY DemandInputsAssumption
  <1>4. classes = {"idle"} <=> quiet
    BY <1>2, <1>3
  <1>5. snapshot.summary = Summary(classes) /\ snapshot.idle = quiet
    BY <1>1
  <1> HIDE DEF classes, quiet
  <1>6. Summary(classes) \in {"calling", "all_idle", "unknown"}
    BY DEF Summary
  <1>7. Summary(classes) = "all_idle" <=> classes = {"idle"}
    BY DEF Summary
  <1>8. quiet \in BOOLEAN
    BY DEF quiet
  <1> QED
    BY <1>4, <1>5, <1>6, <1>7, <1>8

(***************************************************************************)
(* The forecast and the source of the freeze guard                         *)
(***************************************************************************)

\* What a poll keeps is a forecast with its age: the one there was, or an answer
\* of this poll; one the service has failed to renew too long is emptied.
LEMMA FetchedKeeps ==
    ASSUME TypeOK, NEW reply \in Forecasts \cup {Lost}
    PROVE  /\ Fetched(reply) \in [ahead : Seq(Temps), age : 0..Never]
           /\ \/ Fetched(reply).age = cache.age
              \/ Fetched(reply).age = 0 /\ reply \notin {Lost, <<>>} /\ cache.age >= CacheFor
           /\ cache.age >= CacheFor /\ reply = Lost /\ cache.age > StaleMax =>
                  Fetched(reply).ahead = <<>>
  <1>1. cache.ahead \in Seq(Temps) /\ cache.age \in 0..Never
        /\ cache = [ahead |-> cache.ahead, age |-> cache.age]
    BY DEF TypeOK
  <1>2. CacheFor \in Nat /\ StaleMax \in Nat /\ Never \in Nat
    BY ConstantsAreNat
  <1>3. CASE cache.age < CacheFor
    <2>1. Fetched(reply) = cache
      BY <1>3 DEF Fetched
    <2> QED
      BY <1>1, <1>2, <1>3, <2>1
  <1>4. CASE ~ (cache.age < CacheFor) /\ reply = Lost
    <2>1. CASE cache.age > StaleMax
      <3>1. Fetched(reply) = [ahead |-> <<>>, age |-> cache.age]
        BY <1>1, <1>4, <2>1 DEF Fetched
      <3>2. <<>> \in Seq(Temps)
        OBVIOUS
      <3> QED
        BY <1>1, <3>1, <3>2
    <2>2. CASE ~ (cache.age > StaleMax)
      <3>1. Fetched(reply) = cache
        BY <1>4, <2>2 DEF Fetched
      <3> QED
        BY <1>1, <2>2, <3>1
    <2> QED
      BY <2>1, <2>2
  <1>5. CASE ~ (cache.age < CacheFor) /\ reply # Lost
    <2>1. reply \in Seq(Temps) /\ cache.age >= CacheFor
      BY <1>1, <1>2, <1>5, DemandInputsAssumption
    <2>2. \/ Fetched(reply) = [ahead |-> reply, age |-> 0] /\ reply # <<>>
          \/ Fetched(reply) = cache
      BY <1>5 DEF Fetched
    <2>3. 0 \in 0..Never
      BY <1>2
    <2> QED
      BY <1>1, <1>5, <2>1, <2>2, <2>3
  <1> QED
    BY <1>3, <1>4, <1>5

\* The next units of a forecast are temperatures, and of an empty one none.
LEMMA UptoIsTemps ==
    ASSUME NEW ahead \in Seq(Temps), NEW n \in Nat
    PROVE  Upto(ahead, n) \subseteq Temps /\ (ahead = <<>> => Upto(ahead, n) = {})
  <1> DEFINE k == IF n < Len(ahead) THEN n ELSE Len(ahead)
             sub == SubSeq(ahead, 1, k)
  <1>1. k \in Nat /\ k <= Len(ahead)
    OBVIOUS
  <1>2. sub \in Seq(Temps) /\ Len(sub) = k
    BY <1>1
  <1>3. Upto(ahead, n) = {sub[i] : i \in DOMAIN sub}
    BY DEF Upto, ToSet
  <1>4. \A i \in DOMAIN sub : sub[i] \in Temps
    BY <1>2
  <1>5. ahead = <<>> => DOMAIN sub = {}
    BY <1>1, <1>2
  <1> HIDE DEF sub
  <1> QED
    BY <1>3, <1>4, <1>5

\* The guard's source is a temperature or unknown, and unknown if neither the
\* sensor nor the outdoor temperature can be read and nothing is forecast.
LEMMA ColdestIs ==
    ASSUME NEW sensor \in Temps \cup {None}, NEW outdoor \in Temps \cup {None},
           NEW ahead \in Seq(Temps)
    PROVE  /\ Coldest(sensor, outdoor, ahead) \in Temps \cup {None}
           /\ sensor = None /\ outdoor = None /\ ahead = <<>> =>
                  Coldest(sensor, outdoor, ahead) = None
  <1> DEFINE upto == Upto(ahead, FreezeAhead)
             fallback == ({outdoor} \ {None}) \cup upto
  <1>1. upto \subseteq Temps /\ (ahead = <<>> => upto = {})
    BY UptoIsTemps, ConstantsAreNat
  <1>2. Coldest(sensor, outdoor, ahead) =
            IF sensor # None THEN sensor ELSE IF fallback = {} THEN None ELSE Min(fallback)
    BY DEF Coldest
  <1> HIDE DEF upto
  <1>3. fallback \subseteq Temps /\ Temps \subseteq Nat
    BY <1>1, ConstantsAreNat
  <1>4. outdoor = None /\ ahead = <<>> => fallback = {}
    BY <1>1
  <1> HIDE DEF fallback
  <1>5. fallback # {} => Min(fallback) \in Temps
    BY <1>3, LeastOf
  <1> QED
    BY <1>2, <1>4, <1>5

(***************************************************************************)
(* The outdoor samples                                                     *)
(***************************************************************************)

\* Samples within the window of the mean are an interval and more apart.
Spaced(ages) == \A a, b \in ages : a < b /\ b <= Window => b - a >= Interval

\* Taking a sample keeps them so: it is taken an interval after the youngest.
LEMMA SampledSpaced ==
    ASSUME samples \in SUBSET Ages, Spaced(samples), NEW outdoor
    PROVE  Sampled(outdoor) \in SUBSET Ages /\ Spaced(Sampled(outdoor))
  <1>1. Window \in Nat /\ Interval \in Nat /\ Ages = 0..(Window + 1)
    BY ConstantsAreNat DEF Ages
  <1>0. \A age \in samples : age \in Int /\ 0 <= age /\ age <= Window + 1
    BY <1>1
  <1>2. CASE Sampled(outdoor) = samples
    BY <1>2
  <1>3. CASE Sampled(outdoor) # samples
    <2>1. Sampled(outdoor) = InWindow(samples) \cup {0}
      BY <1>3 DEF Sampled
    <2>2. samples = {} \/ Min(samples) >= Interval
      BY <1>3 DEF Sampled
    <2>3. \A age \in samples : age >= Interval
      <3> SUFFICES ASSUME NEW age \in samples PROVE age >= Interval
        OBVIOUS
      <3> DEFINE m == Min(samples)
      <3>1. m \in samples /\ m <= age
        BY <1>1, LeastOf
      <3>2. Interval \in Int /\ m >= Interval
        BY <1>1, <2>2
      <3> HIDE DEF m
      <3>3. age \in Int /\ m \in Int
        BY <1>0, <3>1
      <3> QED
        BY <3>1, <3>2, <3>3
    <2>4. InWindow(samples) \subseteq samples
      BY DEF InWindow
    <2>5. Spaced(InWindow(samples) \cup {0})
      <3> SUFFICES ASSUME NEW a \in InWindow(samples) \cup {0},
                          NEW b \in InWindow(samples) \cup {0}, a < b, b <= Window
                   PROVE  b - a >= Interval
        BY DEF Spaced
      <3>1. a \in Int /\ b \in Int /\ (a = 0 \/ a \in samples) /\ (b = 0 \/ b \in samples)
        BY <1>0, <2>4
      <3>2. b \in samples
        BY <1>0, <3>1
      <3>3. CASE a = 0
        BY <1>1, <2>3, <3>1, <3>2, <3>3
      <3>4. CASE a \in samples
        BY <3>2, <3>4 DEF Spaced
      <3> QED
        BY <3>1, <3>3, <3>4
    <2>6. InWindow(samples) \cup {0} \in SUBSET Ages
      <3>1. 0 \in Ages /\ samples \subseteq Ages
        BY <1>1
      <3> QED
        BY <2>4, <3>1
    <2> QED
      BY <2>1, <2>5, <2>6
  <1> QED
    BY <1>2, <1>3

\* So does the passing of time.
LEMMA AgedSpaced ==
    ASSUME NEW ages \in SUBSET Ages, Spaced(ages)
    PROVE  Aged(ages) \in SUBSET Ages /\ Spaced(Aged(ages))
  <1>1. Window \in Nat /\ Interval \in Nat /\ Ages = 0..(Window + 1)
    BY ConstantsAreNat DEF Ages
  <1>2. \A age \in ages : Older(age, Window + 1) = IF age < Window + 1 THEN age + 1 ELSE age
    BY DEF Older
  <1>3. \A age \in ages : age \in 0..(Window + 1)
    BY <1>1
  <1>4. Aged(ages) \in SUBSET Ages
    <2> SUFFICES ASSUME NEW age \in ages PROVE Older(age, Window + 1) \in 0..(Window + 1)
      BY <1>1 DEF Aged
    <2> QED
      BY <1>1, <1>2, <1>3
  <1>5. Spaced(Aged(ages))
    <2> SUFFICES ASSUME NEW a \in Aged(ages), NEW b \in Aged(ages), a < b, b <= Window
                 PROVE  b - a >= Interval
      BY DEF Spaced
    <2>1. PICK x \in ages : a = Older(x, Window + 1)
      BY DEF Aged
    <2>2. PICK y \in ages : b = Older(y, Window + 1)
      BY DEF Aged
    <2>3. x \in Int /\ y \in Int
      BY <1>1, <1>3
    <2>4. b = y + 1 /\ y < Window + 1
      BY <1>1, <1>2, <2>2, <2>3
    <2>5. a = x + 1
      BY <1>1, <1>2, <2>1, <2>3, <2>4
    <2>6. x < y /\ y <= Window
      BY <1>1, <2>3, <2>4, <2>5
    <2>7. y - x >= Interval
      BY <2>6 DEF Spaced
    <2> QED
      BY <1>1, <2>3, <2>4, <2>5, <2>7
  <1> QED
    BY <1>4, <1>5

\* There is a sample as old as the fewest a mean takes are apart.
Spans(ages) == \E age \in ages : age >= Interval * (MinTrailing - 1)

\* A mean rests on such a sample.
LEMMA MeanSpans ==
    ASSUME NEW ages \in SUBSET Ages, Spaced(ages), NEW ahead, HasMean(ages, ahead)
    PROVE  Spans(ages)
  <1> DEFINE S == InWindow(ages)
  <1>0. Window \in Nat /\ Interval \in Nat \ {0} /\ MinTrailing \in Nat \ {0}
    BY ConstantsAreNat
  <1>1. \A age \in ages : age \in Int /\ 0 <= age
    BY <1>0 DEF Ages
  <1>2. S \subseteq ages /\ S \in SUBSET (0..Window)
    <2>2. \A age \in S : age \in ages /\ age <= Window
      BY DEF InWindow
    <2>3. \A age \in S : age \in 0..Window
      <3> HIDE DEF S
      <3> SUFFICES ASSUME NEW age \in S PROVE age \in 0..Window
        OBVIOUS
      <3>1. age \in Int /\ 0 <= age /\ age <= Window /\ Window \in Int
        BY <1>0, <1>1, <2>2
      <3> QED
        BY <3>1
    <2> QED
      BY <2>2, <2>3
  <1>3. \A a, b \in S : a < b => b - a >= Interval
    BY DEF InWindow, Spaced
  <1>4. Cardinality(S) >= MinTrailing
    BY DEF HasMean
  <1> HIDE DEF S
  <1>5. \E x \in S : x >= Interval * (MinTrailing - 1)
    BY <1>0, <1>2, <1>3, <1>4, ApartSpans
  <1> QED
    BY <1>2, <1>5 DEF Spans

\* A sample of that age is one when time has passed.
LEMMA AgedSpans ==
    ASSUME NEW ages \in SUBSET Ages, Spans(ages)
    PROVE  Spans(Aged(ages))
  <1> DEFINE m == Interval * (MinTrailing - 1)
  <1>1. Window \in Nat /\ m \in Int /\ Ages = 0..(Window + 1)
    BY ConstantsAreNat DEF Ages
  <1>2. PICK age \in ages : age >= m
    BY DEF Spans
  <1> HIDE DEF m
  <1>3. age \in Int
    BY <1>1
  <1>4. Older(age, Window + 1) >= m
    BY <1>1, <1>2, <1>3 DEF Older
  <1>5. Older(age, Window + 1) \in Aged(ages)
    BY DEF Aged
  <1> QED
    BY <1>4, <1>5 DEF Spans, m

\* The greatest sample is that one.
LEMMA SpansByMax ==
    ASSUME NEW ages \in SUBSET Ages, Spans(ages)
    PROVE  ages # {} /\ Max(ages) >= Interval * (MinTrailing - 1)
  <1> DEFINE m == Interval * (MinTrailing - 1)
  <1>1. Window + 1 \in Nat /\ m \in Int
    BY ConstantsAreNat
  <1>5. ages \in SUBSET (0..(Window + 1)) /\ \A age \in ages : age \in Int
    BY <1>1 DEF Ages
  <1>2. PICK age \in ages : age >= m
    BY DEF Spans
  <1> HIDE DEF m
  <1>3. Max(ages) \in ages /\ \A x \in ages : Max(ages) >= x
    BY <1>1, <1>2, <1>5, GreatestOf
  <1>4. Max(ages) >= m
    <2>1. age \in Int /\ Max(ages) \in Int /\ Max(ages) >= age
      BY <1>2, <1>3, <1>5
    <2> QED
      BY <1>1, <1>2, <2>1
  <1> QED
    BY <1>4 DEF m

(***************************************************************************)
(* The invariant                                                           *)
(***************************************************************************)

\* What the runs check, and: the forecast kept is no younger than the failure of
\* the service; samples are an interval apart, saved ones too; and a mean rests
\* on a sample old enough.
InputsInv ==
    /\ FreezeHolds
    /\ ClearIsRecent
    /\ IdleIsSaid
    /\ felt.failing <= cache.age
    /\ Spaced(samples) /\ Spaced(disk.samples)
    /\ seen.mean => Spans(samples)

\* It holds at the start, when nothing was read.
LEMMA InputsInit == ASSUME Init PROVE InputsInv
  <1>1. Never \in Nat /\ Never > StaleMax
    BY ConstantsAreNat DEF Never
  <1>2. <<>> \in Seq(Temps) /\ 0 \in 0..Never /\ Never \in 0..Never
    BY <1>1
  <1>3. cache \in [ahead : Seq(Temps), age : 0..Never]
    BY <1>2 DEF Init, NoCache
  <1>4. /\ freeze \in BOOLEAN /\ samples \subseteq Ages
        /\ disk \in [freeze : BOOLEAN, samples : SUBSET Ages]
    BY DEF Init
  <1>5. /\ seen \in [status : {"active", "clear", "unknown"}, now : BOOLEAN, failing : 0..Never,
                     empty : BOOLEAN, mean : BOOLEAN, summary : {"calling", "all_idle", "unknown"}, idle : BOOLEAN]
        /\ seen.status # "clear" /\ seen.mean = FALSE /\ seen.summary # "all_idle" /\ seen.idle = FALSE
    BY <1>2 DEF Init, Unseen
  <1>6. felt \in [cold : BOOLEAN, failing : 0..Never] /\ felt.cold = FALSE
    BY <1>2 DEF Init
  <1>7. felt.failing <= cache.age
    BY <1>1 DEF Init, NoCache
  <1>8. Spaced(samples) /\ Spaced(disk.samples)
    BY DEF Init, Spaced
  <1> QED
    BY <1>3, <1>4, <1>5, <1>6, <1>7, <1>8
    DEF InputsInv, FreezeHolds, TypeOK, ClearIsRecent, IdleIsSaid

\* The guard's hysteresis is that of the history, and none is released on a value
\* that is unknown.
LEMMA StatusHolds ==
    ASSUME TypeOK, felt.cold => freeze, NEW value \in Temps \cup {None}
    PROVE  /\ Status(value) \in {"active", "clear", "unknown"}
           /\ Felt(value) \in BOOLEAN
           /\ value = None => Status(value) = "unknown" /\ Felt(value) = felt.cold
           /\ value # None => Status(value) # "unknown" /\ (Felt(value) => Status(value) = "active")
  <1>1. freeze \in BOOLEAN /\ felt.cold \in BOOLEAN
    BY DEF TypeOK
  <1> DEFINE low == value <= Threshold
             lowish == value < Threshold + Hysteresis
  <1>2. /\ Status(value) = IF value = None THEN "unknown"
                           ELSE IF low \/ (freeze /\ lowish) THEN "active" ELSE "clear"
        /\ Felt(value) = IF value = None THEN felt.cold ELSE low \/ (felt.cold /\ lowish)
    BY DEF Status, Felt
  <1>3. low \in BOOLEAN /\ lowish \in BOOLEAN
    OBVIOUS
  <1> HIDE DEF low, lowish
  <1> QED
    BY <1>1, <1>2, <1>3

\* A poll keeps it.
LEMMA PollKeeps ==
    ASSUME InputsInv, Poll
    PROVE  InputsInv'
  <1>0. TypeOK
    BY DEF InputsInv, FreezeHolds
  <1>1. PICK sensor \in Temps \cup {None}, outdoor \in Temps \cup {None},
             reply \in Forecasts \cup {Lost}, snapshot \in Snapshots :
            LET kept == Fetched(reply)
                value == Coldest(sensor, outdoor, kept.ahead)
                status == Status(value)
                called == cache.age >= CacheFor
                failing == IF called /\ reply \notin {Lost, <<>>} THEN 0 ELSE felt.failing
            IN  /\ cache' = kept
                /\ freeze' = IF status = "unknown" THEN freeze ELSE status = "active"
                /\ samples' = Sampled(outdoor)
                /\ seen' = [status |-> status, now |-> {sensor, outdoor} # {None}, failing |-> failing,
                            empty |-> called /\ reply = <<>>, mean |-> HasMean(samples', kept.ahead),
                            summary |-> snapshot.summary, idle |-> snapshot.idle]
                /\ felt' = [cold |-> Felt(value), failing |-> failing]
                /\ UNCHANGED disk
    BY DEF Poll
  <1> DEFINE kept == Fetched(reply)
             value == Coldest(sensor, outdoor, kept.ahead)
             status == Status(value)
             called == cache.age >= CacheFor
             failing == IF called /\ reply \notin {Lost, <<>>} THEN 0 ELSE felt.failing
             empty == called /\ reply = <<>>
             now == {sensor, outdoor} # {None}
             mean == HasMean(samples', kept.ahead)
             cold == Felt(value)
  <1>2. /\ cache' = kept
        /\ freeze' = IF status = "unknown" THEN freeze ELSE status = "active"
        /\ samples' = Sampled(outdoor)
        /\ seen' = [status |-> status, now |-> now, failing |-> failing, empty |-> empty,
                    mean |-> mean, summary |-> snapshot.summary, idle |-> snapshot.idle]
        /\ felt' = [cold |-> cold, failing |-> failing]
        /\ disk' = disk
    BY <1>1
  <1>3. /\ kept \in [ahead : Seq(Temps), age : 0..Never]
        /\ \/ kept.age = cache.age
           \/ kept.age = 0 /\ reply \notin {Lost, <<>>} /\ called
        /\ called /\ reply = Lost /\ cache.age > StaleMax => kept.ahead = <<>>
    BY <1>0, FetchedKeeps
  <1>4. /\ value \in Temps \cup {None}
        /\ sensor = None /\ outdoor = None /\ kept.ahead = <<>> => value = None
    BY <1>3, ColdestIs
  <1>5. /\ status \in {"active", "clear", "unknown"}
        /\ cold \in BOOLEAN
        /\ value = None => status = "unknown" /\ cold = felt.cold
        /\ value # None => status # "unknown" /\ (cold => status = "active")
    BY <1>0, <1>4, StatusHolds DEF InputsInv, FreezeHolds
  <1>6. samples' \in SUBSET Ages /\ Spaced(samples')
    BY <1>0, <1>2, SampledSpaced DEF InputsInv, TypeOK
  <1>7. mean => Spans(samples')
    BY <1>6, MeanSpans
  <1>8. mean \in BOOLEAN /\ now \in BOOLEAN /\ empty \in BOOLEAN
    BY DEF HasMean
  <1>9. /\ CacheFor \in Nat /\ StaleMax \in Nat /\ CacheFor <= StaleMax /\ Never \in Nat
        /\ cache.age \in 0..Never /\ felt.failing \in 0..Never /\ felt.failing <= cache.age
        /\ felt.cold \in BOOLEAN /\ freeze \in BOOLEAN
        /\ felt.cold => freeze
        /\ disk \in [freeze : BOOLEAN, samples : SUBSET Ages] /\ Spaced(disk.samples)
    BY <1>0, ConstantsAreNat DEF InputsInv, TypeOK, FreezeHolds
  <1>10. /\ snapshot.summary \in {"calling", "all_idle", "unknown"}
         /\ snapshot.idle \in BOOLEAN
         /\ (snapshot.summary = "all_idle") = snapshot.idle
    BY SnapshotSays
  <1>11. ~now => sensor = None /\ outdoor = None
    OBVIOUS
  <1>12. failing \in 0..Never /\ (failing = felt.failing \/ failing = 0)
         /\ (called /\ reply \notin {Lost, <<>>} => failing = 0)
    BY <1>9
  <1>13. called /\ ~empty => reply # <<>>
    OBVIOUS
  <1>14. cache.age >= CacheFor => called
    OBVIOUS
  <1> HIDE DEF kept, value, status, called, failing, empty, now, mean, cold
  <1>15. failing <= kept.age
    <2>1. kept.age \in 0..Never
      BY <1>3
    <2> QED
      BY <1>3, <1>9, <1>12, <2>1
  <1>16. status = "clear" /\ ~now => failing <= StaleMax \/ empty
    <2> SUFFICES ASSUME status = "clear", ~now, ~ (failing <= StaleMax), ~empty PROVE FALSE
      OBVIOUS
    <2>1. value # None
      BY <1>5
    <2>2. kept.ahead # <<>>
      BY <1>4, <1>11, <2>1
    <2>3. ~ (called /\ reply = Lost /\ cache.age > StaleMax)
      BY <1>3, <2>2
    <2>4. failing = felt.failing /\ ~ (called /\ reply \notin {Lost, <<>>})
      BY <1>9, <1>12
    <2>5. felt.failing > StaleMax /\ cache.age > StaleMax /\ called
      BY <1>9, <1>14, <2>4
    <2> QED
      BY <1>13, <2>3, <2>4, <2>5
  <1>17. freeze' \in BOOLEAN /\ (cold => freeze' /\ status # "clear")
    BY <1>2, <1>5, <1>9
  <1>18. cache' \in [ahead : Seq(Temps), age : 0..Never]
    BY <1>2, <1>3
  <1>19. seen' \in [status : {"active", "clear", "unknown"}, now : BOOLEAN, failing : 0..Never,
                    empty : BOOLEAN, mean : BOOLEAN, summary : {"calling", "all_idle", "unknown"}, idle : BOOLEAN]
    BY <1>2, <1>5, <1>8, <1>10, <1>12
  <1>20. felt' \in [cold : BOOLEAN, failing : 0..Never]
    BY <1>2, <1>5, <1>12
  <1>21. seen'.status = status /\ seen'.now = now /\ seen'.failing = failing /\ seen'.mean = mean
         /\ seen'.empty = empty
         /\ seen'.summary = snapshot.summary /\ seen'.idle = snapshot.idle
    BY <1>2
  <1>22. felt'.cold = cold /\ felt'.failing = failing
    BY <1>2
  <1>23. TypeOK'
    BY <1>2, <1>6, <1>9, <1>17, <1>18, <1>19, <1>20 DEF TypeOK
  <1>24. FreezeHolds'
    BY <1>17, <1>21, <1>22, <1>23 DEF FreezeHolds
  <1>25. ClearIsRecent'
    BY <1>16, <1>21 DEF ClearIsRecent
  <1>26. IdleIsSaid'
    BY <1>10, <1>21 DEF IdleIsSaid
  <1>27. felt'.failing <= cache'.age
    BY <1>2, <1>15, <1>22
  <1>28. (seen.mean => Spans(samples))'
    BY <1>7, <1>21 DEF Spans
  <1>29. Spaced(samples)' /\ Spaced(disk.samples)'
    BY <1>2, <1>6, <1>9 DEF Spaced
  <1> QED
    BY <1>24, <1>25, <1>26, <1>27, <1>28, <1>29 DEF InputsInv

\* Older is a number no younger and within the limit.
LEMMA OlderIs ==
    ASSUME NEW limit \in Nat, NEW age \in 0..limit
    PROVE  Older(age, limit) \in 0..limit /\ Older(age, limit) >= age
  BY DEF Older

\* Time keeps it: both ages grow alike.
LEMMA PassesKeeps ==
    ASSUME InputsInv, Passes
    PROVE  InputsInv'
  <1>0. TypeOK
    BY DEF InputsInv, FreezeHolds
  <1>1. /\ cache' = [ahead |-> IF cache.ahead = <<>> THEN <<>> ELSE Tail(cache.ahead),
                     age |-> Older(cache.age, Never)]
        /\ samples' = Aged(samples)
        /\ disk' = [disk EXCEPT !.samples = Aged(disk.samples)]
        /\ felt' = [felt EXCEPT !.failing = Older(felt.failing, Never)]
        /\ freeze' = freeze /\ seen' = seen
    BY DEF Passes
  <1>2. Never \in Nat
    BY ConstantsAreNat
  <1>3. cache.ahead \in Seq(Temps) /\ cache.age \in 0..Never /\ felt.failing \in 0..Never
    BY <1>0 DEF TypeOK
  <1> DEFINE ahead == IF cache.ahead = <<>> THEN <<>> ELSE Tail(cache.ahead)
             age == Older(cache.age, Never)
             failing == Older(felt.failing, Never)
  <1>4. ahead \in Seq(Temps)
    <2>1. <<>> \in Seq(Temps)
      OBVIOUS
    <2>2. cache.ahead # <<>> => Tail(cache.ahead) \in Seq(Temps)
      BY <1>3
    <2> QED
      BY <2>1, <2>2
  <1>5. age \in 0..Never /\ failing \in 0..Never
    BY <1>2, <1>3, OlderIs
  <1>6. failing <= age
    BY <1>2, <1>3 DEF Older, InputsInv
  <1>7. cache' = [ahead |-> ahead, age |-> age]
        /\ felt' = [felt EXCEPT !.failing = failing]
    BY <1>1
  <1> HIDE DEF ahead, age, failing
  <1>8. samples' \in SUBSET Ages /\ Spaced(samples)'
    <2>1. samples \in SUBSET Ages /\ Spaced(samples)
      BY <1>0 DEF TypeOK, InputsInv
    <2>2. Aged(samples) \in SUBSET Ages /\ Spaced(Aged(samples))
      BY <2>1, AgedSpaced
    <2> QED
      BY <1>1, <2>2 DEF Spaced
  <1>9. disk' \in [freeze : BOOLEAN, samples : SUBSET Ages] /\ Spaced(disk.samples)'
    <2>1. disk \in [freeze : BOOLEAN, samples : SUBSET Ages] /\ Spaced(disk.samples)
      BY <1>0 DEF TypeOK, InputsInv
    <2>2. Aged(disk.samples) \in SUBSET Ages /\ Spaced(Aged(disk.samples))
      BY <2>1, AgedSpaced
    <2>3. disk' \in [freeze : BOOLEAN, samples : SUBSET Ages]
          /\ disk'.samples = Aged(disk.samples)
      BY <1>1, <2>1, <2>2
    <2> QED
      BY <2>2, <2>3 DEF Spaced
  <1>10. felt' \in [cold : BOOLEAN, failing : 0..Never]
         /\ felt'.cold = felt.cold /\ felt'.failing = failing
    BY <1>0, <1>5, <1>7 DEF TypeOK
  <1>11. cache' \in [ahead : Seq(Temps), age : 0..Never] /\ cache'.age = age
    BY <1>4, <1>5, <1>7
  <1>12. TypeOK'
    BY <1>0, <1>1, <1>8, <1>9, <1>10, <1>11 DEF TypeOK
  <1>13. FreezeHolds'
    BY <1>1, <1>10, <1>12 DEF FreezeHolds, InputsInv
  <1>14. ClearIsRecent' /\ IdleIsSaid'
    BY <1>1 DEF ClearIsRecent, IdleIsSaid, InputsInv
  <1>15. felt'.failing <= cache'.age
    BY <1>6, <1>10, <1>11
  <1>16. (seen.mean => Spans(samples))'
    <2>1. samples \in SUBSET Ages /\ (seen.mean => Spans(samples))
      BY <1>0 DEF TypeOK, InputsInv
    <2>2. seen.mean => Spans(Aged(samples))
      BY <2>1, AgedSpans
    <2> QED
      BY <1>1, <2>2 DEF Spans
  <1> QED
    BY <1>8, <1>9, <1>13, <1>14, <1>15, <1>16 DEF InputsInv

\* So does a write of the Store.
LEMMA SavesKeeps ==
    ASSUME InputsInv, Saves
    PROVE  InputsInv'
  <1>0. TypeOK
    BY DEF InputsInv, FreezeHolds
  <1>1. /\ disk' = [freeze |-> freeze, samples |-> samples]
        /\ cache' = cache /\ freeze' = freeze /\ samples' = samples /\ seen' = seen /\ felt' = felt
    BY DEF Saves
  <1>2. TypeOK'
    BY <1>0, <1>1 DEF TypeOK
  <1>3. FreezeHolds' /\ ClearIsRecent' /\ IdleIsSaid'
    BY <1>1, <1>2 DEF FreezeHolds, ClearIsRecent, IdleIsSaid, InputsInv
  <1>4. Spaced(samples)' /\ Spaced(disk.samples)'
    BY <1>1 DEF Spaced, InputsInv
  <1>5. (seen.mean => Spans(samples))' /\ felt'.failing <= cache'.age
    BY <1>1 DEF Spans, InputsInv
  <1> QED
    BY <1>3, <1>4, <1>5 DEF InputsInv

\* And a start of Home Assistant from what the Store holds, when the history owes
\* it no more than that.
LEMMA LoadsKeeps ==
    ASSUME TypeOK, NEW stored \in [freeze : BOOLEAN, samples : SUBSET Ages],
           Spaced(stored.samples), Loads(stored), disk' = stored,
           NEW cold \in BOOLEAN, felt' = [felt EXCEPT !.cold = cold], cold => stored.freeze
    PROVE  InputsInv'
  <1>1. Never \in Nat
    BY ConstantsAreNat
  <1>2. cache' \in [ahead : Seq(Temps), age : 0..Never] /\ cache'.age = Never
    <2>1. <<>> \in Seq(Temps) /\ Never \in 0..Never
      BY <1>1
    <2> QED
      BY <2>1 DEF Loads, NoCache
  <1>3. seen' \in [status : {"active", "clear", "unknown"}, now : BOOLEAN, failing : 0..Never,
                   empty : BOOLEAN, mean : BOOLEAN, summary : {"calling", "all_idle", "unknown"}, idle : BOOLEAN]
        /\ seen'.status # "clear" /\ seen'.mean = FALSE
        /\ seen'.summary # "all_idle" /\ seen'.idle = FALSE
    <2>1. Never \in 0..Never
      BY <1>1
    <2> QED
      BY <2>1 DEF Loads, Unseen
  <1>4. felt' \in [cold : BOOLEAN, failing : 0..Never] /\ felt'.cold = cold
        /\ felt'.failing = felt.failing
    BY DEF TypeOK
  <1>5. felt'.failing <= cache'.age
    BY <1>1, <1>2, <1>4 DEF TypeOK
  <1>6. samples' \in SUBSET Ages /\ Spaced(samples')
    <2>1. samples' \subseteq stored.samples
      BY DEF Loads, InWindow
    <2> QED
      BY <2>1 DEF Spaced
  <1>7. freeze' = stored.freeze /\ freeze' \in BOOLEAN
    BY DEF Loads
  <1>8. TypeOK'
    BY <1>2, <1>3, <1>4, <1>6, <1>7 DEF TypeOK
  <1>9. FreezeHolds' /\ ClearIsRecent' /\ IdleIsSaid'
    BY <1>3, <1>4, <1>7, <1>8 DEF FreezeHolds, ClearIsRecent, IdleIsSaid
  <1>10. Spaced(samples)' /\ Spaced(disk.samples)'
    BY <1>6 DEF Spaced
  <1> QED
    BY <1>3, <1>5, <1>9, <1>10 DEF InputsInv

\* Every step keeps it.
LEMMA InputsStep ==
    ASSUME InputsInv, [Next]_vars
    PROVE  InputsInv'
  <1>0. TypeOK /\ Spaced(samples) /\ Spaced(disk.samples) /\ (felt.cold => freeze)
    BY DEF InputsInv, FreezeHolds
  <1>1. CASE Poll
    BY <1>1, PollKeeps
  <1>2. CASE Passes
    BY <1>2, PassesKeeps
  <1>3. CASE Saves
    BY <1>3, SavesKeeps
  <1>4. CASE Reload
    <2> DEFINE stored == [freeze |-> freeze, samples |-> samples]
    <2>1. disk' = stored /\ Loads(disk')
      BY <1>4 DEF Reload
    <2>2. Loads(stored)
      BY <2>1
    <2>3. stored \in [freeze : BOOLEAN, samples : SUBSET Ages] /\ Spaced(stored.samples)
          /\ felt.cold \in BOOLEAN /\ (felt.cold => stored.freeze)
      BY <1>0 DEF TypeOK
    <2>4. felt' = [felt EXCEPT !.cold = felt.cold]
      BY <1>0, <1>4 DEF Reload, TypeOK
    <2> HIDE DEF stored
    <2> QED
      BY <1>0, <2>1, <2>2, <2>3, <2>4, LoadsKeeps
  <1>5. CASE Crash
    <2> DEFINE cold == felt.cold /\ disk.freeze
    <2>1. Loads(disk) /\ disk' = disk /\ felt' = [felt EXCEPT !.cold = cold]
      BY <1>5 DEF Crash
    <2>2. disk \in [freeze : BOOLEAN, samples : SUBSET Ages] /\ cold \in BOOLEAN
          /\ (cold => disk.freeze)
      BY <1>0 DEF TypeOK
    <2> HIDE DEF cold
    <2> QED
      BY <1>0, <2>1, <2>2, LoadsKeeps
  <1>6. CASE UNCHANGED vars
    BY <1>6 DEF vars, InputsInv, FreezeHolds, TypeOK, ClearIsRecent, IdleIsSaid, Spaced, Spans
  <1> QED
    BY <1>1, <1>2, <1>3, <1>4, <1>5, <1>6 DEF Next

\* The invariant is one of the behaviours.
THEOREM InputsInductive == Spec => []InputsInv
  <1>1. Init => InputsInv
    BY InputsInit
  <1>2. InputsInv /\ [Next]_vars => InputsInv'
    BY InputsStep
  <1> QED
    BY <1>1, <1>2, PTL DEF Spec

\* Once the freeze guard (_update_freeze) has read cold it is held until a reading
\* well above the threshold: through polls that read nothing, a source that
\* changes, reloads and crashes.
THEOREM GuardHolds == Spec => []FreezeHolds
  <1>1. InputsInv => FreezeHolds
    BY DEF InputsInv
  <1> QED
    BY <1>1, InputsInductive, PTL

\* freeze_status says "clear" by a reading of now or by a forecast sent within
\* FORECAST_STALE_MAX_S, whatever the cache went through, or in the poll whose own
\* call came back with no entries.
THEOREM ClearOnRecentWord == Spec => []ClearIsRecent
  <1>1. InputsInv => ClearIsRecent
    BY DEF InputsInv
  <1> QED
    BY <1>1, InputsInductive, PTL

\* A mean of the outdoor temperature (centred_mean) rests on samples hours apart,
\* for any interval, window and number of them: restarts take no second sample.
THEOREM MeanSpansItsHours == Spec => []MeanSpansHours
  <1>1. InputsInv => MeanSpansHours
    <2> SUFFICES ASSUME InputsInv, seen.mean
                 PROVE  samples # {} /\ Max(samples) >= Interval * (MinTrailing - 1)
      BY DEF MeanSpansHours
    <2>1. samples \in SUBSET Ages /\ Spans(samples)
      BY DEF InputsInv, FreezeHolds, TypeOK
    <2> QED
      BY <2>1, SpansByMax
  <1> QED
    BY <1>1, InputsInductive, PTL

\* The summary that permits a stop is there exactly when every thermostat, however
\* many there are, says lately that it needs no heat.
THEOREM IdleWhenAllSay == Spec => []IdleIsSaid
  <1>1. InputsInv => IdleIsSaid
    BY DEF InputsInv
  <1> QED
    BY <1>1, InputsInductive, PTL
=============================================================================
