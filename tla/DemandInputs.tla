----------------------------- MODULE DemandInputs -----------------------------
(***************************************************************************)
(* What the shutoff decides on (_control_step's readers): the hourly       *)
(* forecast and its cache, the freeze guard with its hysteresis, the       *)
(* centred mean of the outdoor temperature and the thermostats' summary.   *)
(* DemandShutoff takes them as inputs.                                     *)
(*                                                                         *)
(* Time passes in units, polls come when they come.  A forecast is what it *)
(* says of the next units.  Of the outdoor samples and of the mean only    *)
(* the ages matter here: the gate compares what the mean is.               *)
(***************************************************************************)
EXTENDS Integers, Sequences, SequencesExt, FiniteSetsExt

CONSTANTS
    Temps, Threshold, Hysteresis,
    Forecasts,                   \* replies of the weather service, empty ones among them
    CacheFor, StaleMax,          \* FORECAST_CACHE_S, FORECAST_STALE_MAX_S
    FreezeAhead,                 \* the forecast the freeze guard looks at
    Interval, Window,            \* between outdoor samples, of the mean on either side
    MinPoints, MinTrailing,
    Thermostats

None == -1

ASSUME DemandInputsAssumption ==
    /\ Temps \subseteq Nat /\ Threshold \in Nat /\ Hysteresis \in Nat \ {0}
    /\ Forecasts \subseteq Seq(Temps)
    /\ {CacheFor, StaleMax, FreezeAhead, Interval, Window, MinTrailing} \subseteq Nat \ {0}
    /\ CacheFor <= StaleMax /\ Interval <= Window /\ MinTrailing <= MinPoints
    /\ IsFiniteSet(Thermostats) /\ Thermostats # {}

VARIABLES
    cache,    \* ahead: the forecast kept, from the next unit on; age of it
    freeze,   \* _freeze_active
    samples,  \* the ages of _outdoor_samples
    disk,     \* what the Store holds of freeze and samples
    seen,     \* what the last poll made of its inputs
    felt      \* history: cold was read, and for how long no forecast has come

vars == <<cache, freeze, samples, disk, seen, felt>>

Never == StaleMax + 1
Ages == 0..Window + 1

TypeOK ==
    /\ cache \in [ahead : Seq(Temps), age : 0..Never]
    /\ freeze \in BOOLEAN
    /\ samples \subseteq Ages
    /\ disk \in [freeze : BOOLEAN, samples : SUBSET Ages]
    /\ seen \in [status : {"active", "clear", "unknown"},
                 now : BOOLEAN,    \* on a reading, not on a forecast alone
                 failing : 0..Never,
                 empty : BOOLEAN,  \* the weather service answered, with no entries
                 mean : BOOLEAN,   \* there is one
                 summary : {"calling", "all_idle", "unknown"},
                 idle : BOOLEAN]   \* every thermostat says so
    /\ felt \in [cold : BOOLEAN,   \* at or below the threshold, and not warm since
                 failing : 0..Never]  \* since the weather service sent a forecast

----------------------------------------------------------------------------
(* The thermostats *)

Reports ==
    [available : BOOLEAN, stale : BOOLEAN, action : {"none", "heating", "idle", "off", "cooling"},
     mode : {"off", "heat", "cool"}, room : {"unknown", "cold", "warm"}]

\* Faulty Class: a thermostat that is off is believed however old its report.
ClassFaulty(r) ==
    IF ~r.available THEN "unknown"
    ELSE IF r.mode = "off" THEN "idle"
    ELSE IF r.stale THEN "unknown"
    ELSE IF r.action = "heating" \/ (r.mode = "heat" /\ r.room = "cold") THEN "calling"
    ELSE IF r.action \in {"idle", "off"} THEN "idle" ELSE "unknown"

\* classify_thermostat; a cold room is one below its set point by the delta.
Class(r) ==
    IF ~r.available \/ r.stale THEN "unknown"
    ELSE IF r.action = "heating" THEN "calling"
    ELSE IF r.mode = "off" THEN "idle"
    ELSE IF r.action = "none" THEN "unknown"
    ELSE IF r.mode = "heat" /\ r.room = "cold" THEN "calling"
    ELSE IF r.action \in {"idle", "off"} THEN "idle" ELSE "unknown"

\* summarize
Summary(classes) ==
    CASE "calling" \in classes -> "calling"
      [] classes = {"idle"} -> "all_idle"
      [] OTHER -> "unknown"

\* What a thermostat says that needs no heat, by the documentation.
SaysIdle(r) ==
    /\ r.available /\ ~r.stale /\ r.action # "heating"
    /\ r.mode = "off" \/ (r.action \in {"idle", "off"} /\ ~(r.mode = "heat" /\ r.room = "cold"))

\* Per thermostat its class, and whether it says it needs no heat.
Said == {<<Class(r), SaysIdle(r)>> : r \in Reports}

\* _demand_snapshot
Snapshots ==
    {[summary |-> Summary({said[t][1] : t \in Thermostats}),
      idle |-> \A t \in Thermostats : said[t][2]] : said \in [Thermostats -> Said]}

----------------------------------------------------------------------------
(* The forecast *)

Lost == <<None>>

\* Faulty Fetched: a failed call renews the age of what is kept.
FetchedFaulty(reply) ==
    IF cache.age < CacheFor THEN cache
    ELSE IF reply # Lost /\ reply # <<>> THEN [ahead |-> reply, age |-> 0]
    ELSE [cache EXCEPT !.age = 0]

\* _hourly_forecast: what is kept is used up to its age, and if the call fails a
\* good while longer; an empty answer changes nothing.
Fetched(reply) ==
    IF cache.age < CacheFor THEN cache
    ELSE IF reply = Lost
    THEN IF cache.age > StaleMax THEN [cache EXCEPT !.ahead = <<>>] ELSE cache
    ELSE IF reply # <<>> THEN [ahead |-> reply, age |-> 0] ELSE cache

Upto(ahead, n) == ToSet(SubSeq(ahead, 1, IF n < Len(ahead) THEN n ELSE Len(ahead)))

----------------------------------------------------------------------------
(* The freeze guard *)

\* The source of _update_freeze: the sensor, else the coldest of now and of what
\* is forecast (freeze_fallback_value).
Coldest(sensor, outdoor, ahead) ==
    LET fallback == ({outdoor} \ {None}) \cup Upto(ahead, FreezeAhead)
    IN  IF sensor # None THEN sensor ELSE IF fallback = {} THEN None ELSE Min(fallback)

\* Faulty Status: no hysteresis.
StatusFaulty(value) ==
    IF value = None THEN "unknown" ELSE IF value <= Threshold THEN "active" ELSE "clear"

\* freeze_status
Status(value) ==
    IF value = None THEN "unknown"
    ELSE IF value <= Threshold \/ (freeze /\ value < Threshold + Hysteresis) THEN "active"
    ELSE "clear"

----------------------------------------------------------------------------
(* The outdoor mean *)

InWindow(ages) == {age \in ages : age <= Window}

\* Faulty Sampled: due by the oldest sample.
SampledFaulty(outdoor) ==
    IF outdoor # None /\ (samples = {} \/ Max(samples) >= Interval)
    THEN InWindow(samples) \cup {0} ELSE samples

\* _update_outdoor_mean: a sample is due by the youngest.
Sampled(outdoor) ==
    IF outdoor # None /\ (samples = {} \/ Min(samples) >= Interval)
    THEN InWindow(samples) \cup {0} ELSE samples

\* centred_mean
HasMean(ages, ahead) ==
    LET trailing == Cardinality(InWindow(ages))
        following == IF Len(ahead) < Window THEN Len(ahead) ELSE Window
    IN  trailing + following >= MinPoints /\ trailing >= MinTrailing

----------------------------------------------------------------------------
(* Actions *)

\* Cold was read, and nothing warm enough to release the guard since.
Felt(value) ==
    IF value = None THEN felt.cold
    ELSE value <= Threshold \/ (felt.cold /\ value < Threshold + Hysteresis)

Poll ==
    \E sensor, outdoor \in Temps \cup {None}, reply \in Forecasts \cup {Lost}, snapshot \in Snapshots :
        LET kept == Fetched(reply)
            value == Coldest(sensor, outdoor, kept.ahead)
            status == Status(value)
            called == cache.age >= CacheFor
            failing == IF called /\ reply \notin {Lost, <<>>} THEN 0 ELSE felt.failing
        IN  /\ cache' = kept
            /\ freeze' = IF status = "unknown" THEN freeze ELSE status = "active"
            /\ samples' = Sampled(outdoor)
            /\ seen' = [status |-> status, now |-> {sensor, outdoor} # {None}, failing |-> failing,
                        empty |-> called /\ reply = <<>>, mean |-> HasMean(samples', kept.ahead),
                        summary |-> snapshot.summary, idle |-> snapshot.idle]
            /\ felt' = [cold |-> Felt(value), failing |-> failing]
            /\ UNCHANGED disk

Older(age, limit) == IF age < limit THEN age + 1 ELSE age
Aged(ages) == {Older(age, Window + 1) : age \in ages}

\* Time passes, while Home Assistant is down too.
Passes ==
    /\ cache' = [ahead |-> IF cache.ahead = <<>> THEN <<>> ELSE Tail(cache.ahead),
                 age |-> Older(cache.age, Never)]
    /\ samples' = Aged(samples)
    /\ disk' = [disk EXCEPT !.samples = Aged(@)]
    /\ felt' = [felt EXCEPT !.failing = Older(@, Never)]
    /\ UNCHANGED <<freeze, seen>>

\* _save_later comes to its end, or anything else saves.
Saves ==
    /\ disk' = [freeze |-> freeze, samples |-> samples]
    /\ UNCHANGED <<cache, freeze, samples, seen, felt>>

NoCache == [ahead |-> <<>>, age |-> Never]

Unseen ==
    [status |-> "unknown", now |-> FALSE, failing |-> Never, empty |-> FALSE,
     mean |-> FALSE, summary |-> "unknown", idle |-> FALSE]

\* async_setup, from what the Store holds
Loads(stored) ==
    /\ cache' = NoCache /\ seen' = Unseen
    /\ freeze' = stored.freeze /\ samples' = InWindow(stored.samples)

\* An unload saves first.
Reload ==
    /\ disk' = [freeze |-> freeze, samples |-> samples]
    /\ Loads(disk')
    /\ UNCHANGED felt

\* What was not saved yet is forgotten.
Crash ==
    /\ Loads(disk)
    /\ felt' = [felt EXCEPT !.cold = @ /\ disk.freeze]
    /\ UNCHANGED disk

Init ==
    /\ cache = NoCache /\ freeze = FALSE /\ samples = {} /\ seen = Unseen
    /\ disk = [freeze |-> FALSE, samples |-> {}]
    /\ felt = [cold |-> FALSE, failing |-> Never]

Next == Poll \/ Passes \/ Saves \/ Reload \/ Crash

Spec == Init /\ [][Next]_vars

----------------------------------------------------------------------------
(* Properties *)

\* "The condition releases only once the source reads 3 degrees above the
\* threshold": through polls without a source, a change of the source, reloads
\* and crashes, but for one before the guard's bit is saved.
FreezeHolds ==
    TypeOK /\ (felt.cold => freeze /\ seen.status # "clear")

\* The guard is clear on a reading of now, or on a forecast the weather service
\* sent within StaleMax: through calls that failed, reloads and crashes.  Only
\* where this very poll's call came back with no entries may it be older, for the
\* code then keeps what it has however old that is.
ClearIsRecent ==
    seen.status = "clear" /\ ~seen.now => seen.failing <= StaleMax \/ seen.empty

\* However often the outdoor temperature is read, reloaded or restored after a
\* crash, a mean rests on readings that are hours apart, not on a burst and a
\* forecast.
MeanSpansHours ==
    seen.mean => samples # {} /\ Max(samples) >= Interval * (MinTrailing - 1)

\* No call is made up or missed: the summary that permits a stop is there exactly
\* when every thermostat says, lately, that it needs no heat.
IdleIsSaid == (seen.summary = "all_idle") = seen.idle
=============================================================================
