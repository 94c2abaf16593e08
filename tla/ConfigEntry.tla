----------------------------- MODULE ConfigEntry -----------------------------
(***************************************************************************)
(* The life of the config entry, __init__.py: its migration from schema    *)
(* version 1 to 5, its set-up with or without an answer of the miner, its  *)
(* unloading and loading when an option is changed, and Home Assistant     *)
(* dying at any moment, with what it writes late not written.              *)
(*                                                                         *)
(* Of the controllers only the hand-over is here: the one of the loaded    *)
(* entry, and a former one whose step outlasted the 20 s async_unload      *)
(* waits for it and goes on behind the new one's back.  A step waits for   *)
(* the forecast, decides, saves, sends its command and saves again; what   *)
(* it decides is left open; how it does, and what a poll tells it late, is *)
(* in HeatController.                                                      *)
(***************************************************************************)
EXTENDS Naturals

CONSTANTS
    Versions,     \* the schema versions the entry may come from
    SaveFails,    \* whether a write of the Store may fail
    MaxCrashes    \* bound: how often Home Assistant dies

ASSUME EntryAssumption ==
    Versions \subseteq 1..5 /\ SaveFails \in BOOLEAN /\ MaxCrashes \in Nat

VARIABLES
    phase,       \* how far Home Assistant has got with the entry
    entry,       \* the entry in memory: its schema, and whether the MAC is known
    registry,    \* the retired entities in the entity registry
    entryDisk,   \* the entry as .storage has it
    registryDisk,\* the registry as .storage has it
    ctl,         \* the controller of the loaded entry
    old,         \* a former controller whose step is not over
    store,       \* the ownership of a stop, as the controllers' Store has it
    mining,      \* whether the miner mines
    late,        \* history: whether a step has outlasted the wait of its unload, and
                 \* then the set-up of the next controller too
    torn,        \* history: whether a crash fell between the writes of entry and registry
    crashes

configs     == <<entry, registry, entryDisk, registryDisk>>
controllers == <<ctl, old, store, mining>>
history     == <<late, torn, crashes>>
vars        == <<phase, configs, controllers, history>>

NoController == [step |-> "none", own |-> "no"]

Units == {"C", "F", "twice"}
Retired == {"v4", "v5"}
Entries == [version : 1..5, unit : Units, options : SUBSET Retired, mac : BOOLEAN]
Steps == {"none", "forecast", "save_off", "off", "save_on", "on", "save"}
Controllers == [step : Steps, own : {"no", "stopped", "resuming"}]

TypeOK ==
    /\ phase \in {"down", "start", "refresh", "retry", "load", "loaded", "leave"}
    /\ entry \in Entries /\ entryDisk \in Entries
    /\ registry \subseteq Retired /\ registryDisk \subseteq Retired
    /\ ctl \in Controllers /\ old \in Controllers
    /\ store \in {"no", "stopped", "resuming"}
    /\ late \in {"no", "outlasted", "overtaken"}
    /\ {mining, torn} \subseteq BOOLEAN /\ crashes \in 0..MaxCrashes
    /\ phase \notin {"loaded", "leave"} => ctl = NoController
    /\ old.step = "none" => old = NoController

----------------------------------------------------------------------------
(* Migration *)

\* The options and the entities an entry of that version has and version 5 has not.
Carries(version) ==
    IF version = 5 THEN {} ELSE IF version = 4 THEN {"v5"} ELSE Retired

Fahrenheit(unit) == IF unit = "C" THEN "F" ELSE "twice"

\* Each of async_migrate_entry's steps: one async_update_entry with the new
\* data and the new version, and the registry entries retired with it.
To2(e) == IF e.version = 1 THEN [e EXCEPT !.version = 2, !.unit = Fahrenheit(@)] ELSE e
To3(e) == IF e.version = 2 THEN [e EXCEPT !.version = 3] ELSE e
To4(e) == IF e.version = 3 THEN [e EXCEPT !.version = 4, !.options = @ \ {"v4"}] ELSE e
To5(e) == IF e.version = 4 THEN [e EXCEPT !.version = 5, !.options = @ \ {"v5"}] ELSE e

Migrated(e) == To5(To4(To3(To2(e))))

Removes(r, version, step) == IF version <= step THEN {r} ELSE {}

\* Faulty Retires: an entry from before version 4 stays in the branch of its
\* own version.
RetiresFaulty(version) ==
    Removes("v4", version, 3) \cup (IF version = 4 THEN {"v5"} ELSE {})

\* The entities the steps from that version on remove.
Retires(version) == Removes("v4", version, 3) \cup Removes("v5", version, 4)

\* No await: the migration is one step, and its two writes come later.
Migrate ==
    /\ phase = "start" /\ phase' = "refresh"
    /\ entry' = Migrated(entry)
    /\ registry' = registry \ Retires(entry.version)
    /\ UNCHANGED <<entryDisk, registryDisk, controllers, history>>

\* Home Assistant writes the entries after 1 s, the entity registry after 10.
EntryWritten ==
    /\ phase # "down" /\ entryDisk # entry
    /\ entryDisk' = entry
    /\ UNCHANGED <<phase, entry, registry, registryDisk, controllers, history>>

RegistryWritten ==
    /\ phase # "down" /\ registryDisk # registry
    /\ registryDisk' = registry
    /\ UNCHANGED <<phase, entry, registry, entryDisk, controllers, history>>

----------------------------------------------------------------------------
(* Set-up *)

\* The first refresh is answered: the MAC is kept for the next set-up.
Answered ==
    /\ phase = "refresh" /\ phase' = "load"
    /\ entry' = [entry EXCEPT !.mac = TRUE]
    /\ UNCHANGED <<registry, entryDisk, registryDisk, controllers, history>>

\* Faulty Unanswered: no degraded mode.
UnansweredFaulty ==
    /\ phase = "refresh" /\ phase' = "retry"
    /\ UNCHANGED <<configs, controllers, history>>

\* Not answered: degraded with the MAC, or ConfigEntryNotReady.
Unanswered ==
    /\ phase = "refresh" /\ phase' = IF entry.mac THEN "load" ELSE "retry"
    /\ UNCHANGED <<configs, controllers, history>>

Retries ==
    /\ phase = "retry" /\ phase' = "refresh"
    /\ UNCHANGED <<configs, controllers, history>>

\* async_setup of the controller, the platforms and the update listener.
Loads ==
    /\ phase = "load" /\ phase' = "loaded"
    /\ ctl' = [NoController EXCEPT !.own = store]
    /\ late' = IF late = "outlasted" THEN "overtaken" ELSE late
    /\ UNCHANGED <<configs, old, store, mining, torn, crashes>>

----------------------------------------------------------------------------
(* A controller's step, from c to next *)

\* A stop takes a dwell of minutes: what changed at set-up is written by then.
Settled == entryDisk.mac = entry.mac

\* A stop, a resume and its retries are saved before they are sent, a reassert
\* is not; a resume is over once the miner is seen to mine.
Decides(c, next) ==
    \/ c.own = "no" /\ mining /\ Settled /\ next = [own |-> "stopped", step |-> "save_off"]
    \/ c.own = "stopped" /\ mining /\ next = [c EXCEPT !.step = "off"]
    \/ c.own = "stopped" /\ next = [own |-> "resuming", step |-> "save_on"]
    \/ c.own = "resuming" /\ ~mining /\ next = [c EXCEPT !.step = "save_on"]
    \/ c.own = "resuming" /\ mining /\ next = [own |-> "no", step |-> "save"]
    \/ next = [c EXCEPT !.step = "none"]

After == [save_off |-> "off", save_on |-> "on", off |-> "save", on |-> "save", save |-> "none"]

Ended(c) == c.step = "none"

\* _save: a write that fails is logged, and the step goes on.
Saves(c) == store' = c.own \/ (SaveFails /\ UNCHANGED store)

\* A command may be lost.
Advances(c, next) ==
    \/ c.step = "forecast" /\ Decides(c, next) /\ UNCHANGED <<store, mining>>
    \/ /\ c.step # "forecast"
       /\ next = [c EXCEPT !.step = After[@]]
       /\ IF c.step \in {"off", "on"} THEN UNCHANGED store ELSE Saves(c)
       /\ \/ UNCHANGED mining
          \/ c.step \in {"off", "on"} /\ mining' = (c.step = "on")

\* A poll, or the timer.
StepBegins ==
    /\ phase = "loaded" /\ Ended(ctl)
    /\ ctl' = [ctl EXCEPT !.step = "forecast"]
    /\ UNCHANGED <<phase, configs, old, store, mining, history>>

StepAdvances ==
    /\ phase \in {"loaded", "leave"} /\ ~Ended(ctl)
    /\ \E next \in Controllers : Advances(ctl, next) /\ ctl' = next
    /\ UNCHANGED <<phase, configs, old, history>>

OldStepAdvances ==
    /\ ~Ended(old)
    /\ \E next \in Controllers :
          /\ Advances(old, next)
          /\ old' = IF Ended(next) THEN NoController ELSE next
          /\ late' = IF Ended(next) /\ late = "outlasted" THEN "no" ELSE late
    /\ UNCHANGED <<phase, configs, ctl, torn, crashes>>

----------------------------------------------------------------------------
(* Unloading *)

\* An option is changed: update_listener has the entry reloaded.  The bound:
\* one former controller at a time.
OptionsChanged ==
    /\ phase = "loaded" /\ old = NoController
    /\ phase' = "leave"
    /\ UNCHANGED <<configs, controllers, history>>

\* Faulty Unloads: a step under way is not waited for.
UnloadsFaulty ==
    /\ phase = "leave" /\ phase' = "refresh"
    /\ Saves(ctl)
    /\ ctl' = NoController /\ old' = IF Ended(ctl) THEN NoController ELSE ctl
    /\ UNCHANGED <<configs, mining, history>>

\* async_unload once the step is over: a last save.
Unloads ==
    /\ phase = "leave" /\ Ended(ctl)
    /\ phase' = "refresh"
    /\ Saves(ctl)
    /\ ctl' = NoController
    /\ UNCHANGED <<configs, old, mining, history>>

\* async_unload after 20 s: "Control step still running at unload".
GivesUp ==
    /\ phase = "leave" /\ ~Ended(ctl)
    /\ phase' = "refresh"
    /\ Saves(ctl)
    /\ ctl' = NoController /\ old' = ctl
    /\ late' = IF late = "no" THEN "outlasted" ELSE late
    /\ UNCHANGED <<configs, mining, torn, crashes>>

----------------------------------------------------------------------------
(* Home Assistant *)

Boots ==
    /\ phase = "down" /\ phase' = "start"
    /\ entry' = entryDisk /\ registry' = registryDisk
    /\ UNCHANGED <<entryDisk, registryDisk, controllers, history>>

Crash ==
    /\ phase # "down" /\ phase' = "down"
    /\ crashes < MaxCrashes /\ crashes' = crashes + 1
    /\ ctl' = NoController /\ old' = NoController
    /\ torn' = (torn \/ (entryDisk.version = 5 /\ registryDisk # {}))
    /\ late' = IF late = "outlasted" THEN "no" ELSE late
    /\ UNCHANGED <<configs, store, mining>>

\* An entry as the release of that version made it, which did not know the MAC.
Entry(version) ==
    [version |-> version, unit |-> IF version = 1 THEN "C" ELSE "F",
     options |-> Carries(version), mac |-> FALSE]

Init ==
    /\ phase = "start"
    /\ \E v \in Versions :
          /\ entry = Entry(v) /\ entryDisk = entry
          /\ registry = Carries(v) /\ registryDisk = registry
    /\ ctl = NoController /\ old = NoController /\ store = "no" /\ mining = TRUE
    /\ late = "no" /\ torn = FALSE /\ crashes = 0

Next ==
    \/ Boots \/ Migrate \/ EntryWritten \/ RegistryWritten
    \/ Answered \/ Unanswered \/ Retries \/ Loads
    \/ StepBegins \/ StepAdvances \/ OldStepAdvances
    \/ OptionsChanged \/ Unloads \/ GivesUp
    \/ Crash

\* Home Assistant is started again, a refresh ends one way or the other, a
\* failed set-up is retried, and an unload waits 20 s at the most.  That the
\* miner ever answers is not assumed.
Fairness ==
    /\ WF_vars(Boots) /\ WF_vars(Migrate) /\ WF_vars(Answered \/ Unanswered)
    /\ WF_vars(Retries) /\ WF_vars(Loads) /\ WF_vars(Unloads \/ GivesUp)

Spec == Init /\ [][Next]_vars /\ Fairness

----------------------------------------------------------------------------
(* Properties *)

MigratedTo(e) ==
    /\ e.unit = IF e.version = 1 THEN "C" ELSE "F"
    /\ e.options = Carries(e.version)

\* Whatever is not yet written when Home Assistant dies, an entry is converted
\* to Fahrenheit once and loses its retired options with the version that
\* retires them, in memory and on disk, after any crash.  Its retired entities
\* go too, but for one crash: after it the new version is on disk, the registry
\* without them is not, and no later migration removes them (torn).
MigratedOnce ==
    /\ TypeOK
    /\ MigratedTo(entry) /\ MigratedTo(entryDisk)
    /\ phase \notin {"down", "start"} /\ ~torn => registry = {}

\* "Let an in-flight miner command finish so the new controller instance doesn't
\* load a Store this one is about to overwrite": a miner the controller has
\* stopped has an owner in the Store, across reloads and crashes, also where a
\* step goes on behind the unload that has waited 20 s for it, as long as it is
\* over before the next controller is set up.  A step that is not decides, saves
\* and commands behind that controller's back, and may leave a stop nobody owns.
StopsKeepOwner == ~mining /\ late # "overtaken" => store # "no"

\* A stop in the Store gets a controller that can resume it, though the miner
\* that is stopped never answers again ("degraded mode with the cached MAC").
StopGetsController == store # "no" ~> (phase = "loaded" \/ store = "no")
=============================================================================
