# Whatsminer integration: specifications

TLA+ specifications of the control core of the Home Assistant integration for
MicroBT Whatsminers used as hydronic heaters (`custom_components/whatsminer`):
which decisions power the miner off and on again, at which power it runs in
between, in which order state is saved and commands go out, how a command or a
firmware bundle reaches the miner, how the config entry is migrated, loaded and
unloaded, and what survives a lost command, a failed poll, a crash or a user's
call at the wrong moment.

Every definition was translated from the Python sources; `PROJECT.json` ("map")
names the lines each one stands for. Paths below without a directory are
relative to `src/custom_components/whatsminer/`; `src/README.md` is the
repository's own manual.

## 1. The system

One config entry is one miner. Home Assistant is a single asyncio event loop:
code runs without interruption between two awaits, so the interleavings that
matter are those at awaits. What runs concurrently is the coordinator's poll,
the controller's step, its fallback timer, the user's calls and the delayed
save of the Store; beside them runs the miner, which boots, reboots, derates
and is stopped from its own web UI.

| Part | State it keeps | Operations | What is hard, and what correct means |
|---|---|---|---|
| Demand shutoff, `demand_shutoff.py` | `ShutoffState`: state, ownership, dwell clock, resume and reassert clocks, counters. Persisted. | `decide()` once per step; `user_mining_on/off`, `lockout_reset`, `mark_stop_failed`, `from_dict` | Timers, debounces and ownership over long sequences. A stop is taken only on a quiet dwell, never when heat is wanted; a stop we made is owned until the miner hashes again; somebody else's start is told apart from our own slow stop. |
| Controller step, `controller.py` 796–1234 | lockout latch, step lock, last user-off, last reassert | listener/timer → `_control_step` → `_trip_lockout`, `_apply_decision`, `_reassert_lockout` | Awaits in the middle (forecast, save, command). Ownership and latch are on disk before the command; a crash orphans no stop; the latch stops the miner in the end and nothing starts it under the latch. |
| User calls, `switch.py`, `button.py`, `number.py` | none | Mining Control on/off, Reset Supply Lockout, Reset Fault Memory, PID Target | They wait for the step lock and send after it. The user's off stays; an on is refused under the latch. |
| Fault memory, `controller.py` 1541–1910 | crash floor, fault power, proven maximum with their times (persisted); hold in progress, derate candidate, pending regression | `_note_error_codes`, `_note_derate`, `_note_uptime_and_crashes`, `_settle_hold`, `_bounds` | Evidence arrives through polls that may fail, be garbled, or come after the fact. Bounds stay ordered and inside Power Min..Power Max; evidence is attributed to the run it belongs to. |
| Power regulation, `controller.py` 1258–1330, 1927–2510 | limit and operating power in force, target, tuned epoch and its write budget, v3 back-off, holds | `_gate_write`, `_command_power`, `_set_power_limit`, `_send_v3_power`, `_regulation_tick` | Every limit write restarts the miner. One ordinary write per tuned epoch, none while tuning; a safety clamp always goes out. |
| Heating loop, `controller.py` 1214–1257, 1921–2026, 2513–2933, `pid_controller.py` 8–130 | the probe's history, the PID's integral and last output, soft start, fallback flag, boot hold, last command and its throttle | `_run_pid_step`, `_run_fallback_step`, `_cap_clamp`, `_note_mining_edge`, `PID.calc` | What power the house wants, one tick at a time, over a slow loop. No raise while the supply is headed past its target; a cap always wins; the integral does not run away while something else holds the power; nothing pins the loop at the low rail for good. |
| Demand inputs, `controller.py` 1354–1537, `demand_shutoff.py` 85–186 | forecast cache with its age, outdoor samples, freeze flag (the last two persisted) | `classify_thermostat`, `summarize`, the forecast, the freeze guard, the outdoor mean | A sensor or the weather service that fails for hours. A freeze is held until a reading clears it; a clear word rests on a recent answer; the mean on a whole window. |
| Miner API, `coordinator.py` 100–560 | v2 token, `_v3_available`, `_stopped_via_v3`, firmware date | `power_on`, `power_off`, `set_power_limit`, `note_status` | Two commands may be under way; replies are lost; tokens expire; v2 cannot undo a v3 stop. |
| API v3 client, `api_v3.py` 203–462 | none between calls; each request is a connection of its own | `set_miner_service`, `set_miner_power`, `update_firmware`, `open_write_api` | A closed write API answers −4: unlock with one password or the other and ask again. What is asked is carried out at most once, and a code of the miner means it was not. |
| Coordinator, `coordinator.py` 560–979 | last good data, `last_update_success` | `_async_update_data` | data keeps the last good poll: readers must look at freshness. |
| Entry, `__init__.py` | schema version and options, retired entities (written late, each file by itself); runtime objects; the firmware lock per entry | `async_migrate_entry`, set-up (degraded when the miner does not answer), unload, `update_firmware` | An interrupted migration is repeated from what was written; the unload waits 20 s for a step and no longer; one upload at a time across reloads. |
| Braiins, `braiins.py`; sensors; config flow; firmware image | – | read-only presentation, forms, a parser | Do not influence control. |

How they interact: the coordinator's poll calls the controller's listener,
which notes the evidence synchronously and starts a step unless one runs; the
step calls `decide()`, saves the Store and sends commands through the API
object; the API object remembers how the miner was stopped and is corrected by
the polls; the user's calls change the same `ShutoffState` and latch under the
same lock, and send their commands after leaving it. The firmware service shares
nothing but the miner with all of these. A changed option unloads the entry and
sets it up again, with a new controller on the same Store.

## 2. Modules

| Module | Models | Notes |
|---|---|---|
| `DemandShutoff` | `demand_shutoff.py`: one action per branch of `decide()`, the hooks called from outside, `from_dict` and the set-up's discard of a simulated stop | timestamps are ages, see below |
| `DemandShutoffHistory` | the same with an observer's notes of what polls showed | properties about the past |
| `MCDemandShutoff` | instance: the poll readings | |
| `HeatController` | `DemandShutoff` inside the control step, with every await, the latch, the Store, user calls, crash and reload | composes `DemandShutoff` |
| `StopContract` | what the controller promises of stops, starts and their owner | abstract specification; `HeatController` implements it (`KeepsContract`) |
| `HeatControllerHistory` | `HeatController` with a record of whether the controller has taken a stop of the user's for its own since, and on which of three grounds | the property about the user's off |
| `HeatControllerProofs` | theorems about `DemandShutoff`, `DemandShutoffHistory`, `HeatController` and `HeatControllerHistory` | section 4 on this and every module of proofs |
| `HeatControllerLive` | `HeatController` with the end of disturbances and fairness | liveness |
| `MCHeatControllerHistory`, `MCHeatControllerLive` | instances | |
| `MinerApi`, `MCMinerApi` | `_set_mining` over v3 and v2, tokens, `note_status` | |
| `MinerApiProofs` | theorems about `MinerApi` | |
| `FaultMemory` | the bookkeeping of a poll (`_note_error_codes` … `_note_reported_limit` and the mining edges), `_bounds`, what a command does to it | one poll is one action: the code runs it without an await |
| `FaultMemoryProofs` | theorems about `FaultMemory` | |
| `PowerRegulation`, `MCPowerRegulation` | the delivery of a power: `_regulation_tick`, `_command_power`, `_set_power_limit`, `_send_v3_power`, the write gate and its epochs, what the polls do to them | the power `HeatLoop` asks for, and the bounds of `FaultMemory`, are inputs |
| `PowerRegulationProofs` | theorems about `PowerRegulation` | |
| `HeatLoop` | the choice of a power: `_run_pid_step` with `PID.calc`, the soft start, prediction, settled hold, anti-windup, caps, fallback, throttle, boot hold | a power that is asked for goes out, as a limit or an operating power: delivery is `PowerRegulation`'s |
| `HeatLoopProofs` | theorems about `HeatLoop` | |
| `DemandInputs`, `MCDemandInputs` | thermostats, forecast cache, freeze guard, outdoor samples and mean | gives `DemandShutoff` its inputs; the thermostats' summary is checked against a definition of its own over all reports |
| `DemandInputsProofs` | theorems about `DemandInputs` | |
| `RemoteWrite` | what a caller of the v3 client relies on | abstract specification |
| `V3Client` | `api_v3.py`: a write, the unlock, the upload, one request at a time, with every way a request or its reply is lost | implements `RemoteWrite` (`CarriedAtMostOnce`) |
| `V3ClientProofs` | that it does, for any number of callers; the firmware service's lock | |
| `FirmwareService` | `update_firmware` with the entry's lock over `V3Client`, beside the writes of the step | composes `V3Client` |
| `ConfigEntry` | migration, set-up, unload, crash, and the hand-over from a controller to the next on one Store | a step is reduced to its awaits and what it stores |
| `ConfigEntryProofs` | theorems about `ConfigEntry` | |

**Correspondence.** `DemandShutoff.shutoff` is `ShutoffState`; `action` is
`Decision.action`. A timestamp of the code is kept as its age in ticks (`None`
= −1) and stops growing past the last threshold it is compared with, so the
models need no clock and no time horizon. `HeatController.pc` names the await
a step has reached, `calls` the await of each user call, `view` the local
variables the step read before it, `disk` the Store, `data` the coordinator's
last poll, `miner` the device. In `MinerApi`, `commands[c]` is one running call
of `_set_mining` and `api` the object's attributes. In `FaultMemory`, `ctl` holds
the controller's attributes, `miner` the device as btminer reports it, and
`past` what an observer knows: how long ago fault evidence came, how long the
miner really hashed, and which restarts happened since the uptime last fell. In
`PowerRegulation`, `step` is the step that holds the lock, with the command it
awaits and what follows it (`then`); `miner.writes` counts the ordinary writes
that reached the miner in its tuned epoch. In `HeatLoop` a tick is the window the
slope is measured over (`SLOPE_WINDOW_S`, 300 s): the default horizon of the
projection and the boot hold are two of them, the intervals between an increase
and between a decrease one and two, whole degrees and watts a few units each;
`tick` notes what the last step has done and under what. In `DemandInputs` a
forecast is the sequence of what it says of the next units of time and ages with
it. In `V3Client`, `calls[c].at` is the request a call waits for and `reply` what
came; a request that was given up and may still arrive stays in `strays`. In
`ConfigEntry`, `entry` and `registry` are in memory, `entryDisk` and
`registryDisk` in `.storage`, and `ctl` and `old` the controllers of this load
and of an earlier one whose step is not over.

Operators whose name ends in `Faulty` are single-fault variants of the operator
that follows (a dropped guard, a missing reset); they are used by nothing in the
specifications and serve to show that each property can fail.

## 3. Runs

| Run | Question | Bounds and why they suffice |
|---|---|---|
| `ShutoffHistory` | Does each power_off, first stop, reassert, adoption and given-up stop agree with what the polls showed? | all three modes, switched at any restart; one warm and two supply readings; two reasserts and two confirming polls, the smallest numbers at which spacing and debounce differ from once; dwells of 1–2 ticks, so each can be interrupted half way, the two dwells together one tick shorter than MinOn, as by default they are shorter (40 of 60 minutes), or they alone would keep MinOn and the forgotten resume (section 5, 32) would not show |
| `ControllerFaults` | Crash and reload at any await, commands lost or raising after they landed, a hashrate that lingers, freezing, Mining Control off and the reset at any await: is the latch lost, is a power_on sent under it, does the user's off stay? | durations of 0 or 1 tick: order, not length, matters here. `AdoptReclaim = 1`, so an adoption is remembered for a tick and then not. One mode: the calls, the lingering hashrate and the freeze reach each of the three grounds on which the user's off may be undone, and what other modes do to latch and user's off is proved |
| `ControllerCalls` | Mining Control pressed at any await, with the same losses, a reload with another mode and a miner that starts by itself: is a stop orphaned, is `StopContract` kept by every step? | both presses may overlap; modes off and active; no lingering hashrate (section 5, 21); the reset is among the calls of `ControllerFaults`. Both runs are of `HeatControllerHistory`, whose record restricts no step: between them every action of `HeatController` is taken |
| `ControllerResumes` | Does a stopped miner return to a house that keeps calling, and does the latch stop a miner that runs? | arbitrary history, crashes and lockouts included, before the moment disturbances end |
| `MinerCommands` | Two callers over v3 and v2 with losses, refused tokens, reboots, reloads | two callers (the step, and the switch after it left the lock) are all there are |
| `FaultMemory` | Which power bounds, proven holds and crashes the polls make of commands, faults, restarts, derates, garbled summaries, resets and reloads | two powers; three such events (`MaxEvents`), in any order and at any time: a fault, the hold it ends and the command or restart that closes it are three. A stable run is two polls, the shortest with an inside; a boot outlasts the gap between two good polls (`MaxSilence`), as it does at 30 s polls |
| `PowerRegulation` | What reaches the miner when polls, failures, fall-backs, restarts, retuning, moving bounds and reloads fall between the gate, the command and its reply | three powers, so that one lies between Power Min and Power Max; two such events (`MaxEvents`), the fewest that exhaust the two transport failures (`Fails`); durations of one tick. A command that was carried out does not raise (`Losses`), a tuning outlasts a poll |
| `HeatLoop` | Does the loop raise into a supply that is headed past its target, command Power Min or the crash floor under a cap, keep its integral while it is held, leave the low rail? | four readings of the probe around one target, the cap out of their reach (the chip's cap, and a probe that fails, come by themselves); four powers and two crash floors, so that the span, half the span and a step differ; the intervals in slope windows as by default |
| `DemandInputs` | Is a freeze held until it is over, is "clear" recent, does the mean span its hours, do the thermostats' words mean what they say? | forecasts up to two units ahead with an empty one; a cache that serves for one unit and lasts two; a window of two sampling intervals on each side; two thermostats over every report each can give |
| `FirmwareUpdates` | Is a firmware or power write carried out twice, is the lock held during an upload, do the calls end? | one upload beside one write of the step, both passwords of the client (`Candidates = 2`); `ClientFound = TRUE`, for as the program is the service never gets to its lock (section 5, 8) |
| `EntryLifecycle` | Is an entry migrated once and to the end, and does a stop keep its owner over crash, reload and a step that outlasts the wait of its unload, up to the next controller's set-up? | every schema version; two deaths of Home Assistant (`MaxCrashes`): one in the migration and one in what repeats it; writes of the Store succeed (`SaveFails = FALSE`; section 5, 5). A step that goes on behind the next controller is in the run, and excepted by the property (36) |
| `ClampHeldBack` | violation, see findings | |

The type invariant of a module is a conjunct of an invariant of its run
where it has no line of its own: an invariant needs typed states to mean what it
says.

**Fairness.** `HeatControllerLive`: weak fairness of a step or call under way:
every await has a timeout in the code, so it ends. Weak fairness of the miner
booting and of a hashrate draining after a power_off. Strong fairness of time,
of a poll that the miner answers, and of a command that is sent again and again
being carried out once: a miner that never answers again cannot be controlled
by anybody. After `settled` Home Assistant does not restart and the user does
not call; without that no liveness could hold.

`HeatLoop`: weak fairness of time and of the poll, which the coordinator and the
fallback timer both start. `LeavesLowRail` promises a rise only to a loop that
is and stays short of its target with nothing to keep its power from it, and to
which no user, stop or reload comes in between; the antecedent is in the module.

`FirmwareService`: weak fairness of each caller's next step and of the timeout of
its request: every await of the client has one, but the `drain()` of the upload
(`api_v3.py:395`), and `CallsEnd` excepts a call that waits there.

`ConfigEntry`: weak fairness of Home Assistant's own steps (booting, migrating,
the refresh with or without an answer, its retry, loading, and the end of an
unload, which its 20 s bring about). A miner that never answers again is allowed:
the degraded set-up gives the entry a controller all the same.

## 4. Proofs

Every theorem holds for every value of the constants that satisfies the
module's assumption. Hypotheses beyond that are in the statement, and below with
the reason for each. Every inductive invariant was checked by TLC as an invariant
of the run's instance, and of variants of it, before it was proved.

**`HeatControllerProofs`, of the decision.** For any thresholds, dwells, counts and
sets of poll readings. Of `DemandShutoff`: `TypeCorrect`; `Ownership` (`OwnershipInv`);
`ReassertSpacing` (`ReassertsSpaced`); `AdoptionIsLate`
(`AdoptOnlyAfterReasserts`). `TypeOK` is inductive, with one lemma per group of
branches. `OwnershipInv` is inductive relative to it: each branch leaves a state in
which ownership, simulation and dwell agree. `ReassertsSpaced` is inductive
relative to both; it needs `Consistent`, because only a stop that is owned counts
reasserts, and a horizon of `since` (`SinceHorizon`) past the age of the last
reassert, or the cut-off of ages would lose the inequality.

Of `DemandShutoffHistory`, where an observer notes what polls showed (a
hypothesis `"…" \in Watched` says that it does watch):
`NoStopAgainstHeat` and `PassiveModesRestore` follow from the branch each command
comes from; `OwnershipKept` from what each branch makes of `owned`; `DwellIsQuiet`
from `CalledInv`, that the dwell clock never runs longer than nobody has called;
`MinOnIsHonoured` from `StartedInv`, that `last_resume` is never older than the
observer's note of the start and, where there is none, that MinOn has passed or the
resume was forgotten with a simulated stop. What then separates the next stop from
the start is the dwell that earned the simulated stop and the one that earns this
(`Untold`): the property names that exception and promises no more in it (section
5, 32). It holds for any dwells and any MinOn.

**`HeatControllerProofs`, of the controller.** For any environment, user and outcome of commands.
`ControllerInv` adds to the types who holds the step lock, what a step knows at
each of its awaits, and that memory and Store each hold a consistent ownership;
decide() enters by a lemma of what any of its decisions leaves behind. From it `ControllerTypes` and
`OwnershipSurvives`. `StoreInv` says where memory and Store may differ: only where a
save is still to come; it needs `~SaveFails` (section 5, 5), and with it
`NothingStartsUnderLatch` and `LatchSurvives`. `OrphanInv` says what is true of a
miner the shutoff has stopped, at every await of the step and of a call; it needs
further `~Linger` (21), `~SlowPolls` (a step would decide on a poll from before
the stop, and confirm a resume by it) and `StopRetry > 0` (the retry of a stop
would be sent in the tick of the stop). From it `StopsAreOwned`. These are the
values of `ControllerCalls`, where the property is checked.

`UserOffHolds` (`UserOffStays`) is of `HeatControllerHistory` and needs `~SaveFails`
alone: any thresholds, modes, calls and environment, the freeze guard, old polls,
the reset, the lingering hashrate and a remembered adoption included. The code does
undo a user's off in some of these cases (section 5, 6, 20 and 33), so the property
is not that it never does. `retaken` is set where a decision, while the user's off
is in force, turns a stop nobody owns into one the controller owns, on one of three
grounds that the module names:
it ends an adoption younger than `AdoptReclaim`; a fresh poll shows the miner
hashing and the user's off is no longer recent; the freeze guard clears the latch.
The theorem is that there is no fourth. `OffInv`: from the moment the call has
disowned the stop until the user or the miner itself starts it, and while it is not
retaken, nobody owns a stop in memory or in the Store, and the step is at no save
or command of the shutoff's. It rests on `GraceInv`, that what a step read of the
user's off before its awaits is still so when it decides, and on what each of the
branches of decide() makes of a stop that is not owned.

`ControllerKeepsContract` (`KeepsContract`) is the refinement. `StopContract` knows
neither awaits nor thermostats: only whether the miner is on and by whose stop it
is off, the ownership and the latch in memory and in the Store, the command that
is under way, and the user's commands that have still to go out. The mapping
reads the command off `pc` and the user's off `calls`. `ContractInv` joins the
invariants above with `CommandInv` (a step at a power_on owns the stop, one at the
lockout's repeated power_off has the latch), and a lemma for each group of
actions shows the step of the contract it takes: `ContractDecisions`,
`ContractSaves`, `ContractCommands`, `ContractCalls`, `ContractRestarts`; what the
contract does not see is a stutter (`ContractOthers`). It holds for every set of
calls, the reset included, under the hypotheses of `StopsAreOwned`, for the
contract has the orphaned stop in it. `ContractSuffices` says what the contract is
good for: any implementation of it orphans no stop, in memory or on disk, and is
at no power_on under a latch.

**`FaultMemoryProofs`.** For any powers, margins, durations and any number of
events: `PowerExists` (`BoundsOrdered`), `FaultLowers` (`NoEarlyWitness`),
`CreditsCleanRuns` (`CreditIsClean`). `FaultInv` says in addition to the types that
an armed fault denies: a hold that is not tainted, and a proof younger than a
run, are no older than it; and that an untainted hold is no older than the clean
run the observer counts. Every operator that takes the attributes to what they
become is shown, in a lemma of its own, either to bring no evidence (`Keeps`) or
to bring it (`Faults`); a poll is one `Faults` followed by `Keeps`.

Two theorems compare the controller with what the miner really did.
`CreditsWereHeld` (`ProvenWasHeld`) rests on `HeldInv`: a hold is no longer than the
miner was seen hashing, but for the silence since it broke off; it needs
`BootTime > MaxSilence`, or a whole outage fits between two good polls and the
second finds the miner hashing as before (a boot takes minutes, and polls are 30 s
apart by default). `CrashesAreTheirs` (`CrashNotOurs`) rests on `RestartInv`: while no regression
is pending the uptime last seen is no more than the miner's unless it restarted,
and a restart by a command of ours is as recent as the last good poll; and a
pending regression that is not taken for ours is of a miner that restarted by
itself, or of a garbled summary. It needs `BootHold > MaxSilence`, that the mark
of a command is still there at the poll which sees its restart, and `~Losses`
(15). All are values of `FaultMemory.cfg`.

**`PowerRegulationProofs`.** For any powers, margins, bounds and number of events.
`RegulationInductive`: types, what a poll of a tuned miner shows, and which
commands are clamps. `StaysInBounds` (`CommandsInBounds`) is of every command, the
first of a step and those that follow a reply, a refusal or a restart: it leaves
inside the bounds of its moment, and over v3 under the limit in force. Only the
limit that replaces a refused v3 write is held to the bounds that write left under
(`step.under`), for the code does not look again (section 5, 34); `StepInv` keeps
the power under way within `step.under`. `WritesOnce` (`OneWritePerEpoch`) rests on `WriteInv`: an ordinary command
is under way only while the epoch's write is unspent, and a write that reached
the miner is either that command's or noted as spent. `RunsAsBelieved`
(`NeverAboveBelief`) rests on `BeliefInv`: but for a limit write that has landed and
is not yet answered, the limit in force is the miner's. Both have the hypothesis
`~Losses`, that a command that raises was not carried out; without it both are
false (15).

**`HeatLoopProofs`.** For any probe readings, targets, powers, floors, gains and
durations that satisfy `HeatLoopAssumption`. `TypeOK` is inductive; the tick's record
is followed operator by operator (prediction, PID, nudge, integral band, soft
start, settled hold, clamps, throttle, fallback), with what each keeps of it as a
lemma. `NoneRaisesIntoHeat` (`NoRaiseIntoHeat`) is shown of the record that each of
the two control steps leaves, whatever it began with: every path to
`asks = "more"` is traced back to the guards it passed. `CapAlwaysWins` (`CapWins`)
follows a capped tick to the power that is commanded: the cap passes every hold of
the loop (`CapFires`), what goes out is Power Min or the crash floor it is raised
to, and what is not sent differs from the power in force by less than a step,
because the throttle's step is never more than the configured one (`StepFacts`).
`HeldLoopsDoNotWindUp` (`HeldLoopKeepsIntegral`) follows the integral from the PID's
own step through the band to the restore, which comes last.

**`DemandInputsProofs`.** For any temperatures, forecasts, cache times, windows and
thermostats: `GuardHolds` (`FreezeHolds`), `ClearOnRecentWord` (`ClearIsRecent`),
`MeanSpansItsHours` (`MeanSpansHours`), `IdleWhenAllSay` (`IdleIsSaid`). `InputsInv`
adds that the forecast kept is at least as old as the weather service's failure to
send one, which with the exception for this very poll's empty answer (section 5,
29) makes `ClearIsRecent` inductive, and that samples within the window
are an interval apart, in memory and in the Store, which makes `MeanSpansHours`
so: of k numbers that lie d apart one is d·(k−1) or more (`ApartSpans`, by dividing
them by d into k different ones).

**`MinerApiProofs`.** For any number of callers and both firmwares: `CarriesOnce`
(`CarriedOnce`), `MissForgotten` (`NotPinned`), `StartsTruly` (`NoFalseStart`).
`ApiInv` says at which request a call can be once it was carried out and with
which reply; how old a missed probe is; and what a poll's view of the miner is
worth while no command is under way, which is what an undisturbed start begins
with.

**`ConfigEntryProofs`.** For any number of crashes: `MigratesOnce` (`MigratedOnce`) and,
with `~SaveFails`, `StopIsOwned` (`StopsKeepOwner`). `MigrationInv` says what entry
and registry on disk may lack of each other in every phase, up to the crash that
leaves the retired entities behind (`torn`; section 5, 35). `OwnerInv` says that one
controller at a time writes the Store, the loaded one or a former one whose step
outlasted its unload, and what the Store holds at every await of that step; it
holds until a step goes on behind the next controller (`late = "overtaken"`; 36).

**`V3ClientProofs`.** For any sets of writers and updaters and one or two
passwords: `V3Inductive`; `ImplementsRemoteWrite`, that `V3Client` implements
`RemoteWrite` (`CarriedAtMostOnce`); `ServiceIsClient`, that `FirmwareService` does too;
`LockIsHeld` (`UploadHoldsLock`). `V3Inv` is `V3TypeOK` and `Sound(c)` of each caller:
where a call can be when what it asks for has been carried out. Without it the
refinement is not inductive: that a write is sent again only when the miner has
refused it needs the reply to tell the truth about `carried`. Every handler of a
reply either ends the call (`Ending`), goes on with another request (`GoingOn`) or
is the miner's step that carries the request out (`CarryingOut`).

Only model-checked: liveness (`StoppedMinerReturns`, `LatchStopsMiner`,
`LeavesLowRail`, `CallsEnd`, `StopGetsController`), which is outside the prover's
reach, as are induction over data and recursive operators (none are used). Every
other property of a passing run is a theorem.

## 5. Findings and disagreements

One run ends in a violation: the code does not do what its comment says.

* `ClampHeldBack`: a safety cap's clamp for a tuned miner passes the gate in
  `_command_power` and is stopped by the gate in `_send_v3_power`, which knows of
  no exemption, once the epoch's one write is spent (`controller.py:2287`,
  against 2056-2058). The miner runs on above Power Min under an engaged cap
  until it tunes again.

Disagreements met while modelling, which no run states as a property:

1. The dwell clock is kept when the trigger changes (`demand_shutoff.py:480`);
   `src/README.md:247` and `:251` describe two separate dwells.
2. A reclaim of an adopted start takes ownership in observe mode too
   (`demand_shutoff.py:432`, against `src/README.md:378`).
3. An unknown freeze status blocks new stops only; retries of a stop and
   reasserts go on (`demand_shutoff.py:559`, `:577`, against its docstring, 22-25).
4. A lockout reset that waits for the lock while the freeze guard unlatches
   takes the ownership of that restart away (`controller.py:748`,
   `demand_shutoff.py:403`).
5. `_save` swallows a failed write, and the power_off goes out (`controller.py:695`,
   `:1031`): with `SaveFails = TRUE` a crash then orphans the stop, in
   `HeatController` and in `ConfigEntry` (`StopsKeepOwner` fails).
6. The user's off is remembered for three minutes and not saved: after a restart with
   a lingering hashrate the shutoff stops the miner "again", owns the stop, and
   later undoes it. It is one of the grounds `UserOffStays` names (`SeenToHash`), and
   `ControllerFaults` reaches it.
7. A v3 stop that the API object forgot is answered by a v2 power_on
   (`coordinator.py:473`), until a poll has corrected it; with two callers a
   reply may be undecryptable after the other's token renewal, and a probe that
   is under way lets the second command skip v3.
8. The firmware service looks for `coordinator.v3`, which does not exist
   (`__init__.py:91`): the client is `coordinator.api.v3` (`coordinator.py:133`). Every
   call ends there (`ClientFound = FALSE`), against `src/README.md:78-97`;
   `FirmwareUpdates` checks what the handler would do (`ClientFound = TRUE`).
9. The tuning-timeout write (`controller.py:2426`) cannot pass the gate
   (`src/README.md:109`).
10. `_command_power` raises a cap's Power Min to the crash floor (2225; against
   `_cap_clamp`, 1248, and `src/README.md:291`). While such a cap lasts, the
   reference (the floor) differs from Power Min at every tick, so a booting
   miner is sent the same limit each tick (2276), and each one restarts it. What
   `CapWins` promises is therefore Power Min or the floor, of the power commanded.
11. A regression settles the hold (`controller.py:1824`) up to the poll that saw
   it, so a hold is credited across an outage in which the miner restarted; and
   with an unchanged power it does not begin a new segment. `ProvenWasHeld`
   therefore holds up to the time since the last good poll (`past.silent`).
12. A crash floor that expired is taken up again by the next crash (`max(old or 0, …)`,
   1615, against `src/README.md:52`); a hold witnessed after a fault but below
   the old proven maximum is never recorded (1658).
13. A restart after `set.miner.power` is not marked (comment, 188-189), and a
   garbled summary followed by a restart of ours counts as a crash; the latter
   is the exception `CrashNotOurs` names.
14. `async_turn_on` looks at the lockout latch, then waits for the step lock, and
   does not look again (`switch.py:113`): when the step that holds the lock trips
   the lockout, the power_on goes out under the latch (`src/README.md:338`).
15. A command that raised although it was carried out is not marked as ours
   (2184), and its restart raises the crash floor: with `Losses = TRUE` in
   `FaultMemory.cfg`, `CrashNotOurs` fails. For the same reason the write it made
   is not counted against the epoch, and a limit equal to the target is not
   adopted (2110): with `Losses = TRUE`, `OneWritePerEpoch` and
   `NeverAboveBelief` of `PowerRegulation` fail.
16. The write budget is in memory only, and forgotten by a reload (so
   `OneWritePerEpoch` counts from there), by a hashrate blip and by a garbled
   summary, neither of which begins an epoch (862, 1826, 2092).
17. After a start edge the step believes the power that was the target
   (`_seed_bumpless_transfer`, 1923) while the miner runs at its limit: a cap that
   engages then finds nothing to clamp, and `_regulation_tick` re-commands nothing
   while a cap is engaged (2447).
18. A target at the limit that the gate holds is noted as established with the
   limit in force (2483-2485, "it runs at the limit, which is what we want"),
   though the miner runs at the lower power it was last sent.
19. A power re-commanded in a new tuned epoch without a restart leaves the
   collapse watch of the write before it running (2292, 2349): a collapse is then
   noted as a crash at the power of that earlier write (2398).
20. A start that was just adopted and then stopped by the user is taken for the
   shutoff's own slow stop and started again: `user_mining_off` does not forget
   `adopted_at` (`demand_shutoff.py:299`, read at 426), against its docstring, "the
   user's stop is never auto-resumed", and `src/README.md:337`. It is one of the
   grounds `UserOffStays` names (`EndsAdoption`), and `ControllerFaults` reaches it.
21. The one-minute hashrate left over from before a stop confirms a resume whose
   power_on was lost (`demand_shutoff.py:643`). With `Linger = TRUE` in
   `ControllerCalls.cfg`, `NoOrphanedStop` fails; what the lingering hashrate does to
   the latch and to the user's off is in `ControllerFaults`.
22. The upload's `drain()` has no timeout (`api_v3.py:395`): a miner that stops
   reading holds the call, and the entry's lock, for good.
23. A reply that is JSON but not an object raises `AttributeError` (`api_v3.py:248`,
   `:377`), which the service does not expect: no event and no notification
   (`__init__.py:127`, against `src/README.md:91`).
24. "The miner was not updated" (`__init__.py:133`) is said of every failure, the
   lost final reply after a whole upload included. A final reply of −4 uploads
   the bundle again (`api_v3.py:440`). The cap is 64 MB (`api_v3.py:81`), not "~50 MB"
   (`src/README.md:89`).
25. Where Kp times the error alone spans the rails (36 °F at the defaults), the
   integral that the nudge off the low rail obtains (`controller.py:2756-2762`) is
   put back by the anti-windup (2751-2755), and the loop stays where it is for as
   long. `LeavesLowRail` excepts it.
26. Half a narrow floor-to-ceiling span may be less than the least change of
   power (`SOFT_START_STEP_FRAC`, 173): the soft start then never raises.
   `HeatLoopAssumption` keeps to spans of two steps and more.
27. A soft start that holds its base holds it above a ceiling lowered meanwhile
   (2540-2552), and its spacing counts limit writes only, not operating powers
   (2548).
28. After a fallback the loop is seeded from a target that may never have been
   delivered (1923; compare 17).
29. A forecast that answers with no entries leaves the cache and its time in place
   (1405-1408) and is not taken for a failure: the forecast kept is then used
   however old it is. `ClearIsRecent` counts from the last answer that had any
   entries, and excepts a poll whose own call came back without them.
30. The freeze flag is saved late (1468): a crash within the delay forgets a
   freeze that only a reading within the hysteresis would have kept.
31. The outdoor gate goes on with as few as 12 samples of the past when the
   forecast fails, where `docs/demand-shutoff-plan.md:189` says it disarms.
32. A simulated stop that is discarded on leaving observe mode takes the whole
   `ShutoffState` with it, `last_resume` included (`controller.py:566`): at the
   default values trigger W may stop the miner 40 minutes after a resume
   (`strings.json:109`: "Once resumed, do not power the miner off again for at
   least this long", also `src/README.md:249`; Min On is 60). `MinOnHonoured` names
   the case (`seen.forgotten`), in which both dwells lie between start and stop but
   not MinOn; `ShutoffHistory` reaches it. Found by the attempt to prove it.
33. A lockout reset runs the listeners on the last poll (`controller.py:754`), and
    the step they start decides on it. Where polls are further apart than the
    grace of the user's off (`USER_OFF_GRACE_S`, 180 s, `controller.py:271`; the
    interval is 30 s by default and may be set to 300), a reset that comes after the
    user's power_off and that grace, and before the next poll, has the step stop a
    miner that the old poll shows hashing, own that stop and later undo it. It is
    the ground `SeenToHash` of `UserOffStays`; found by the attempt to prove it.
34. The limit that replaces a refused `set.miner.power` carries that write's power
    on (`controller.py:2326`) and does not compare it with the fault bounds again,
    though a poll may have moved them while the write waited for its answer: a
    fault that was just noted does not lower it, against "The request is first
    clamped into the fault bounds" (2213). `CommandsInBounds` holds this command to
    the bounds its v3 write was decided under.
35. A migration retires entities only in the step of the version that retires them
    (`__init__.py:403-421`). The entry is written a second after it changed and the
    registry ten: after a crash between the two the entry has the new version, the
    entities are still registered, and no later migration removes them. It is the
    exception `MigratedOnce` names (`torn`).
36. `async_unload` waits 20 s for a step, logs that it still runs, and lets the
    next controller load the Store (`controller.py:648-654`). A step that takes
    longer than that set-up too decides, saves and commands behind the new
    controller's back: it may stop the miner, and the new one's next save of what it
    loaded takes the owner of that stop out of the Store. `StopsKeepOwner` holds up
    to that set-up.

## 6. Not modelled, and the plan

| Not modelled | Why, or what it would take |
|---|---|
| Hashrate-collapse watch, `controller.py` 2349–2420 | belongs between `PowerRegulation` (which write it watches) and `FaultMemory` (what it notes): both at their bounds already; a module of its own with the writes and epochs as inputs |
| Pinned step, set-point ramp, outdoor and price terms, smoothed slope, derivative | off or 0 unless configured; they add to the error or the output and keep no state of consequence. The pinned mode (2554–2650) is a second, simpler loop and worth a module |
| Several awaits of a poll, parsing in `coordinator.py` 560–979 | a poll is what it leaves in `data` and `last_update_success` |
| Numbers and the other buttons | they set one attribute each, or call `FaultMemory`'s reset |
| A save that fails (`SaveFails`) | the constant exists, in `HeatController` and `ConfigEntry`; with `TRUE`, `NoOrphanedStop`, `LatchOutlivesRestarts` and `StopsKeepOwner` fail, as item 5 says they must |
| `firmware_image.py`, framing and cryptography | parsers and ciphers without state: the service's file is read or refused, a password fits or does not |
| `PIDAutotune`, `pid_controller.py` 243–530 | nothing calls it |
| Braiins, sensors, config flow, unit helpers | presentation and forms, no state that control depends on |

An abstract specification worth stating next: a miner that is on or off, with
commands that land or are lost, which `MinerApi` implements. What is left to
prove is liveness, for which the provers at hand have no rule.
