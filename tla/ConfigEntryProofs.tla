-------------------------- MODULE ConfigEntryProofs --------------------------
(***************************************************************************)
(* Proofs about the life of the config entry, for any schema versions it   *)
(* may come from and any number of crashes: it is converted once and to    *)
(* the end, and a stop in the Store keeps its owner.  Each rests on what is on *)
(* disk in every phase: the migration on which of its two writes have been *)
(* made, the ownership on where between save and command a step is.        *)
(***************************************************************************)
EXTENDS ConfigEntry, TLAPS

\* Until the migration, memory is what was read from disk; from then on the
\* entry has the last version and its entities are gone.  On disk the registry
\* may lag behind the entry, until a crash makes that last (torn).
MigrationInv ==
    /\ MigratedTo(entry) /\ MigratedTo(entryDisk)
    /\ phase = "start" => entry = entryDisk /\ registry = registryDisk
    /\ phase \notin {"down", "start"} => entry.version = 5
    /\ phase \notin {"down", "start"} /\ ~torn => registry = {}
    /\ ~torn /\ (entryDisk.version # 5 \/ phase \in {"down", "start"}) =>
          registryDisk \subseteq Carries(entryDisk.version)

\* What the Store holds at each await of a controller's step.
Stored(c) ==
    /\ c.step \in {"none", "forecast"} => store = c.own
    /\ c.step = "save_off" => c.own = "stopped" /\ mining
    /\ c.step = "save_on" => c.own = "resuming" /\ store # "no"
    /\ c.step = "off" => c.own = "stopped" /\ store = "stopped"
    /\ c.step = "on" => c.own = "resuming" /\ store = "resuming"
    /\ c.step = "save" => IF c.own = "no" THEN mining ELSE store = c.own

\* As long as no step goes on behind a new controller, one controller at a time
\* writes the Store, the loaded one or a former one, and a stopped miner has its
\* owner there.
OwnerInv ==
    late # "overtaken" =>
        /\ late = "no" => old = NoController
        /\ ~mining => store # "no"
        /\ IF phase \in {"loaded", "leave"} THEN late = "no" /\ Stored(ctl)
           ELSE Ended(old) \/ Stored(old)

EntryInv == TypeOK /\ MigrationInv

----------------------------------------------------------------------------
(* What a migration and a step make of their records *)

\* The migration's steps, whatever version they begin with, lead to version 5
\* and convert and retire what each version between says.
LEMMA MigratesToTheEnd ==
    ASSUME NEW e \in Entries, MigratedTo(e)
    PROVE  /\ Migrated(e) \in Entries /\ MigratedTo(Migrated(e))
           /\ Migrated(e).version = 5
  <1>0. /\ Carries(1) = Retired /\ Carries(2) = Retired /\ Carries(3) = Retired
        /\ Carries(4) = Retired \ {"v4"} /\ Carries(5) = (Retired \ {"v4"}) \ {"v5"}
    BY DEF Carries, Retired
  <1>1. ASSUME NEW f \in Entries, MigratedTo(f), f.version \in 1..5
        PROVE  To2(f) \in Entries /\ MigratedTo(To2(f)) /\ To2(f).version \in 2..5
    <2>1. CASE f.version = 1
      <3>1. /\ f = [version |-> 1, unit |-> f.unit, options |-> f.options, mac |-> f.mac]
            /\ f.unit \in Units /\ f.options \in SUBSET Retired /\ f.mac \in BOOLEAN
        BY <2>1 DEF Entries
      <3>2. To2(f) = [version |-> 2, unit |-> Fahrenheit(f.unit),
                      options |-> f.options, mac |-> f.mac]
        BY <2>1, <3>1 DEF To2
      <3>3. Fahrenheit(f.unit) \in Units /\ f.options \in SUBSET Retired
        BY <3>1 DEF Units, Fahrenheit
      <3>4. To2(f) \in Entries
        BY <3>1, <3>2, <3>3 DEF Entries
      <3> QED
        BY <1>0, <1>1, <2>1, <3>2, <3>4 DEF MigratedTo, Fahrenheit
    <2>2. CASE f.version # 1
      BY <1>1, <2>2 DEF To2, Entries
    <2> QED
      BY <2>1, <2>2
  <1>2. ASSUME NEW f \in Entries, MigratedTo(f), f.version \in 2..5
        PROVE  To3(f) \in Entries /\ MigratedTo(To3(f)) /\ To3(f).version \in 3..5
    <2>1. CASE f.version = 2
      <3>1. /\ f = [version |-> 2, unit |-> f.unit, options |-> f.options, mac |-> f.mac]
            /\ f.unit \in Units /\ f.options \in SUBSET Retired /\ f.mac \in BOOLEAN
        BY <2>1 DEF Entries
      <3>2. To3(f) = [version |-> 3, unit |-> f.unit,
                      options |-> f.options, mac |-> f.mac]
        BY <2>1, <3>1 DEF To3
      <3>3. f.unit \in Units /\ f.options \in SUBSET Retired
        BY <3>1 DEF Units, Fahrenheit
      <3>4. To3(f) \in Entries
        BY <3>1, <3>2, <3>3 DEF Entries
      <3> QED
        BY <1>0, <1>2, <2>1, <3>2, <3>4 DEF MigratedTo
    <2>2. CASE f.version # 2
      BY <1>2, <2>2 DEF To3, Entries
    <2> QED
      BY <2>1, <2>2
  <1>3. ASSUME NEW f \in Entries, MigratedTo(f), f.version \in 3..5
        PROVE  To4(f) \in Entries /\ MigratedTo(To4(f)) /\ To4(f).version \in 4..5
    <2>1. CASE f.version = 3
      <3>1. /\ f = [version |-> 3, unit |-> f.unit, options |-> f.options, mac |-> f.mac]
            /\ f.unit \in Units /\ f.options \in SUBSET Retired /\ f.mac \in BOOLEAN
        BY <2>1 DEF Entries
      <3>2. To4(f) = [version |-> 4, unit |-> f.unit,
                      options |-> f.options \ {"v4"}, mac |-> f.mac]
        BY <2>1, <3>1 DEF To4
      <3>3. f.unit \in Units /\ f.options \ {"v4"} \in SUBSET Retired
        BY <3>1 DEF Units, Fahrenheit
      <3>4. To4(f) \in Entries
        BY <3>1, <3>2, <3>3 DEF Entries
      <3> QED
        BY <1>0, <1>3, <2>1, <3>2, <3>4 DEF MigratedTo
    <2>2. CASE f.version # 3
      BY <1>3, <2>2 DEF To4, Entries
    <2> QED
      BY <2>1, <2>2
  <1>4. ASSUME NEW f \in Entries, MigratedTo(f), f.version \in 4..5
        PROVE  To5(f) \in Entries /\ MigratedTo(To5(f)) /\ To5(f).version \in 5..5
    <2>1. CASE f.version = 4
      <3>1. /\ f = [version |-> 4, unit |-> f.unit, options |-> f.options, mac |-> f.mac]
            /\ f.unit \in Units /\ f.options \in SUBSET Retired /\ f.mac \in BOOLEAN
        BY <2>1 DEF Entries
      <3>2. To5(f) = [version |-> 5, unit |-> f.unit,
                      options |-> f.options \ {"v5"}, mac |-> f.mac]
        BY <2>1, <3>1 DEF To5
      <3>3. f.unit \in Units /\ f.options \ {"v5"} \in SUBSET Retired
        BY <3>1 DEF Units, Fahrenheit
      <3>4. To5(f) \in Entries
        BY <3>1, <3>2, <3>3 DEF Entries
      <3> QED
        BY <1>0, <1>4, <2>1, <3>2, <3>4 DEF MigratedTo
    <2>2. CASE f.version # 4
      BY <1>4, <2>2 DEF To5, Entries
    <2> QED
      BY <2>1, <2>2
  <1>5. e.version \in 1..5
    BY DEF Entries
  <1> DEFINE f2 == To2(e)  f3 == To3(f2)  f4 == To4(f3)
  <1>6. f2 \in Entries /\ MigratedTo(f2) /\ f2.version \in 2..5
    BY <1>1, <1>5
  <1>7. f3 \in Entries /\ MigratedTo(f3) /\ f3.version \in 3..5
    BY <1>2, <1>6
  <1>8. f4 \in Entries /\ MigratedTo(f4) /\ f4.version \in 4..5
    BY <1>3, <1>7
  <1> QED
    BY <1>4, <1>8 DEF Migrated

\* The entities removed on the way are those the entry came with.
LEMMA RetiresAll ==
    ASSUME NEW v \in 1..5
    PROVE  Retires(v) = Carries(v) /\ Carries(v) \subseteq Retired
  <1>1. CASE v <= 3
    BY <1>1 DEF Retires, Removes, Carries, Retired
  <1>2. CASE v = 4
    BY <1>2 DEF Retires, Removes, Carries, Retired
  <1>3. CASE v = 5
    BY <1>3 DEF Retires, Removes, Carries, Retired
  <1> QED
    BY <1>1, <1>2, <1>3

\* No step of a controller's asks for anything but a controller.
LEMMA AdvanceTypes ==
    ASSUME TypeOK, NEW c \in Controllers, NEW next \in Controllers, Advances(c, next)
    PROVE  store' \in {"no", "stopped", "resuming"} /\ mining' \in BOOLEAN
  BY DEF TypeOK, Advances, Saves, Controllers

\* A step keeps in the Store who owns the stop: it is saved before the command
\* goes out, and given up only once the miner mines.
LEMMA AdvanceStores ==
    ASSUME ~SaveFails, TypeOK, NEW c \in Controllers, ~Ended(c), Stored(c),
           ~mining => store # "no",
           NEW next \in Controllers, Advances(c, next)
    PROVE  Stored(next)' /\ (~mining' => store' # "no")
  <1> store \in {"no", "stopped", "resuming"} /\ mining \in BOOLEAN
    BY DEF TypeOK
  <1> c.own \in {"no", "stopped", "resuming"}
    BY DEF Controllers
  <1>1. CASE c.step = "forecast"
    BY <1>1 DEF Advances, Decides, Stored, Controllers, Steps
  <1>2. CASE c.step = "save_off"
    BY <1>2 DEF Advances, Saves, After, Stored, Controllers, Steps
  <1>3. CASE c.step = "save_on"
    BY <1>3 DEF Advances, Saves, After, Stored, Controllers, Steps
  <1>4. CASE c.step = "off"
    BY <1>4 DEF Advances, Saves, After, Stored, Controllers, Steps
  <1>5. CASE c.step = "on"
    BY <1>5 DEF Advances, Saves, After, Stored, Controllers, Steps
  <1>6. CASE c.step = "save"
    BY <1>6 DEF Advances, Saves, After, Stored, Controllers, Steps
  <1> QED
    BY <1>1, <1>2, <1>3, <1>4, <1>5, <1>6 DEF Ended, Controllers, Steps

----------------------------------------------------------------------------
(* Every step keeps the invariant *)

\* What a step of Home Assistant's or of the entry's set-up may change.
LEMMA TypesStay == EntryInv /\ [Next]_vars => TypeOK'
  <1> SUFFICES ASSUME EntryInv, [Next]_vars PROVE TypeOK'
    OBVIOUS
  <1> TypeOK
    BY DEF EntryInv
  <1> NoController \in Controllers /\ NoController.step = "none"
    BY DEF NoController, Controllers, Steps
  <1>1. CASE Migrate
    <2>1. Migrated(entry) \in Entries
      BY MigratesToTheEnd DEF EntryInv, TypeOK, MigrationInv
    <2> QED
      BY <1>1, <2>1 DEF Migrate, TypeOK, controllers, history
  <1>2. CASE Answered
    <2>1. [entry EXCEPT !.mac = TRUE] \in Entries
      BY DEF TypeOK, Entries
    <2> QED
      BY <1>2, <2>1 DEF Answered, TypeOK, controllers, history
  <1>3. CASE Boots \/ EntryWritten \/ RegistryWritten \/ Unanswered \/ Retries
    BY <1>3 DEF Boots, EntryWritten, RegistryWritten, Unanswered, Retries,
                TypeOK, configs, controllers, history
  <1>4. CASE Loads
    <2>1. [NoController EXCEPT !.own = store] \in Controllers
      BY DEF TypeOK, NoController, Controllers, Steps
    <2> QED
      BY <1>4, <2>1 DEF Loads, TypeOK, configs
  <1>5. CASE StepBegins
    <2>1. [ctl EXCEPT !.step = "forecast"] \in Controllers
      BY DEF TypeOK, Controllers, Steps
    <2> QED
      BY <1>5, <2>1 DEF StepBegins, TypeOK, configs, history
  <1>6. CASE StepAdvances
    <2>1. PICK next \in Controllers : Advances(ctl, next) /\ ctl' = next
      BY <1>6 DEF StepAdvances
    <2>2. store' \in {"no", "stopped", "resuming"} /\ mining' \in BOOLEAN
      BY <2>1, AdvanceTypes DEF TypeOK
    <2> QED
      BY <1>6, <2>1, <2>2 DEF StepAdvances, TypeOK, configs, history
  <1>7. CASE OldStepAdvances
    <2>1. PICK next \in Controllers :
             Advances(old, next) /\ old' = IF Ended(next) THEN NoController ELSE next
      BY <1>7 DEF OldStepAdvances
    <2>2. store' \in {"no", "stopped", "resuming"} /\ mining' \in BOOLEAN
      BY <2>1, AdvanceTypes DEF TypeOK
    <2> QED
      BY <1>7, <2>1, <2>2 DEF OldStepAdvances, Ended, TypeOK, configs, history
  <1>8. CASE OptionsChanged
    BY <1>8 DEF OptionsChanged, TypeOK, configs, controllers, history
  <1>9. CASE Unloads \/ GivesUp
    <2>1. ctl.own \in {"no", "stopped", "resuming"}
      BY DEF TypeOK, Controllers
    <2> QED
      BY <1>9, <2>1 DEF Unloads, GivesUp, Saves, Ended, TypeOK, configs, history
  <1>10. CASE Crash
    BY <1>10, EntryAssumption DEF Crash, TypeOK, configs
  <1>11. CASE UNCHANGED vars
    BY <1>11 DEF TypeOK, vars, configs, controllers, history
  <1> QED
    BY <1>1, <1>2, <1>3, <1>4, <1>5, <1>6, <1>7, <1>8, <1>9, <1>10, <1>11 DEF Next

\* The two writes of a migration come in any order, and a crash between them
\* is the only way for a retired entity to be there again.
LEMMA MigrationStays == EntryInv /\ [Next]_vars => MigrationInv'
  <1> SUFFICES ASSUME EntryInv, [Next]_vars PROVE MigrationInv'
    OBVIOUS
  <1>0. /\ TypeOK /\ MigrationInv
        /\ entry.version \in 1..5 /\ entryDisk.version \in 1..5
    BY DEF EntryInv, TypeOK, Entries
  <1>c. Carries(5) = {}
    BY DEF Carries
  <1>1. CASE Migrate
    <2>1. /\ MigratedTo(entry') /\ entry'.version = 5
      BY <1>0, <1>1, MigratesToTheEnd DEF Migrate, TypeOK, MigrationInv
    <2>2. Retires(entry.version) = Carries(entry.version)
      BY <1>0, RetiresAll
    <2>3. ~torn => registry' = {}
      BY <1>0, <1>1, <2>2 DEF Migrate, MigrationInv
    <2> QED
      BY <1>0, <1>1, <2>1, <2>3 DEF Migrate, MigrationInv, history
  <1>2. CASE Answered
    <2>1. entry'.version = 5 /\ MigratedTo(entry')
      BY <1>0, <1>2 DEF Answered, TypeOK, Entries, MigrationInv, MigratedTo
    <2> QED
      BY <1>0, <1>2, <2>1 DEF Answered, MigrationInv, history
  <1>3. CASE Boots
    BY <1>0, <1>3 DEF Boots, MigrationInv, history
  <1>4. CASE EntryWritten
    BY <1>0, <1>c, <1>4 DEF EntryWritten, MigrationInv, history, TypeOK
  <1>5. CASE RegistryWritten
    BY <1>0, <1>5 DEF RegistryWritten, MigrationInv, history, TypeOK
  <1>6. CASE Unanswered \/ Retries \/ OptionsChanged
    BY <1>0, <1>6 DEF Unanswered, Retries, OptionsChanged, MigrationInv, configs, history
  <1>7. CASE Loads \/ StepBegins \/ StepAdvances \/ OldStepAdvances
    BY <1>0, <1>7 DEF Loads, StepBegins, StepAdvances, OldStepAdvances, MigrationInv, configs,
                      history
  <1>8. CASE Unloads \/ GivesUp
    BY <1>0, <1>8 DEF Unloads, GivesUp, MigrationInv, configs, history
  <1>9. CASE Crash
    BY <1>0, <1>c, <1>9 DEF Crash, MigrationInv, configs
  <1>10. CASE UNCHANGED vars
    BY <1>0, <1>10 DEF MigrationInv, vars, configs, controllers, history
  <1> QED
    BY <1>1, <1>2, <1>3, <1>4, <1>5, <1>6, <1>7, <1>8, <1>9, <1>10 DEF Next

\* Between save and command, at the hand-over and in a crash the Store says
\* whose the stop is.
LEMMA OwnerStays == ~SaveFails /\ EntryInv /\ OwnerInv /\ [Next]_vars => OwnerInv'
  <1> SUFFICES ASSUME ~SaveFails, EntryInv, OwnerInv, [Next]_vars, late' # "overtaken"
               PROVE  /\ late' = "no" => old' = NoController
                      /\ ~mining' => store' # "no"
                      /\ IF phase' \in {"loaded", "leave"} THEN late' = "no" /\ Stored(ctl)'
                         ELSE Ended(old)' \/ Stored(old)'
    BY DEF OwnerInv
  <1>0. TypeOK
    BY DEF EntryInv
  <1>n. NoController.step = "none" /\ Ended(NoController)
    BY DEF NoController, Ended
  <1>1. CASE Migrate \/ Answered \/ Boots \/ EntryWritten \/ RegistryWritten \/ Unanswered
             \/ Retries \/ OptionsChanged \/ UNCHANGED vars
    <2>1. UNCHANGED <<ctl, old, store, mining, late>>
      BY <1>1 DEF Migrate, Answered, Boots, EntryWritten, RegistryWritten, Unanswered, Retries,
                  OptionsChanged, vars, controllers, history
    <2>2. phase' \in {"loaded", "leave"} <=> phase \in {"loaded", "leave"}
      BY <1>0, <1>1 DEF Migrate, Answered, Boots, EntryWritten, RegistryWritten, Unanswered,
                        Retries, OptionsChanged, vars, TypeOK
    <2> QED
      BY <2>1, <2>2 DEF OwnerInv, Stored, Ended
  <1>2. CASE Loads
    <2>1. /\ ctl'.step = "none" /\ ctl'.own = store
          /\ UNCHANGED <<old, store, mining>>
      BY <1>2 DEF Loads, NoController
    <2>2. late = "no" /\ late' = "no"
      BY <1>0, <1>2 DEF Loads, TypeOK
    <2>3. Stored(ctl)'
      BY <2>1 DEF Stored
    <2> QED
      BY <1>2, <2>1, <2>2, <2>3 DEF Loads, OwnerInv
  <1>3. CASE StepBegins
    <2>1. ctl'.step = "forecast" /\ ctl'.own = ctl.own
      BY <1>0, <1>3 DEF StepBegins, TypeOK, Controllers
    <2>2. Stored(ctl)'
      BY <1>3, <2>1 DEF StepBegins, OwnerInv, Stored, Ended, history
    <2> QED
      BY <1>3, <2>2 DEF StepBegins, OwnerInv, history
  <1>4. CASE StepAdvances
    <2>1. PICK next \in Controllers : Advances(ctl, next) /\ ctl' = next
      BY <1>4 DEF StepAdvances
    <2>2. /\ late' = late /\ ~Ended(ctl) /\ Stored(ctl) /\ (~mining => store # "no")
          /\ ctl \in Controllers
      BY <1>0, <1>4 DEF StepAdvances, OwnerInv, history, TypeOK
    <2>3. Stored(next)' /\ (~mining' => store' # "no")
      BY <1>0, <2>1, <2>2, AdvanceStores
    <2>4. Stored(ctl)'
      BY <2>1, <2>3 DEF Stored
    <2> QED
      BY <1>4, <2>2, <2>3, <2>4 DEF StepAdvances, OwnerInv
  <1>5. CASE OldStepAdvances
    <2>1. PICK next \in Controllers :
             /\ Advances(old, next)
             /\ old' = IF Ended(next) THEN NoController ELSE next
             /\ late' = IF Ended(next) /\ late = "outlasted" THEN "no" ELSE late
      BY <1>5 DEF OldStepAdvances
    <2>2. ~Ended(old) /\ old \in Controllers /\ phase' = phase
      BY <1>0, <1>5 DEF OldStepAdvances, TypeOK
    <2>3. late = "outlasted" /\ phase \notin {"loaded", "leave"}
      BY <1>0, <1>n, <2>1, <2>2 DEF OwnerInv, TypeOK
    <2>4. Stored(old) /\ (~mining => store # "no")
      BY <2>2, <2>3 DEF OwnerInv
    <2>5. Stored(next)' /\ (~mining' => store' # "no")
      BY <1>0, <2>1, <2>2, <2>4, AdvanceStores
    <2>6. CASE Ended(next)
      BY <1>n, <2>1, <2>2, <2>3, <2>5, <2>6 DEF Ended
    <2>7. CASE ~Ended(next)
      BY <2>1, <2>2, <2>3, <2>5, <2>7 DEF Stored
    <2> QED
      BY <2>6, <2>7
  <1>6. CASE Unloads
    <2>1. late = "no" /\ old = NoController /\ Stored(ctl) /\ (~mining => store # "no")
      BY <1>6 DEF Unloads, OwnerInv, history
    <2>2. store' = store
      BY <1>6, <2>1 DEF Unloads, Saves, Ended, Stored
    <2> QED
      BY <1>n, <1>6, <2>1, <2>2 DEF Unloads, Ended, history
  <1>7. CASE GivesUp
    <2>1. late = "no" /\ Stored(ctl) /\ (~mining => store # "no") /\ late' = "outlasted"
      BY <1>0, <1>7 DEF GivesUp, OwnerInv, TypeOK
    <2>2. store' = ctl.own /\ mining' = mining /\ old' = ctl /\ phase' = "refresh"
      BY <1>7 DEF GivesUp, Saves
    <2>3. ctl.step \in Steps /\ ctl.own \in {"no", "stopped", "resuming"}
      BY <1>0 DEF TypeOK, Controllers
    <2>4. Stored(old)'
      BY <2>1, <2>2, <2>3 DEF Stored, Steps
    <2>5. ~mining' => store' # "no"
      BY <2>1, <2>2, <2>3 DEF Stored, Steps
    <2> QED
      BY <2>1, <2>2, <2>4, <2>5
  <1>8. CASE Crash
    BY <1>0, <1>n, <1>8 DEF Crash, OwnerInv, Ended
  <1> QED
    BY <1>1, <1>2, <1>3, <1>4, <1>5, <1>6, <1>7, <1>8 DEF Next

\* Whatever version the entry comes from.
LEMMA EntryBegins == Init => EntryInv /\ OwnerInv
  <1> SUFFICES ASSUME Init PROVE EntryInv /\ OwnerInv
    OBVIOUS
  <1>1. PICK v \in Versions : /\ entry = Entry(v) /\ entryDisk = entry
                              /\ registry = Carries(v) /\ registryDisk = registry
    BY DEF Init
  <1>2. v \in 1..5 /\ Carries(v) \subseteq Retired
    BY EntryAssumption, RetiresAll
  <1>3. entry \in Entries /\ entry.version = v /\ MigratedTo(entry)
    <2> DEFINE unit == IF v = 1 THEN "C" ELSE "F"
    <2>1. entry = [version |-> v, unit |-> unit, options |-> Carries(v), mac |-> FALSE]
      BY <1>1 DEF Entry
    <2>2. unit \in Units
      BY DEF Units
    <2>3. entry.unit = (IF entry.version = 1 THEN "C" ELSE "F")
      BY <2>1
    <2> HIDE DEF unit
    <2>4. entry \in Entries
      BY <1>2, <2>1, <2>2 DEF Entries
    <2>5. entry.version = v /\ entry.options = Carries(v)
      BY <2>1
    <2> QED
      BY <2>3, <2>4, <2>5 DEF MigratedTo
  <1>4. TypeOK
    <2>1. registry \subseteq Retired /\ registryDisk \subseteq Retired /\ entryDisk \in Entries
      BY <1>1, <1>2, <1>3
    <2>2. NoController \in Controllers
      BY DEF NoController, Controllers, Steps
    <2>3. /\ phase = "start" /\ ctl = NoController /\ old = NoController
          /\ store = "no" /\ mining = TRUE /\ late = "no" /\ torn = FALSE /\ crashes = 0
      BY DEF Init
    <2>4. crashes \in 0..MaxCrashes
      BY <2>3, EntryAssumption
    <2>5. {mining, torn} \subseteq BOOLEAN /\ late \in {"no", "outlasted", "overtaken"}
      BY <2>3
    <2> QED
      BY <1>3, <2>1, <2>2, <2>3, <2>4, <2>5 DEF TypeOK
  <1>5. MigrationInv
    BY <1>1, <1>3 DEF Init, MigrationInv
  <1> QED
    BY <1>4, <1>5 DEF Init, EntryInv, OwnerInv, Ended, NoController

----------------------------------------------------------------------------
(* The theorems *)

\* The invariant holds throughout.
LEMMA EntryInductive == Spec => []EntryInv
  <1>1. EntryInv /\ [Next]_vars => EntryInv'
    BY TypesStay, MigrationStays DEF EntryInv
  <1> QED
    BY <1>1, EntryBegins, PTL DEF Spec

\* From any version of the entry, and however often Home Assistant dies before
\* the one or the other file is written, async_migrate_entry converts the entry
\* once and to the end; it retires the entities too, unless a crash found the
\* new version written and the registry not.
THEOREM MigratesOnce == Spec => []MigratedOnce
  <1>1. EntryInv => MigratedOnce
    BY DEF EntryInv, MigrationInv, MigratedOnce
  <1> QED
    BY <1>1, EntryInductive, PTL

\* Across any number of reloads and crashes, and over steps that outlast
\* async_unload's wait, a miner the controller has stopped has an owner in the
\* Store, as long as writes of the Store do not fail and no step goes on once the
\* next controller is set up.
THEOREM StopIsOwned == ASSUME ~SaveFails PROVE Spec => []StopsKeepOwner
  <1>1. EntryInv /\ OwnerInv /\ [Next]_vars => OwnerInv'
    BY OwnerStays
  <1>2. OwnerInv => StopsKeepOwner
    BY DEF OwnerInv, StopsKeepOwner
  <1> QED
    BY <1>1, <1>2, EntryBegins, EntryInductive, PTL DEF Spec
=============================================================================
