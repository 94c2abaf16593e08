------------------------ MODULE DemandShutoffHistory ------------------------
(***************************************************************************)
(* DemandShutoff with history variables: what the polls have shown and     *)
(* what the user did, kept beside the state machine so that a decision can *)
(* be compared with the past it claims to rest on.  The history never      *)
(* restricts a step; it is what an observer of the controller would write  *)
(* down, and unlike the ShutoffState it cannot be forgotten by a restart.  *)
(***************************************************************************)
EXTENDS DemandShutoff

CONSTANT Watched   \* the notes a run keeps, a subset of Notes

VARIABLE seen      \* the observer's notes

HistoryVars == <<mode, shutoff, action, seen>>

\* What a poll that led to a command, or gave up a stop, had read: a miner that
\* hashes, with heat wanted by no thermostat and no freeze or not ("quiet",
\* "hashing"), a supply that latches, or none of them.
GroundsOf(i) ==
    LET hashing == i.fresh /\ i.is_mining
        wanted == i.summary = "calling" \/ i.freeze = "active"
    IN  CASE hashing /\ ~wanted -> "quiet"
          [] hashing /\ wanted  -> "hashing"
          [] ~hashing           -> IF i.latched THEN "latched" ELSE "other"

Ages == [called  |-> DwellHorizon,  \* ticks since a poll found a thermostat calling
         started |-> MinOn]         \* ... since the shutoff decided to power on

\* "grounds" is what the last poll had read, "forgotten" that a simulated stop
\* was discarded since the shutoff decided to power on, and with it that time.
Notes == DOMAIN Ages \cup {"grounds", "forgotten"}

ASSUME WatchedAssumption == Watched \subseteq Notes

NeverSeen(n) ==
    CASE n = "grounds"   -> "none"
      [] n = "forgotten" -> FALSE
      [] OTHER           -> Ages[n]

\* Whether a poll starts a note's age afresh.
Restarts(n, i) ==
    CASE n = "called"  -> i.summary = "calling"
      [] n = "started" -> /\ action' \in {"resume", "release", "unlatch"}
                          /\ shutoff.state # "resuming"

Note(i) ==
    seen' = [n \in Watched |->
        CASE n = "grounds"   -> IF action' # "none" \/ (shutoff.owned /\ ~shutoff'.owned)
                                THEN GroundsOf(i) ELSE "none"
          [] n = "forgotten" -> seen[n] /\ ~Restarts("started", i)
          [] OTHER           -> IF Restarts(n, i) THEN 0 ELSE seen[n]]

NoteTick ==
    seen' = [n \in Watched |->
        CASE n = "grounds"   -> "none"
          [] n = "forgotten" -> seen[n]
          [] OTHER           -> Older(seen[n], Ages[n])]

Discards == shutoff.simulated /\ mode' # "observe"

NoteOther ==
    seen' = [n \in Watched |->
        CASE n = "grounds"   -> "none"
          [] n = "forgotten" -> seen[n] \/ Discards
          [] OTHER           -> seen[n]]

HistoryInit == Init /\ seen = [n \in Watched |-> NeverSeen(n)]

HistoryNext ==
    \/ \E i \in Inputs : Decide(i) /\ Note(i)
    \/ (UserMiningOn \/ UserMiningOff \/ LockoutReset) /\ NoteOther
    \/ (StopSendFailed \/ ResumeSendFailed \/ Restart) /\ NoteOther
    \/ Tick /\ NoteTick

HistorySpec == HistoryInit /\ [][HistoryNext]_HistoryVars

----------------------------------------------------------------------------
(* Properties *)

PowersOff == action' \in {"stop", "reassert"}
FirstStop == action' = "stop" /\ shutoff.state # "stopped"
GivesUp   == shutoff.owned /\ ~shutoff'.owned /\ seen'.grounds # "none"

\* No power_off goes out of any branch (first stop, retried stop, reassert)
\* on a poll that shows heat wanted, a freeze risk, or stale data.
NoPowerOffWhenHeatWanted ==
    [][PowersOff => seen'.grounds = "quiet"]_HistoryVars

\* A stop is only taken when no thermostat has called during the whole dwell
\* it was earned with, however the trigger changed between W and S, and
\* through restarts and overrides in the middle of it.
StopNeedsQuietDwell ==
    [][FirstStop => seen'.called >= DwellNeeded(shutoff')]_HistoryVars

\* A run the shutoff itself started is not cut by trigger W within MinOn of
\* the decision to start it, through restarts, releases and user actions; but
\* where a simulated stop was discarded since, on leaving observe mode, the
\* code has forgotten that decision and keeps no more than both dwells apart.
MinOnHonoured ==
    [][FirstStop /\ shutoff'.dwell_trigger = "W" =>
         \/ seen'.started >= MinOn
         \/ seen'.forgotten /\ seen'.started >= SupplyDwell + IdleDwell]_HistoryVars

\* A poll gives up an owned stop only on a fresh sight of the miner hashing,
\* or because the supply lockout takes over: a lost, failed or slow power_on
\* leaves the stop owned, and so retried.
OwnershipKeptUntilHashing ==
    [][GivesUp => seen'.grounds # "other"]_HistoryVars

\* Outside active mode the shutoff only ever gives heat back: it powers
\* nothing off, and powers on only to release a stop it owns or to clear the
\* latch for the freeze guard, whatever state it was switched over in.
PassiveModesOnlyRestore ==
    [][mode' # "active" => /\ action' \notin {"stop", "reassert", "adopt", "resume"}
                           /\ action' = "release" => shutoff.owned]_HistoryVars
=============================================================================
