------------------------- MODULE HeatControllerProofs -------------------------
(***************************************************************************)
(* Proofs about the demand shutoff and the controller around it.           *)
(*                                                                         *)
(* Of DemandShutoff: type correctness, the agreement of ownership with     *)
(* state and mode, the spacing of reasserts, what an adoption waits for;   *)
(* and, of DemandShutoffHistory, how each power_off and each stop given up *)
(* agrees with what the polls had shown.  Each is an induction over Next;  *)
(* decide()'s branches are taken in the groups the component's module      *)
(* presents them in, one lemma for each group.                             *)
(*                                                                         *)
(* Of HeatController, for any configuration, environment, user and outcome *)
(* of its commands: its types, the ownership in memory and in the Store,   *)
(* the supply lockout latch, the stop that is never orphaned, the user's   *)
(* off that stays, and that all of it implements StopContract.  The step   *)
(* is followed from await to await; decide() enters by what any decision   *)
(* leaves behind.                                                          *)
(***************************************************************************)
EXTENDS HeatControllerHistory, DemandShutoffHistory, TLAPS, FiniteSetTheorems

\* The assumption on the constants, spelled out for the ranges of the fields.
LEMMA HorizonsAreNat ==
    /\ SinceHorizon \in Nat /\ DwellHorizon \in Nat /\ ResumeHorizon \in Nat
    /\ MinOn \in Nat /\ UnknownGrace \in Nat /\ ReassertInterval \in Nat
    /\ AdoptReclaim \in Nat /\ StopRetry \in Nat
    /\ ReassertMinAge \in Nat
    /\ ReassertMax \in Nat \ {0} /\ AdoptMiningPolls \in Nat \ {0}
    /\ ResumeDebouncePolls \in Nat \ {0}
    /\ ResumeHorizon - PowerOnRetry \in 0..ResumeHorizon
  BY ShutoffAssumption
     DEF Durations, SinceHorizon, DwellHorizon, ResumeHorizon, Larger

\* What an age may be set to.
LEMMA AgeFacts ==
    ASSUME NEW h \in Nat
    PROVE  0 \in Age(h) /\ None \in Age(h) /\ 0..h \subseteq Age(h)
  BY DEF Age

\* A tick keeps an age within its horizon.
LEMMA OlderType ==
    ASSUME NEW h \in Nat, NEW a \in Age(h)
    PROVE  Older(a, h) \in Age(h)
  BY DEF Older, Age, None

\* Changing the state keeps the type.
LEMMA EnterType ==
    ASSUME NEW s \in ShutoffState, NEW st \in ShutoffStates
    PROVE  Enter(s, st) \in ShutoffState
  BY HorizonsAreNat, AgeFacts DEF Enter, ShutoffState

\* Giving up a stop or a dwell keeps the type.
LEMMA ToRunningType ==
    ASSUME NEW s \in ShutoffState
    PROVE  ToRunning(s) \in ShutoffState
  <1>1. Enter(s, "running") \in ShutoffState
    BY EnterType DEF ShutoffStates
  <1>2. 0 \in 0..ResumeDebouncePolls /\ 0 \in 0..AdoptMiningPolls
    BY HorizonsAreNat
  <1> QED
    BY <1>1, <1>2, HorizonsAreNat, AgeFacts DEF ToRunning, ShutoffState

\* A tick keeps the type.
LEMMA AgedType ==
    ASSUME NEW s \in ShutoffState
    PROVE  Aged(s) \in ShutoffState
  BY HorizonsAreNat, OlderType DEF Aged, ShutoffState

\* The two updates before decide() branches keep the type.
LEMMA ObservedType ==
    ASSUME shutoff \in ShutoffState, NEW i
    PROVE  Observed(i) \in ShutoffState
  <1>1. GateArmed(shutoff, i) \in BOOLEAN
    BY DEF GateArmed
  <1>2. (shutoff.suppressed /\ i.summary # "calling") \in BOOLEAN
    OBVIOUS
  <1> QED
    BY <1>1, <1>2 DEF Observed, ShutoffState

(***************************************************************************)
(* What one decision leaves in the state, branch by branch.                *)
(***************************************************************************)

\* Forgetting an expired adoption keeps the type.
LEMMA CurrentType ==
    ASSUME shutoff \in ShutoffState, NEW i
    PROVE  Current(i) \in ShutoffState
  BY ObservedType, AgeFacts, HorizonsAreNat DEF Current, ShutoffState

\* Beginning or continuing a dwell keeps the type.
LEMMA DwellingType ==
    ASSUME shutoff \in ShutoffState, NEW i
    PROVE  Dwelling(i) \in ShutoffState
  <1>1. Current(i) \in ShutoffState
    BY CurrentType
  <1>2. Enter(Current(i), "dwell") \in ShutoffState
    BY <1>1, EnterType DEF ShutoffStates
  <1>3. Trigger(Current(i), i) \in {"none", "W", "S"}
    BY DEF Trigger
  <1> QED
    BY <1>1, <1>2, <1>3, AgeFacts, HorizonsAreNat DEF Dwelling, ShutoffState

\* A counted poll stays within its maximum.
LEMMA BumpType ==
    ASSUME NEW max \in Nat, NEW n \in 0..max
    PROVE  Bump(n, max) \in 0..max
  BY DEF Bump

\* Counting a poll that shows hashing keeps the type.
LEMMA CountedType ==
    ASSUME shutoff \in ShutoffState, NEW i
    PROVE  Counted(i) \in ShutoffState
  BY ObservedType, BumpType, HorizonsAreNat DEF Counted, ShutoffState

\* Every counter may be zero.
LEMMA ZeroCounts ==
    0 \in 0..ResumeDebouncePolls /\ 0 \in 0..AdoptMiningPolls /\ 0 \in 0..ReassertMax
  BY HorizonsAreNat

\* Noting that a stop landed keeps the type.
LEMMA LandedType ==
    ASSUME shutoff \in ShutoffState, NEW i
    PROVE  Landed(i) \in ShutoffState
  BY ZenonT(60), ObservedType, ZeroCounts, AgeFacts, HorizonsAreNat DEF Landed, ShutoffState

\* Counting what the thermostats say keeps the type.
LEMMA PolledType ==
    ASSUME shutoff \in ShutoffState, NEW i
    PROVE  Polled(i) \in ShutoffState
  BY ZenonT(60), LandedType, BumpType, ZeroCounts, AgeFacts, HorizonsAreNat DEF Polled, ShutoffState

\* _resume() keeps the type.
LEMMA ResumeType ==
    ASSUME NEW s \in ShutoffState, TypeOK, Resume(s)
    PROVE  TypeOK'
  <1> DEFINE r == [s EXCEPT !.call_polls = 0, !.unknown_since = None, !.last_resume = 0]
  <1>1. r \in ShutoffState
    BY ZeroCounts, AgeFacts, HorizonsAreNat DEF ShutoffState
  <1>2. ToRunning(r) \in ShutoffState
    BY <1>1, ToRunningType
  <1>3. Enter(r, "resuming") \in ShutoffState
    BY <1>1, EnterType DEF ShutoffStates
  <1>4. [Enter(r, "resuming") EXCEPT !.resume_sent = 0] \in ShutoffState
    BY <1>3, AgeFacts, HorizonsAreNat DEF ShutoffState
  <1> QED
    BY <1>2, <1>4 DEF Resume, Decides, TypeOK, Actions

\* A decision is well typed when its state and action are.
LEMMA DecidesType ==
    ASSUME TypeOK, NEW s \in ShutoffState, NEW a \in Actions, Decides(a, s)
    PROVE  TypeOK'
  BY DEF Decides, TypeOK

\* A restart keeps the type.
LEMMA RestoredType ==
    ASSUME NEW s \in ShutoffState, NEW m
    PROVE  Restored(s, m) \in ShutoffState
  <1>1. InitialState \in ShutoffState
    BY ZeroCounts, AgeFacts, HorizonsAreNat DEF InitialState, ShutoffState, ShutoffStates
  <1>2. [InitialState EXCEPT !.gate_armed = s.gate_armed] \in ShutoffState
    BY <1>1 DEF ShutoffState
  <1>3. [s EXCEPT !.state = "running", !.dwell_start = None,
                  !.dwell_trigger = "none"] \in ShutoffState
    BY AgeFacts, HorizonsAreNat DEF ShutoffState, ShutoffStates
  <1> QED
    BY <1>2, <1>3 DEF Restored

\* The user hooks keep the type.
LEMMA DisownedType ==
    ASSUME NEW s \in ShutoffState
    PROVE  Disowned(s) \in ShutoffState
  <1>1. Enter(s, "running") \in ShutoffState
    BY EnterType DEF ShutoffStates
  <1> QED
    BY <1>1, HorizonsAreNat, AgeFacts DEF Disowned, ShutoffState

\* decide() under the supply lockout.
LEMMA LatchTypes ==
    ASSUME TypeOK, NEW i, LatchedHold(i) \/ LatchedFreeze(i)
    PROVE  TypeOK'
  <1> DEFINE s == Observed(i)
             r == IF s.state # "running" \/ s.owned THEN ToRunning(s) ELSE s
  <1>1. r \in ShutoffState
    BY ObservedType, ToRunningType DEF TypeOK
  <1>2. Enter(r, "resuming") \in ShutoffState
    BY <1>1, EnterType DEF ShutoffStates
  <1>3. [Enter(r, "resuming") EXCEPT !.owned = TRUE, !.resume_sent = 0,
                                     !.last_resume = 0] \in ShutoffState
    BY <1>2, AgeFacts, HorizonsAreNat DEF ShutoffState
  <1> QED
    BY <1>1, <1>3, DecidesType DEF LatchedHold, LatchedFreeze, Actions

\* decide() with a stop to release, or disabled.
LEMMA ReleaseTypes ==
    ASSUME TypeOK, NEW i,
           ReleaseConfirmed(i) \/ ReleasePending(i) \/ ReleaseSend(i) \/ Disabled(i)
    PROVE  TypeOK'
  <1> DEFINE s == Observed(i)
             r == IF s.state = "resuming" THEN s ELSE Enter(s, "resuming")
  <1>1. s \in ShutoffState
    BY ObservedType DEF TypeOK
  <1>2. ToRunning(s) \in ShutoffState
    BY <1>1, ToRunningType
  <1>3. r \in ShutoffState
    BY <1>1, EnterType DEF ShutoffStates
  <1>4. [r EXCEPT !.resume_sent = 0, !.last_resume = 0] \in ShutoffState
    BY <1>3, AgeFacts, HorizonsAreNat DEF ShutoffState
  <1> HIDE DEF r
  <1>5. ReleaseSend(i) => Decides("release", [r EXCEPT !.resume_sent = 0, !.last_resume = 0])
    BY DEF ReleaseSend, r
  <1>6. CASE ReleaseSend(i)
    BY <1>4, <1>5, <1>6, DecidesType DEF Actions
  <1>7. CASE ~ReleaseSend(i)
    BY <1>1, <1>2, <1>7, DecidesType DEF ReleaseConfirmed, ReleasePending, Disabled, Actions
  <1> QED
    BY <1>6, <1>7

\* decide() in RUNNING and DWELL.
LEMMA WatchTypes ==
    ASSUME TypeOK, NEW i,
           ReclaimAdopted(i) \/ KeepRunning(i) \/ KeepDwelling(i) \/ TakeStop(i)
    PROVE  TypeOK'
  <1> USE DEF Actions
  <1>1. Observed(i) \in ShutoffState /\ Current(i) \in ShutoffState
        /\ Dwelling(i) \in ShutoffState
    BY ObservedType, CurrentType, DwellingType DEF TypeOK
  <1>2. CASE ReclaimAdopted(i)
    <2>1. Enter(Observed(i), "stopped") \in ShutoffState
      BY <1>1, EnterType DEF ShutoffStates
    <2>2. [Enter(Observed(i), "stopped") EXCEPT
             !.owned = TRUE, !.suppressed = FALSE, !.adopted = None,
             !.mining_polls = 0, !.reasserts = 0, !.reasserted = None] \in ShutoffState
      BY <2>1, ZeroCounts, AgeFacts, HorizonsAreNat DEF ShutoffState
    <2> QED
      BY <1>2, <2>2, DecidesType DEF ReclaimAdopted
  <1>3. CASE KeepRunning(i)
    BY <1>1, <1>3, ToRunningType, DecidesType DEF KeepRunning
  <1>4. CASE KeepDwelling(i)
    BY <1>1, <1>4, DecidesType DEF KeepDwelling
  <1>5. CASE TakeStop(i)
    <2> DEFINE s == [Enter(Dwelling(i), "stopped") EXCEPT
                      !.stop_failed = None, !.mining_polls = 0, !.reasserts = 0,
                      !.reasserted = None, !.adopted = None, !.call_polls = 0,
                      !.unknown_since = None]
    <2>1. Enter(Dwelling(i), "stopped") \in ShutoffState
      BY <1>1, EnterType DEF ShutoffStates
    <2>2. s \in ShutoffState
      BY <2>1, ZeroCounts, AgeFacts, HorizonsAreNat DEF ShutoffState
    <2>3. [s EXCEPT !.simulated = TRUE, !.owned = FALSE] \in ShutoffState
          /\ [s EXCEPT !.owned = TRUE] \in ShutoffState
      BY <2>2 DEF ShutoffState
    <2> QED
      BY <1>5, <2>3, DecidesType DEF TakeStop
  <1> QED
    BY <1>2, <1>3, <1>4, <1>5

\* decide() in STOPPED with the miner hashing.
LEMMA HashingTypes ==
    ASSUME TypeOK, NEW i,
           \/ StopRetryPending(i) \/ StopRetryAbandoned(i) \/ StopRetrySend(i)
           \/ ConfirmHashing(i) \/ TreatAsResumed(i)
           \/ Reassert(i) \/ Adopt(i) \/ ReassertPending(i)
    PROVE  TypeOK'
  <1> USE DEF Actions
  <1>1. Observed(i) \in ShutoffState /\ Counted(i) \in ShutoffState
    BY ObservedType, CountedType DEF TypeOK
  <1>2. [Observed(i) EXCEPT !.last_resume = 0] \in ShutoffState
        /\ [Observed(i) EXCEPT !.stop_failed = 0] \in ShutoffState
    BY <1>1, AgeFacts, HorizonsAreNat DEF ShutoffState
  <1>3. TakenAsResumed(i) \in ShutoffState
    BY <1>2, ToRunningType DEF TakenAsResumed
  <1>4. CASE Reassert(i)
    <2>1. Counted(i).reasserts = shutoff.reasserts
      BY ObservedType DEF Counted, Observed, TypeOK, ShutoffState
    <2>2. Counted(i).reasserts + 1 \in 0..ReassertMax
      BY <1>4, <2>1, HorizonsAreNat DEF Reassert, TypeOK, ShutoffState
    <2>3. [Counted(i) EXCEPT !.reasserts = @ + 1, !.reasserted = 0] \in ShutoffState
      BY <1>1, <2>2, AgeFacts, HorizonsAreNat DEF ShutoffState
    <2> QED
      BY <1>4, <2>3, DecidesType DEF Reassert
  <1>5. CASE Adopt(i)
    <2>1. ToRunning(Counted(i)) \in ShutoffState
      BY <1>1, ToRunningType
    <2>2. [ToRunning(Counted(i)) EXCEPT !.suppressed = TRUE, !.adopted = 0] \in ShutoffState
      BY <2>1, AgeFacts, HorizonsAreNat DEF ShutoffState
    <2> QED
      BY <1>5, <2>2, DecidesType DEF Adopt
  <1>6. CASE ~Reassert(i) /\ ~Adopt(i)
    BY <1>1, <1>2, <1>3, <1>6, DecidesType
       DEF StopRetryPending, StopRetryAbandoned, StopRetrySend, ConfirmHashing,
           TreatAsResumed, ReassertPending
  <1> QED
    BY <1>4, <1>5, <1>6

\* decide() in STOPPED with the miner quiet.
LEMMA RestingTypes ==
    ASSUME TypeOK, NEW i,
           \/ FreezeWaitsForCool(i) \/ FreezeResume(i) \/ UnknownFreezeResume(i)
           \/ DemandResume(i) \/ StayStopped(i)
    PROVE  TypeOK'
  <1>1. Landed(i) \in ShutoffState /\ Polled(i) \in ShutoffState
    BY LandedType, PolledType DEF TypeOK
  <1>2. CASE FreezeWaitsForCool(i) \/ StayStopped(i)
    BY <1>1, <1>2, DecidesType DEF FreezeWaitsForCool, StayStopped, Actions
  <1>3. CASE FreezeResume(i) \/ UnknownFreezeResume(i) \/ DemandResume(i)
    BY <1>1, <1>3, ResumeType DEF FreezeResume, UnknownFreezeResume, DemandResume
  <1> QED
    BY <1>2, <1>3

\* decide() in RESUMING.
LEMMA AwaitTypes ==
    ASSUME TypeOK, NEW i,
           ResumeConfirmed(i) \/ ResumeRetry(i) \/ ResumePending(i)
    PROVE  TypeOK'
  <1>1. Observed(i) \in ShutoffState
    BY ObservedType DEF TypeOK
  <1>2. ToRunning(Observed(i)) \in ShutoffState
    BY <1>1, ToRunningType
  <1>3. [Observed(i) EXCEPT !.resume_sent = 0] \in ShutoffState
    BY <1>1, AgeFacts, HorizonsAreNat DEF ShutoffState
  <1> QED
    BY <1>1, <1>2, <1>3, DecidesType DEF ResumeConfirmed, ResumeRetry, ResumePending, Actions

\* Type correctness of the shutoff state machine (demand_shutoff.py): every
\* timestamp, counter and flag stays in the range the code keeps it in, for
\* every configuration, every mode and every input a poll can read.
THEOREM TypeCorrect == Spec => []TypeOK
  <1>1. Init => TypeOK
    BY ZeroCounts, AgeFacts, HorizonsAreNat
       DEF Init, TypeOK, InitialState, ShutoffState, ShutoffStates, Actions
  <1>2. TypeOK /\ [Next]_vars => TypeOK'
    <2> SUFFICES ASSUME TypeOK, [Next]_vars PROVE TypeOK'
      OBVIOUS
    <2>1. CASE Poll
      BY <2>1, LatchTypes, ReleaseTypes, WatchTypes, HashingTypes, RestingTypes, AwaitTypes
         DEF Poll, Decide
    <2>2. CASE UserMiningOn \/ UserMiningOff \/ LockoutReset
      <3>1. Disowned(shutoff) \in ShutoffState
        BY DisownedType DEF TypeOK
      <3>2. [Disowned(shutoff) EXCEPT !.suppressed = TRUE] \in ShutoffState
        BY <3>1 DEF ShutoffState
      <3> QED
        BY <2>2, <3>1, <3>2 DEF UserMiningOn, UserMiningOff, LockoutReset, Sets, TypeOK, Actions
    <2>3. CASE StopSendFailed
      <3>1. [shutoff EXCEPT !.stop_failed = 0] \in ShutoffState
        BY AgeFacts, HorizonsAreNat DEF TypeOK, ShutoffState
      <3> QED
        BY <2>3, <3>1 DEF StopSendFailed, Sets, TypeOK, Actions
    <2>4. CASE ResumeSendFailed
      <3>1. ResumeHorizon - PowerOnRetry \in Age(ResumeHorizon)
        BY AgeFacts, HorizonsAreNat
      <3>2. PowerOnFailed(shutoff) \in ShutoffState
        BY <3>1 DEF PowerOnFailed, TypeOK, ShutoffState
      <3> QED
        BY <2>4, <3>2 DEF ResumeSendFailed, Sets, TypeOK, Actions
    <2>5. CASE Restart
      BY <2>5, RestoredType DEF Restart, TypeOK, Actions
    <2>6. CASE Tick
      BY <2>6, AgedType DEF Tick, Sets, TypeOK, Actions
    <2>7. CASE UNCHANGED vars
      BY <2>7 DEF vars, TypeOK
    <2> QED
      BY <2>1, <2>2, <2>3, <2>4, <2>5, <2>6, <2>7 DEF Next
  <1> QED
    BY <1>1, <1>2, PTL DEF Spec

(***************************************************************************)
(* Ownership.  Consistent reads six fields; the first lemmas say which of  *)
(* them the steps of a decision leave alone.                               *)
(***************************************************************************)

\* Two records that agree on what Consistent reads.
Alike(r, s) ==
    /\ r.state = s.state /\ r.owned = s.owned /\ r.simulated = s.simulated
    /\ r.resume_sent = s.resume_sent
    /\ r.dwell_start = s.dwell_start /\ r.dwell_trigger = s.dwell_trigger

\* Consistent reads nothing but what Alike compares.
LEMMA AlikeConsistent ==
    ASSUME NEW r, NEW s, NEW m, Alike(r, s), Consistent(s, m)
    PROVE  Consistent(r, m)
  BY DEF Alike, Consistent

\* No update before the decision touches what Consistent reads.
LEMMA AlikeBranches ==
    ASSUME shutoff \in ShutoffState, NEW i
    PROVE  /\ Alike(Observed(i), shutoff) /\ Alike(Current(i), shutoff)
           /\ Alike(Counted(i), shutoff)
           /\ Alike(Landed(i), shutoff) /\ Alike(Polled(i), shutoff)
  <1>1. Alike(Observed(i), shutoff)
    BY DEF Alike, Observed, ShutoffState
  <1>2. Alike(Current(i), Observed(i))
    BY ObservedType DEF Alike, Current, ShutoffState
  <1>3. Alike(Counted(i), Observed(i))
    BY ObservedType DEF Alike, Counted, ShutoffState
  <1>4. Alike(Landed(i), Observed(i))
    BY ObservedType DEF Alike, Landed, ShutoffState
  <1>5. Alike(Polled(i), Landed(i))
    BY LandedType DEF Alike, Polled, ShutoffState
  <1> QED
    BY <1>1, <1>2, <1>3, <1>4, <1>5 DEF Alike

\* A stop given up is consistent in every mode.
LEMMA RunningConsistent ==
    ASSUME NEW s \in ShutoffState, NEW m
    PROVE  Consistent(ToRunning(s), m) /\ Consistent(Disowned(s), m)
  BY DEF ToRunning, Disowned, Enter, Consistent, ShutoffState

\* The inductive invariant of the ownership proof.
Owned == TypeOK /\ OwnershipInv

\* A decision on a consistent state establishes the invariant.
LEMMA DecidesConsistent ==
    ASSUME NEW a, NEW s, Decides(a, s), Consistent(s, mode)
    PROVE  OwnershipInv'
  BY DEF Decides, OwnershipInv, Consistent

\* _resume() of a stop is consistent.
LEMMA ResumeConsistent ==
    ASSUME NEW s \in ShutoffState, Consistent(s, mode), s.state = "stopped", Resume(s)
    PROVE  OwnershipInv'
  <1> DEFINE r == [s EXCEPT !.call_polls = 0, !.unknown_since = None, !.last_resume = 0]
             t == [Enter(r, "resuming") EXCEPT !.resume_sent = 0]
  <1>1. r \in ShutoffState
    BY ZeroCounts, AgeFacts, HorizonsAreNat DEF ShutoffState
  <1>2. Consistent(ToRunning(r), mode)
    BY <1>1, RunningConsistent
  <1>3. s.simulated \/ Consistent(t, mode)
    BY DEF Consistent, ShutoffState, Enter, None
  <1> QED
    BY <1>2, <1>3, DecidesConsistent DEF Resume

\* decide() under the supply lockout.
LEMMA LatchConsistent ==
    ASSUME Owned, NEW i, LatchedHold(i) \/ LatchedFreeze(i)
    PROVE  OwnershipInv'
  <1> DEFINE s == Observed(i)
             r == IF s.state # "running" \/ s.owned THEN ToRunning(s) ELSE s
             t == [Enter(r, "resuming") EXCEPT !.owned = TRUE, !.resume_sent = 0,
                                               !.last_resume = 0]
  <1>1. s \in ShutoffState /\ Consistent(s, mode)
    BY ObservedType, AlikeBranches, AlikeConsistent DEF Owned, TypeOK, OwnershipInv
  <1>2. r \in ShutoffState /\ Consistent(r, mode) /\ r.state = "running"
    BY <1>1, ToRunningType, RunningConsistent DEF ToRunning, Enter, ShutoffState
  <1> HIDE DEF r
  <1>3. Consistent(t, mode)
    BY <1>2 DEF Enter, Consistent, ShutoffState, None
  <1>4. LatchedFreeze(i) => Decides("unlatch", t)
    BY DEF LatchedFreeze, r
  <1>5. LatchedHold(i) => Decides("none", r)
    BY DEF LatchedHold, r
  <1> QED
    BY <1>2, <1>3, <1>4, <1>5, DecidesConsistent

\* decide() with a stop to release, or disabled.
LEMMA ReleaseConsistent ==
    ASSUME Owned, NEW i,
           ReleaseConfirmed(i) \/ ReleasePending(i) \/ ReleaseSend(i) \/ Disabled(i)
    PROVE  OwnershipInv'
  <1> DEFINE s == Observed(i)
             t == [(IF s.state = "resuming" THEN s ELSE Enter(s, "resuming"))
                     EXCEPT !.resume_sent = 0, !.last_resume = 0]
  <1>1. s \in ShutoffState /\ Consistent(s, mode) /\ s.owned = shutoff.owned
    BY ObservedType, AlikeBranches, AlikeConsistent DEF Owned, TypeOK, OwnershipInv, Alike
  <1>2. Consistent(ToRunning(s), mode)
    BY <1>1, RunningConsistent
  <1> DEFINE r == IF s.state = "resuming" THEN s ELSE Enter(s, "resuming")
  <1> HIDE DEF s
  <1>3. /\ r \in ShutoffState /\ r.state = "resuming"
        /\ r.owned = s.owned /\ r.simulated = s.simulated
    BY ZenonT(60), <1>1, EnterType DEF Enter, ShutoffState, ShutoffStates
  <1>4. s.owned => ~r.simulated
    BY <1>1, <1>3 DEF Consistent
  <1> HIDE DEF r
  <1>5. s.owned => Consistent([r EXCEPT !.resume_sent = 0, !.last_resume = 0], mode)
    <2> SUFFICES ASSUME s.owned
                 PROVE  Consistent([r EXCEPT !.resume_sent = 0, !.last_resume = 0], mode)
      OBVIOUS
    <2>1. r.owned /\ ~r.simulated
      BY <1>3, <1>4
    <2> QED
      BY <1>3, <2>1 DEF Consistent, ShutoffState, None
  <1>6. s.owned => Consistent(t, mode)
    BY <1>5 DEF r
  <1> USE DEF s
  <1>7. ReleaseSend(i) => s.owned /\ Decides("release", t)
    BY <1>1 DEF ReleaseSend, ReleaseDue
  <1>8. CASE ReleaseSend(i)
    BY <1>6, <1>7, <1>8, DecidesConsistent
  <1>9. CASE ~ReleaseSend(i)
    BY <1>1, <1>2, <1>9, DecidesConsistent DEF ReleaseConfirmed, ReleasePending, Disabled
  <1> QED
    BY <1>8, <1>9

\* decide() in RUNNING and DWELL.
LEMMA WatchConsistent ==
    ASSUME Owned, NEW i,
           ReclaimAdopted(i) \/ KeepRunning(i) \/ KeepDwelling(i) \/ TakeStop(i)
    PROVE  OwnershipInv'
  <1>1. /\ Observed(i) \in ShutoffState /\ Consistent(Observed(i), mode)
        /\ Current(i) \in ShutoffState /\ Consistent(Current(i), mode)
    BY ObservedType, CurrentType, AlikeBranches, AlikeConsistent DEF Owned, TypeOK, OwnershipInv
  <1>2. /\ shutoff.state \in {"running", "dwell"}
        /\ Observed(i).state = shutoff.state /\ Current(i).state = shutoff.state
    BY AlikeBranches
       DEF ReclaimAdopted, KeepRunning, KeepDwelling, TakeStop, NothingToReclaim,
           Watching, Alike, Owned, TypeOK
  <1>3. CASE ReclaimAdopted(i)
    <2> DEFINE t == [Enter(Observed(i), "stopped") EXCEPT
                       !.owned = TRUE, !.suppressed = FALSE, !.adopted = None,
                       !.mining_polls = 0, !.reasserts = 0, !.reasserted = None]
    <2>1. Consistent(t, mode)
      BY <1>1, <1>2 DEF Enter, Consistent, ShutoffState
    <2> QED
      BY <1>3, <2>1, DecidesConsistent DEF ReclaimAdopted
  <1>4. CASE KeepRunning(i)
    BY <1>1, <1>4, RunningConsistent, DecidesConsistent DEF KeepRunning
  <1>5. CASE KeepDwelling(i) \/ TakeStop(i)
    <2>1. Trigger(Current(i), i) # "none"
      BY <1>5 DEF KeepDwelling, TakeStop
    <2> DEFINE c == Current(i)
               d == Trigger(c, i)
    <2>2. d # "none" /\ ~c.owned /\ ~c.simulated /\ c.state \in {"running", "dwell"}
      BY <1>1, <1>2, <2>1 DEF Consistent
    <2>3. Dwelling(i) \in ShutoffState
      BY DwellingType DEF Owned, TypeOK
    <2>4. Dwelling(i) = IF c.state = "running"
                        THEN [Enter(c, "dwell") EXCEPT !.dwell_start = 0, !.dwell_trigger = d]
                        ELSE [c EXCEPT !.dwell_trigger = d]
      BY DEF Dwelling
    <2> HIDE DEF c, d
    <2>5. /\ c \in ShutoffState /\ Consistent(c, mode)
      BY <1>1 DEF c
    <2> DEFINE Fits == Consistent(Dwelling(i), mode) /\ ~Dwelling(i).owned
                         /\ ~Dwelling(i).simulated
    <2>6. c.state = "running" => Fits
      <3> HAVE c.state = "running"
      <3>1. Dwelling(i) = [Enter(c, "dwell") EXCEPT !.dwell_start = 0, !.dwell_trigger = d]
        BY <2>4
      <3> QED
        BY <2>2, <2>5, <3>1 DEF Enter, Consistent, ShutoffState, None
    <2>7. c.state = "dwell" => Fits
      <3> HAVE c.state = "dwell"
      <3>1. Dwelling(i) = [c EXCEPT !.dwell_trigger = d]
        BY <2>4
      <3> QED
        BY <2>2, <2>5, <3>1 DEF Consistent, ShutoffState
    <2>8. Dwelling(i) \in ShutoffState /\ Consistent(Dwelling(i), mode)
          /\ ~Dwelling(i).owned /\ ~Dwelling(i).simulated
      BY <2>2, <2>3, <2>6, <2>7
    <2> DEFINE s == [Enter(Dwelling(i), "stopped") EXCEPT
                      !.stop_failed = None, !.mining_polls = 0, !.reasserts = 0,
                      !.reasserted = None, !.adopted = None, !.call_polls = 0,
                      !.unknown_since = None]
    <2>9. /\ mode = "observe" => Consistent([s EXCEPT !.simulated = TRUE, !.owned = FALSE], mode)
          /\ Consistent([s EXCEPT !.owned = TRUE], mode)
      BY <2>8 DEF Enter, Consistent, ShutoffState
    <2> QED
      BY <1>5, <2>8, <2>9, DecidesConsistent DEF KeepDwelling, TakeStop
  <1> QED
    BY <1>3, <1>4, <1>5

\* decide() in STOPPED with the miner hashing.
LEMMA HashingConsistent ==
    ASSUME Owned, NEW i,
           \/ StopRetryPending(i) \/ StopRetryAbandoned(i) \/ StopRetrySend(i)
           \/ ConfirmHashing(i) \/ TreatAsResumed(i)
           \/ Reassert(i) \/ Adopt(i) \/ ReassertPending(i)
    PROVE  OwnershipInv'
  <1> DEFINE c == Counted(i)
  <1>1. /\ Observed(i) \in ShutoffState /\ Consistent(Observed(i), mode)
        /\ c \in ShutoffState /\ Consistent(c, mode)
    BY ObservedType, CountedType, AlikeBranches, AlikeConsistent
       DEF Owned, TypeOK, OwnershipInv
  <1>2. [Observed(i) EXCEPT !.last_resume = 0] \in ShutoffState
    BY <1>1, AgeFacts, HorizonsAreNat DEF ShutoffState
  <1>3. Consistent(TakenAsResumed(i), mode)
    BY <1>2, RunningConsistent DEF TakenAsResumed
  <1>4. Consistent([Observed(i) EXCEPT !.stop_failed = 0], mode)
    BY <1>1 DEF Consistent, ShutoffState
  <1>5. Consistent([c EXCEPT !.reasserts = @ + 1, !.reasserted = 0], mode)
    BY <1>1 DEF Consistent, ShutoffState
  <1>6. Consistent([ToRunning(c) EXCEPT !.suppressed = TRUE, !.adopted = 0], mode)
    BY <1>1, ToRunningType, RunningConsistent DEF Consistent, ShutoffState
  <1> QED
    BY <1>1, <1>3, <1>4, <1>5, <1>6, DecidesConsistent
       DEF StopRetryPending, StopRetryAbandoned, StopRetrySend, ConfirmHashing,
           TreatAsResumed, Reassert, Adopt, ReassertPending

\* decide() in STOPPED with the miner quiet.
LEMMA RestingConsistent ==
    ASSUME Owned, NEW i,
           \/ FreezeWaitsForCool(i) \/ FreezeResume(i) \/ UnknownFreezeResume(i)
           \/ DemandResume(i) \/ StayStopped(i)
    PROVE  OwnershipInv'
  <1>1. shutoff.state = "stopped"
    BY DEF FreezeWaitsForCool, FreezeResume, UnknownFreezeResume, DemandResume,
           StayStopped, DemandDecides, Resting, Holding
  <1>2. /\ Landed(i) \in ShutoffState /\ Consistent(Landed(i), mode)
        /\ Polled(i) \in ShutoffState /\ Consistent(Polled(i), mode)
        /\ Landed(i).state = "stopped" /\ Polled(i).state = "stopped"
    BY <1>1, LandedType, PolledType, AlikeBranches, AlikeConsistent
       DEF Owned, TypeOK, OwnershipInv, Alike
  <1> QED
    BY <1>2, DecidesConsistent, ResumeConsistent
       DEF FreezeWaitsForCool, FreezeResume, UnknownFreezeResume, DemandResume, StayStopped

\* decide() in RESUMING.
LEMMA AwaitConsistent ==
    ASSUME Owned, NEW i,
           ResumeConfirmed(i) \/ ResumeRetry(i) \/ ResumePending(i)
    PROVE  OwnershipInv'
  <1>1. Observed(i) \in ShutoffState /\ Consistent(Observed(i), mode)
    BY ObservedType, AlikeBranches, AlikeConsistent DEF Owned, TypeOK, OwnershipInv
  <1>2. Consistent(ToRunning(Observed(i)), mode)
    BY <1>1, RunningConsistent
  <1>3. Consistent([Observed(i) EXCEPT !.resume_sent = 0], mode)
    BY <1>1 DEF Consistent, ShutoffState, None
  <1> QED
    BY <1>1, <1>2, <1>3, DecidesConsistent DEF ResumeConfirmed, ResumeRetry, ResumePending

\* A tick neither sets nor clears a timestamp.
LEMMA OlderNone ==
    ASSUME NEW h \in Nat, NEW a \in Age(h)
    PROVE  Older(a, h) = None <=> a = None
  BY DEF Older, Age, None

\* Ownership of a stop (demand_shutoff.py's owned, simulated and state): for
\* every configuration, and every order of polls, user actions, failed sends
\* and restarts, only a real stop or its resume is owned, and a simulated stop
\* never outlives observe mode.
THEOREM Ownership == Spec => []OwnershipInv
  <1>1. Init => OwnershipInv
    BY DEF Init, OwnershipInv, Consistent, InitialState
  <1>2. Owned /\ [Next]_vars => OwnershipInv'
    <2> SUFFICES ASSUME Owned, [Next]_vars PROVE OwnershipInv'
      OBVIOUS
    <2>1. CASE Poll
      BY <2>1, LatchConsistent, ReleaseConsistent, WatchConsistent, HashingConsistent,
         RestingConsistent, AwaitConsistent DEF Poll, Decide
    <2>2. CASE UserMiningOn \/ UserMiningOff \/ LockoutReset
      <3>1. Disowned(shutoff) \in ShutoffState /\ Consistent(Disowned(shutoff), mode)
        BY DisownedType, RunningConsistent DEF Owned, TypeOK
      <3>2. Consistent([Disowned(shutoff) EXCEPT !.suppressed = TRUE], mode)
        BY <3>1 DEF Consistent, ShutoffState
      <3> QED
        BY <2>2, <3>1, <3>2 DEF UserMiningOn, UserMiningOff, LockoutReset, Sets, OwnershipInv
    <2>3. CASE StopSendFailed
      BY <2>3 DEF StopSendFailed, Sets, Owned, OwnershipInv, TypeOK, Consistent, ShutoffState
    <2>4. CASE ResumeSendFailed
      <3>1. ResumeHorizon - PowerOnRetry # None
        BY HorizonsAreNat DEF None
      <3> QED
        BY <2>4, <3>1 DEF ResumeSendFailed, PowerOnFailed, Sets, Owned, OwnershipInv,
                          TypeOK, Consistent, ShutoffState
    <2>5. CASE Restart
      BY ZenonT(60), <2>5 DEF Restart, Restored, InitialState, Owned, OwnershipInv, TypeOK,
                  Consistent, ShutoffState
    <2>6. CASE Tick
      <3>1. /\ Aged(shutoff).resume_sent = None <=> shutoff.resume_sent = None
            /\ Aged(shutoff).dwell_start = None <=> shutoff.dwell_start = None
        BY OlderNone, HorizonsAreNat DEF Aged, Owned, TypeOK, ShutoffState
      <3>2. /\ Aged(shutoff).state = shutoff.state /\ Aged(shutoff).owned = shutoff.owned
            /\ Aged(shutoff).simulated = shutoff.simulated
            /\ Aged(shutoff).dwell_trigger = shutoff.dwell_trigger
        BY DEF Aged, Owned, TypeOK, ShutoffState
      <3> QED
        BY <2>6, <3>1, <3>2 DEF Tick, Sets, Owned, OwnershipInv, Consistent
    <2>7. CASE UNCHANGED vars
      BY <2>7 DEF vars, Owned, OwnershipInv, Consistent
    <2> QED
      BY <2>1, <2>2, <2>3, <2>4, <2>5, <2>6, <2>7 DEF Next
  <1> QED
    BY <1>1, <1>2, TypeCorrect, PTL DEF Spec, Owned

(***************************************************************************)
(* Reasserts.  Only a stop that is being held counts them, and a stop's    *)
(* since is only ever set by Enter.                                        *)
(***************************************************************************)

\* n intervals and the one still running fit the horizon of since.
LEMMA SpacingFits ==
    ASSUME NEW n \in 1..ReassertMax, NEW a \in 0..ReassertInterval
    PROVE  /\ ReassertAge(n - 1) + a <= SinceHorizon
           /\ ReassertAge(n) = ReassertAge(n - 1) + ReassertInterval
           /\ ReassertAge(n - 1) \in Int /\ ReassertAge(n) \in Int
  <1> USE HorizonsAreNat
  <1>1. n * ReassertInterval = (n - 1) * ReassertInterval + ReassertInterval
    OBVIOUS
  <1>2. n * ReassertInterval <= ReassertMax * ReassertInterval
    <2>1. (ReassertMax - n) * ReassertInterval >= 0
      OBVIOUS
    <2> QED
      BY <2>1
  <1>3. (n - 1) * ReassertInterval \in Int /\ n * ReassertInterval \in Int
        /\ ReassertMax * ReassertInterval \in Int
    OBVIOUS
  <1>4. SinceHorizon >= ReassertMinAge + 1 + ReassertMax * ReassertInterval
    BY <1>3, ShutoffAssumption DEF SinceHorizon, Larger, Durations
  <1> QED
    BY <1>1, <1>2, <1>3, <1>4 DEF ReassertAge

\* Nothing to show unless a stop is held and has been reasserted.
LEMMA NotHeldSpaced ==
    ASSUME NEW s, s.state # "stopped" \/ s.reasserts = 0
    PROVE  Spaced(s)
  BY DEF Spaced

\* The fields Spaced reads, unless no reassert has been counted.
SameCount(r, s) ==
    /\ r.state = s.state /\ r.since = s.since
    /\ \/ r.reasserts = s.reasserts /\ r.reasserted = s.reasserted
       \/ r.reasserts = 0

\* Spaced reads nothing but what SameCount compares.
LEMMA SameCountSpaced ==
    ASSUME NEW r, NEW s, SameCount(r, s), Spaced(s)
    PROVE  Spaced(r)
  BY DEF SameCount, Spaced

\* No update before the decision counts a reassert.
LEMMA SameCountBranches ==
    ASSUME shutoff \in ShutoffState, NEW i
    PROVE  /\ SameCount(Observed(i), shutoff) /\ SameCount(Counted(i), shutoff)
           /\ SameCount(Landed(i), shutoff) /\ SameCount(Polled(i), shutoff)
  <1>1. SameCount(Observed(i), shutoff)
    BY DEF SameCount, Observed, ShutoffState
  <1>2. SameCount(Counted(i), Observed(i))
    BY ObservedType DEF SameCount, Counted, ShutoffState
  <1>3. SameCount(Landed(i), Observed(i))
    BY ObservedType DEF SameCount, Landed, ShutoffState
  <1>4. SameCount(Polled(i), Landed(i))
    BY LandedType DEF SameCount, Polled, ShutoffState
  <1> QED
    BY <1>1, <1>2, <1>3, <1>4 DEF SameCount

\* A stop given up is not held.
LEMMA RunningNotHeld ==
    ASSUME NEW s \in ShutoffState
    PROVE  ToRunning(s).state = "running" /\ Disowned(s).state = "running"
  BY DEF ToRunning, Disowned, Enter, ShutoffState

\* A decision on a spaced state establishes the invariant.
LEMMA DecidesSpaced ==
    ASSUME NEW a, NEW s, Decides(a, s), Spaced(s)
    PROVE  ReassertsSpaced'
  BY DEF Decides, ReassertsSpaced, Spaced

\* The inductive invariant of the reassert proofs.
Counting == TypeOK /\ ReassertsSpaced

\* When the next reassert, or the adoption, is due.
LEMMA DueAge ==
    ASSUME Counting, NEW i, HashingConfirmed(i), ReassertDue
    PROVE  shutoff.since >= ReassertAge(shutoff.reasserts)
  <1>1. /\ shutoff.state = "stopped"
        /\ Elapsed(shutoff.since) > ReassertMinAge
    BY DEF HashingConfirmed, HashingUnexplained, HashingAgainstStop, Holding
  <1>2. shutoff.since \in Age(SinceHorizon) /\ shutoff.reasserts \in 0..ReassertMax
        /\ shutoff.reasserted \in Age(ReassertInterval)
    BY DEF Counting, TypeOK, ShutoffState
  <1>3. CASE shutoff.reasserts = 0
    <2>1. ReassertAge(0) = ReassertMinAge + 1
      BY HorizonsAreNat DEF ReassertAge
    <2> QED
      BY <1>1, <1>2, <1>3, <2>1, HorizonsAreNat DEF Elapsed, Age, None
  <1>4. CASE shutoff.reasserts # 0
    <2> DEFINE n == shutoff.reasserts
    <2>1. n \in 1..ReassertMax /\ n > 0
      BY <1>2, <1>4, HorizonsAreNat
    <2>2. /\ shutoff.reasserted # None
          /\ shutoff.since >= ReassertAge(n - 1) + shutoff.reasserted
      BY <1>1, <2>1 DEF Counting, ReassertsSpaced, Spaced
    <2>3. shutoff.reasserted = ReassertInterval
      BY <1>2, <2>2, HorizonsAreNat DEF ReassertDue, Age, None
    <2>4. /\ ReassertAge(n) = ReassertAge(n - 1) + ReassertInterval
          /\ ReassertAge(n - 1) \in Int
      BY <2>1, HorizonsAreNat, SpacingFits
    <2> QED
      BY <2>2, <2>3, <2>4
  <1> QED
    BY <1>3, <1>4

\* decide() keeps the reasserts spaced, branch by branch.
LEMMA PollSpaced ==
    ASSUME Counting, NEW i, Decide(i)
    PROVE  ReassertsSpaced'
  <1> DEFINE o == Observed(i)
             c == Counted(i)
  <1>1. /\ o \in ShutoffState /\ c \in ShutoffState
        /\ Landed(i) \in ShutoffState /\ Polled(i) \in ShutoffState
    BY ObservedType, CountedType, LandedType, PolledType DEF Counting, TypeOK
  <1>2. /\ Spaced(o) /\ Spaced(c) /\ Spaced(Landed(i)) /\ Spaced(Polled(i))
    BY SameCountBranches, SameCountSpaced DEF Counting, TypeOK, ReassertsSpaced
  <1>3. \A s \in ShutoffState : Spaced(ToRunning(s))
    BY RunningNotHeld, NotHeldSpaced
  <1>4. CASE LatchedHold(i) \/ Disabled(i) \/ ReleaseConfirmed(i) \/ ReleasePending(i)
             \/ ResumeConfirmed(i) \/ ResumePending(i)
    BY <1>1, <1>2, <1>3, <1>4, DecidesSpaced
       DEF LatchedHold, Disabled, ReleaseConfirmed, ReleasePending, ResumeConfirmed,
           ResumePending
  <1>5. CASE LatchedFreeze(i)
    <2> DEFINE r == IF o.state # "running" \/ o.owned THEN ToRunning(o) ELSE o
               t == [Enter(r, "resuming") EXCEPT !.owned = TRUE, !.resume_sent = 0,
                                                 !.last_resume = 0]
    <2>1. r \in ShutoffState
      BY <1>1, ToRunningType
    <2>2. t.state = "resuming"
      BY <2>1 DEF Enter, ShutoffState
    <2> QED
      BY <1>5, <2>2, NotHeldSpaced, DecidesSpaced DEF LatchedFreeze
  <1>6. CASE ReleaseSend(i)
    <2> DEFINE r == IF o.state = "resuming" THEN o ELSE Enter(o, "resuming")
               t == [r EXCEPT !.resume_sent = 0, !.last_resume = 0]
    <2>1. t.state = "resuming"
      BY <1>1 DEF Enter, ShutoffState
    <2> QED
      BY <1>6, <2>1, NotHeldSpaced, DecidesSpaced DEF ReleaseSend
  <1>7. CASE ReclaimAdopted(i)
    <2> DEFINE t == [Enter(o, "stopped") EXCEPT
                       !.owned = TRUE, !.suppressed = FALSE, !.adopted = None,
                       !.mining_polls = 0, !.reasserts = 0, !.reasserted = None]
    <2>1. t.reasserts = 0
      BY <1>1 DEF Enter, ShutoffState
    <2> QED
      BY <1>7, <2>1, NotHeldSpaced, DecidesSpaced DEF ReclaimAdopted
  <1>8. CASE KeepRunning(i) \/ KeepDwelling(i)
    <2>1. /\ shutoff.state \in {"running", "dwell"}
          /\ Current(i) \in ShutoffState /\ Current(i).state = shutoff.state
          /\ Dwelling(i) \in ShutoffState
      BY <1>8, CurrentType, DwellingType, AlikeBranches
         DEF Alike, KeepRunning, KeepDwelling, NothingToReclaim, Watching, Counting, TypeOK
    <2>2. Spaced(Current(i))
      BY <2>1, NotHeldSpaced
    <2>3. Dwelling(i).state \in {"running", "dwell"}
      BY <2>1 DEF Dwelling, Enter, ShutoffState
    <2>4. Spaced(Dwelling(i))
      BY <2>3, NotHeldSpaced
    <2> QED
      BY <1>3, <1>8, <2>1, <2>2, <2>4, DecidesSpaced DEF KeepRunning, KeepDwelling
  <1>9. CASE TakeStop(i)
    <2> DEFINE s == [Enter(Dwelling(i), "stopped") EXCEPT
                      !.stop_failed = None, !.mining_polls = 0, !.reasserts = 0,
                      !.reasserted = None, !.adopted = None, !.call_polls = 0,
                      !.unknown_since = None]
    <2>1. Dwelling(i) \in ShutoffState
      BY DwellingType DEF Counting, TypeOK
    <2>2. [s EXCEPT !.simulated = TRUE, !.owned = FALSE].reasserts = 0
          /\ [s EXCEPT !.owned = TRUE].reasserts = 0
      BY <2>1 DEF Enter, ShutoffState
    <2> QED
      BY <1>9, <2>2, NotHeldSpaced, DecidesSpaced DEF TakeStop
  <1>10. CASE StopRetryPending(i) \/ StopRetryAbandoned(i) \/ StopRetrySend(i)
              \/ ConfirmHashing(i) \/ TreatAsResumed(i) \/ ReassertPending(i)
    <2>1. [o EXCEPT !.last_resume = 0] \in ShutoffState
      BY <1>1, AgeFacts, HorizonsAreNat DEF ShutoffState
    <2>2. Spaced(TakenAsResumed(i))
      BY <1>3, <2>1 DEF TakenAsResumed
    <2>3. SameCount([o EXCEPT !.stop_failed = 0], o)
      BY <1>1 DEF SameCount, ShutoffState
    <2>4. Spaced([o EXCEPT !.stop_failed = 0])
      BY <1>2, <2>3, SameCountSpaced
    <2> QED
      BY <1>2, <1>10, <2>2, <2>4, DecidesSpaced
         DEF StopRetryPending, StopRetryAbandoned, StopRetrySend, ConfirmHashing,
             TreatAsResumed, ReassertPending
  <1>11. CASE Reassert(i)
    <2> DEFINE n == shutoff.reasserts
               t == [c EXCEPT !.reasserts = @ + 1, !.reasserted = 0]
    <2>1. shutoff.since >= ReassertAge(n) /\ n \in 0..ReassertMax /\ n < ReassertMax
      BY <1>11, DueAge DEF Reassert, Counting, TypeOK, ShutoffState
    <2>2. c.reasserts = n /\ c.since = shutoff.since
      BY ObservedType DEF Counted, Observed, Counting, TypeOK, ShutoffState
    <2>3. t.reasserts = n + 1 /\ t.reasserted = 0 /\ t.since = shutoff.since
      BY <1>1, <2>2 DEF ShutoffState
    <2>4. (n + 1) - 1 = n /\ ReassertAge(n) \in Int
      <3>1. n + 1 \in 1..ReassertMax /\ 0 \in 0..ReassertInterval /\ (n + 1) - 1 = n
        BY <2>1, HorizonsAreNat
      <3> QED
        BY <3>1, SpacingFits
    <2>5. ReassertAge(t.reasserts - 1) + t.reasserted = ReassertAge(n)
      BY <2>3, <2>4
    <2> HIDE DEF t
    <2>6. Spaced(t)
      BY <2>1, <2>3, <2>5 DEF Spaced, None
    <2> USE DEF t
    <2> QED
      BY <1>11, <2>6, DecidesSpaced DEF Reassert
  <1>12. CASE Adopt(i)
    <2>1. [ToRunning(c) EXCEPT !.suppressed = TRUE, !.adopted = 0].state = "running"
      BY <1>1, ToRunningType, RunningNotHeld DEF ShutoffState
    <2> QED
      BY <1>12, <2>1, NotHeldSpaced, DecidesSpaced DEF Adopt
  <1>13. CASE FreezeWaitsForCool(i) \/ StayStopped(i)
    BY <1>2, <1>13, DecidesSpaced DEF FreezeWaitsForCool, StayStopped
  <1>14. CASE FreezeResume(i) \/ UnknownFreezeResume(i) \/ DemandResume(i)
    <2>1. ASSUME NEW s \in ShutoffState, Resume(s) PROVE ReassertsSpaced'
      <3> DEFINE r == [s EXCEPT !.call_polls = 0, !.unknown_since = None, !.last_resume = 0]
      <3>1. r \in ShutoffState
        BY ZeroCounts, AgeFacts, HorizonsAreNat DEF ShutoffState
      <3>2. Spaced(ToRunning(r))
        BY <1>3, <3>1
      <3>3. [Enter(r, "resuming") EXCEPT !.resume_sent = 0].state = "resuming"
        BY DEF Enter, ShutoffState
      <3> QED
        BY <2>1, <3>2, <3>3, NotHeldSpaced, DecidesSpaced DEF Resume
    <2> QED
      BY <1>1, <1>14, <2>1 DEF FreezeResume, UnknownFreezeResume, DemandResume
  <1>15. CASE ResumeRetry(i)
    <2>1. SameCount([o EXCEPT !.resume_sent = 0], o)
      BY <1>1 DEF SameCount, ShutoffState
    <2> QED
      BY <1>2, <1>15, <2>1, SameCountSpaced, DecidesSpaced DEF ResumeRetry
  <1> QED
    BY <1>4, <1>5, <1>6, <1>7, <1>8, <1>9, <1>10, <1>11, <1>12, <1>13, <1>14, <1>15
       DEF Decide

\* So does a tick, which ages the stop and its last reassert alike.
LEMMA TickSpaced ==
    ASSUME Counting
    PROVE  Spaced(Aged(shutoff))
  <1> DEFINE t == Aged(shutoff)
             n == shutoff.reasserts
  <1>1. /\ t.state = shutoff.state /\ t.reasserts = n
        /\ t.since = Older(shutoff.since, SinceHorizon)
        /\ t.reasserted = Older(shutoff.reasserted, ReassertInterval)
    BY DEF Aged, Counting, TypeOK, ShutoffState
  <1>2. /\ shutoff.since \in Age(SinceHorizon) /\ n \in 0..ReassertMax
        /\ shutoff.reasserted \in Age(ReassertInterval)
    BY DEF Counting, TypeOK, ShutoffState
  <1> HIDE DEF t
  <1>3. SUFFICES ASSUME shutoff.state = "stopped", n > 0
                 PROVE  /\ t.reasserted # None
                        /\ t.since >= ReassertAge(n - 1) + t.reasserted
    BY <1>1 DEF Spaced, t
  <1>4. n \in 1..ReassertMax
    BY <1>2, <1>3, HorizonsAreNat
  <1>5. /\ shutoff.reasserted # None
        /\ shutoff.since >= ReassertAge(n - 1) + shutoff.reasserted
    BY <1>3 DEF Counting, ReassertsSpaced, Spaced
  <1>6. /\ t.reasserted \in 0..ReassertInterval
        /\ t.reasserted <= shutoff.reasserted + 1
    BY <1>1, <1>2, <1>5, HorizonsAreNat DEF Older, Age, None
  <1>7. ReassertAge(n - 1) \in Int /\ ReassertAge(n - 1) + t.reasserted <= SinceHorizon
        /\ ReassertAge(n - 1) >= 0
    <2>1. (n - 1) * ReassertInterval \in Nat
      BY <1>4, HorizonsAreNat
    <2>2. ReassertAge(n - 1) >= 0
      BY <2>1, HorizonsAreNat DEF ReassertAge
    <2> QED
      BY <1>4, <1>6, <2>2, SpacingFits
  <1>8. shutoff.since \in 0..SinceHorizon /\ shutoff.reasserted \in 0..ReassertInterval
    BY <1>2, <1>5, <1>7, HorizonsAreNat DEF Age, None
  <1>9. t.since = SinceHorizon \/ t.since = shutoff.since + 1
    BY <1>1, <1>8, HorizonsAreNat DEF Older, None
  <1> QED
    BY <1>5, <1>6, <1>7, <1>8, <1>9, HorizonsAreNat DEF None

\* So does every other step.
LEMMA CountingStep == Counting /\ [Next]_vars => ReassertsSpaced'
  <1> SUFFICES ASSUME Counting, [Next]_vars PROVE ReassertsSpaced'
    OBVIOUS
  <1>1. CASE Poll
    BY <1>1, PollSpaced DEF Poll
  <1>2. CASE UserMiningOn \/ UserMiningOff \/ LockoutReset
    <2>1. /\ Disowned(shutoff).state = "running"
          /\ [Disowned(shutoff) EXCEPT !.suppressed = TRUE].state = "running"
      BY DisownedType, RunningNotHeld DEF Counting, TypeOK, ShutoffState
    <2> QED
      BY <1>2, <2>1, NotHeldSpaced
         DEF UserMiningOn, UserMiningOff, LockoutReset, Sets, ReassertsSpaced, Spaced
  <1>3. CASE StopSendFailed
    <2>1. SameCount([shutoff EXCEPT !.stop_failed = 0], shutoff)
      BY DEF SameCount, Counting, TypeOK, ShutoffState
    <2> QED
      BY <1>3, <2>1, SameCountSpaced DEF StopSendFailed, Sets, Counting, ReassertsSpaced, Spaced
  <1>4. CASE ResumeSendFailed
    <2>1. SameCount(PowerOnFailed(shutoff), shutoff)
      BY DEF SameCount, PowerOnFailed, Counting, TypeOK, ShutoffState
    <2> QED
      BY <1>4, <2>1, SameCountSpaced DEF ResumeSendFailed, Sets, Counting, ReassertsSpaced, Spaced
  <1>5. CASE Restart
    BY <1>5 DEF Restart, Restored, InitialState, Counting, TypeOK, ReassertsSpaced,
                Spaced, ShutoffState
  <1>6. CASE Tick
    BY <1>6, TickSpaced DEF Tick, Sets, ReassertsSpaced, Spaced
  <1>7. CASE UNCHANGED vars
    BY <1>7 DEF vars, Counting, ReassertsSpaced, Spaced
  <1> QED
    BY <1>1, <1>2, <1>3, <1>4, <1>5, <1>6, <1>7 DEF Next

\* The reasserts of a stop (demand_shutoff.py's reassert_count, reasserted_at
\* and since) are spaced by a full interval and start after the minimum age,
\* for every configuration and whatever interleaves with the polls.
THEOREM ReassertSpacing == Spec => []ReassertsSpaced
  <1>1. Init => ReassertsSpaced
    BY DEF Init, InitialState, ReassertsSpaced, Spaced
  <1> QED
    BY <1>1, CountingStep, TypeCorrect, PTL DEF Spec, Counting

\* Which branch of decide() each command comes from.
LEMMA WhoActs ==
    ASSUME NEW i, Decide(i)
    PROVE  /\ action' = "stop"     => TakeStop(i) \/ StopRetrySend(i)
           /\ action' = "reassert" => Reassert(i)
           /\ action' = "adopt"    => Adopt(i)
           /\ action' = "release"  => ReleaseSend(i)
           /\ action' = "unlatch"  => LatchedFreeze(i)
           /\ action' = "resume"   => \/ FreezeResume(i) \/ UnknownFreezeResume(i)
                                     \/ DemandResume(i) \/ ResumeRetry(i)
  BY DEF Decide, Decides, Resume, LatchedHold, LatchedFreeze, ReleaseConfirmed,
         ReleasePending, ReleaseSend, Disabled, ReclaimAdopted, KeepRunning,
         KeepDwelling, TakeStop, StopRetryPending, StopRetryAbandoned,
         StopRetrySend, ConfirmHashing, TreatAsResumed, Reassert, Adopt,
         ReassertPending, FreezeWaitsForCool, FreezeResume, UnknownFreezeResume,
         DemandResume, StayStopped, ResumeConfirmed, ResumeRetry, ResumePending

\* A miner found hashing is adopted only when every reassert has been sent and
\* given its interval: the slow stop of our own that the constants of
\* demand_shutoff.py are chosen for is never taken for an external start.
THEOREM AdoptionIsLate == Spec => AdoptOnlyAfterReasserts
  <1> DEFINE Late == action' = "adopt" => shutoff.since >= ReassertAge(ReassertMax)
  <1>1. Counting /\ [Next]_vars => [Late]_vars
    <2> SUFFICES ASSUME Counting, Next, action' = "adopt"
                 PROVE  shutoff.since >= ReassertAge(ReassertMax)
      OBVIOUS
    <2>1. PICK i \in Inputs : Decide(i)
      BY DEF Next, Poll, UserMiningOn, UserMiningOff, LockoutReset, StopSendFailed,
             ResumeSendFailed, Restart, Tick, Sets
    <2>2. Adopt(i)
      BY <2>1, WhoActs
    <2>3. shutoff.reasserts = ReassertMax
      BY <2>2, HorizonsAreNat DEF Adopt, Counting, TypeOK, ShutoffState
    <2> QED
      BY <2>2, <2>3, DueAge DEF Adopt
  <1> QED
    BY <1>1, ReassertSpacing, TypeCorrect, PTL DEF Spec, Counting, AdoptOnlyAfterReasserts

(***************************************************************************)
(* The history.  It follows the steps of the shutoff and restricts none,   *)
(* so that what was proved of them holds of it.                            *)
(***************************************************************************)

\* A step of the history is a step of the shutoff.
LEMMA HistoryStep == [HistoryNext]_HistoryVars => [Next]_vars
  BY DEF HistoryNext, HistoryVars, Next, Poll, vars

\* What the proofs below know of every state.
LEMMA HistoryOwned == HistorySpec => []Owned
  <1>1. HistorySpec => Spec
    BY HistoryStep, PTL DEF HistorySpec, HistoryInit, Spec
  <1> QED
    BY <1>1, TypeCorrect, Ownership, PTL DEF Owned

\* A command, and the loss of an owned stop that is noted, come of a poll.
LEMMA ActsOnPoll ==
    ASSUME [HistoryNext]_HistoryVars, ~UNCHANGED HistoryVars, "grounds" \in Watched,
           action' # "none" \/ seen'.grounds # "none"
    PROVE  \E i \in Inputs : Decide(i) /\ Note(i)
  BY DEF HistoryNext, NoteOther, NoteTick, UserMiningOn, UserMiningOff, LockoutReset,
         StopSendFailed, ResumeSendFailed, Restart, Tick, Sets

\* What an observer notes of a poll that led to a command or gave up a stop.
LEMMA NotedGrounds ==
    ASSUME NEW i, Note(i), "grounds" \in Watched,
           action' # "none" \/ (shutoff.owned /\ ~shutoff'.owned)
    PROVE  seen'.grounds = GroundsOf(i)
  BY DEF Note

\* Both calls that power the miner off look at the thermostats, the freeze guard
\* and the age of the poll first.
LEMMA QuietStops ==
    ASSUME NEW i, TakeStop(i) \/ StopRetrySend(i) \/ Reassert(i)
    PROVE  SeenMining(i) /\ ~HeatWanted(i)
  <1>1. CASE TakeStop(i)
    <2>1. SeenMining(i) /\ i.freeze # "active"
      BY <1>1 DEF TakeStop, StopBlocked, FreezeBlocks
    <2>2. i.summary # "calling"
      BY <1>1 DEF TakeStop, Trigger, SupplyTrigger
    <2> QED
      BY <2>1, <2>2 DEF HeatWanted
  <1>2. CASE StopRetrySend(i)
    BY <1>2 DEF StopRetrySend, HashingAgainstStop
  <1>3. CASE Reassert(i)
    BY <1>3 DEF Reassert, HashingConfirmed, HashingUnexplained, HashingAgainstStop
  <1> QED
    BY <1>1, <1>2, <1>3

\* Whatever the shutoff is in the middle of, and through every restart, no branch
\* of decide() powers the miner off on a poll that shows heat wanted, a freeze,
\* or stale data.
THEOREM NoStopAgainstHeat ==
    ASSUME "grounds" \in Watched
    PROVE  HistorySpec => NoPowerOffWhenHeatWanted
  <1> DEFINE Calm == PowersOff => seen'.grounds = "quiet"
  <1>1. [HistoryNext]_HistoryVars => [Calm]_HistoryVars
    <2> SUFFICES ASSUME [HistoryNext]_HistoryVars, ~UNCHANGED HistoryVars, PowersOff
                 PROVE  seen'.grounds = "quiet"
      OBVIOUS
    <2>1. PICK i \in Inputs : Decide(i) /\ Note(i)
      BY ActsOnPoll DEF PowersOff
    <2>2. SeenMining(i) /\ ~HeatWanted(i)
      BY <2>1, WhoActs, QuietStops DEF PowersOff
    <2>3. seen'.grounds = GroundsOf(i)
      BY <2>1, NotedGrounds DEF PowersOff
    <2> QED
      BY <2>2, <2>3 DEF GroundsOf, SeenMining, HeatWanted
  <1> QED
    BY <1>1, PTL DEF HistorySpec, NoPowerOffWhenHeatWanted

\* Outside active mode a stop is under way only in simulation, or is about to be
\* released.
LEMMA PassiveOwned ==
    ASSUME Owned, mode # "active", NEW i, Enabled(i)
    PROVE  ~shutoff.owned \/ shutoff.simulated
  BY ShutoffAssumption DEF Owned, TypeOK, Enabled, ReleaseDue

\* Outside active mode the shutoff gives heat back and does nothing else,
\* whatever it was in the middle of when it was switched over.
THEOREM PassiveModesRestore == HistorySpec => PassiveModesOnlyRestore
  <1> DEFINE Restores ==
        mode' # "active" =>
            /\ action' \notin {"stop", "reassert", "adopt", "resume"}
            /\ action' = "release" => shutoff.owned
  <1>1. Owned /\ [HistoryNext]_HistoryVars => [Restores]_HistoryVars
    <2> SUFFICES ASSUME Owned, [HistoryNext]_HistoryVars, ~UNCHANGED HistoryVars,
                        mode' # "active", action' # "none"
                 PROVE  Restores
      BY DEF Owned
    <2>1. PICK i \in Inputs : Decide(i)
      BY DEF HistoryNext, UserMiningOn, UserMiningOff, LockoutReset, StopSendFailed,
             ResumeSendFailed, Restart, Tick, Sets
    <2>2. mode # "active"
      BY <2>1 DEF Decide, Decides, Resume, LatchedHold, LatchedFreeze, ReleaseConfirmed,
             ReleasePending, ReleaseSend, Disabled, ReclaimAdopted, KeepRunning,
             KeepDwelling, TakeStop, StopRetryPending, StopRetryAbandoned,
             StopRetrySend, ConfirmHashing, TreatAsResumed, Reassert, Adopt,
             ReassertPending, FreezeWaitsForCool, FreezeResume, UnknownFreezeResume,
             DemandResume, StayStopped, ResumeConfirmed, ResumeRetry, ResumePending
    <2>3. action' = "stop" => FALSE
      <3>1. CASE TakeStop(i)
        BY <2>2, <3>1, ShutoffAssumption
           DEF TakeStop, NothingToReclaim, Watching, Enabled, Decides, Owned, TypeOK
      <3>2. CASE StopRetrySend(i)
        BY <2>2, <3>2, PassiveOwned DEF StopRetrySend, HashingAgainstStop, Holding
      <3> QED
        BY <2>1, <3>1, <3>2, WhoActs
    <2>4. Reassert(i) \/ Adopt(i) => FALSE
      BY <2>2, PassiveOwned
         DEF Reassert, Adopt, HashingConfirmed, HashingUnexplained, HashingAgainstStop, Holding
    <2>5. action' = "resume" => FALSE
      <3>1. CASE FreezeResume(i) \/ UnknownFreezeResume(i) \/ DemandResume(i)
        <4>1. Enabled(i) /\ shutoff.state = "stopped"
          BY <3>1 DEF FreezeResume, UnknownFreezeResume, DemandResume, DemandDecides,
                      Resting, Holding
        <4>2. shutoff.owned \in BOOLEAN /\ shutoff.simulated \in BOOLEAN
          BY DEF Owned, TypeOK, ShutoffState
        <4>3. shutoff.simulated
          BY <2>2, <4>1, <4>2, PassiveOwned DEF Owned, OwnershipInv, Consistent
        <4>4. Landed(i).simulated /\ Polled(i).simulated
          BY <4>3, AlikeBranches DEF Alike, Owned, TypeOK
        <4> QED
          BY <3>1, <4>4 DEF FreezeResume, UnknownFreezeResume, DemandResume, Resume, Decides
      <3>2. CASE ResumeRetry(i)
        <4>1. Enabled(i) /\ shutoff.state = "resuming"
          BY <3>2 DEF ResumeRetry, Awaiting
        <4>2. shutoff.owned /\ ~shutoff.simulated
          BY <4>1 DEF Owned, OwnershipInv, Consistent
        <4> QED
          BY <2>2, <4>1, <4>2, PassiveOwned
      <3> QED
        BY <2>1, <3>1, <3>2, WhoActs
    <2>6. action' = "release" => shutoff.owned
      BY <2>1, WhoActs DEF ReleaseSend, ReleaseDue
    <2> QED
      BY <2>1, <2>3, <2>4, <2>5, <2>6, WhoActs
  <1> QED
    BY <1>1, HistoryOwned, PTL DEF HistorySpec, PassiveModesOnlyRestore

\* The updates before the decision leave the ownership alone.
LEMMA OwnedAlike ==
    ASSUME Owned, NEW i
    PROVE  /\ Observed(i) \in ShutoffState /\ Observed(i).owned = shutoff.owned
           /\ Counted(i) \in ShutoffState /\ Counted(i).owned = shutoff.owned
           /\ Landed(i) \in ShutoffState /\ Landed(i).owned = shutoff.owned
           /\ Polled(i) \in ShutoffState /\ Polled(i).owned = shutoff.owned
  BY ObservedType, CountedType, LandedType, PolledType, AlikeBranches
     DEF Owned, TypeOK, Alike

\* A poll that neither finds the latch nor sees the miner hash keeps the ownership.
LEMMA KeepsOwnership ==
    ASSUME Owned, NEW i, Decide(i), shutoff.owned, ~i.latched, ~SeenMining(i)
    PROVE  shutoff'.owned
  <1> DEFINE s == Observed(i)
  <1>1. /\ s \in ShutoffState /\ s.owned /\ Landed(i) \in ShutoffState /\ Landed(i).owned
        /\ Polled(i) \in ShutoffState /\ Polled(i).owned
    BY OwnedAlike
  <1>2. shutoff.state \in {"stopped", "resuming"} /\ ~shutoff.simulated
    BY DEF Owned, OwnershipInv, Consistent, TypeOK, ShutoffState
  <1>3. CASE ReleaseSend(i)
    <2> DEFINE r == IF s.state = "resuming" THEN s ELSE Enter(s, "resuming")
    <2>1. r \in ShutoffState /\ r.owned
      BY ZenonT(60), <1>1, EnterType DEF Enter, ShutoffState, ShutoffStates
    <2> HIDE DEF r
    <2>2. [r EXCEPT !.resume_sent = 0, !.last_resume = 0].owned
      BY <2>1 DEF ShutoffState
    <2>3. shutoff' = [r EXCEPT !.resume_sent = 0, !.last_resume = 0]
      BY <1>3 DEF ReleaseSend, Decides, r
    <2> QED
      BY <2>2, <2>3
  <1>4. CASE ReleasePending(i) \/ ResumePending(i) \/ FreezeWaitsForCool(i) \/ StayStopped(i)
    BY <1>1, <1>4 DEF ReleasePending, ResumePending, FreezeWaitsForCool, StayStopped, Decides
  <1>5. CASE ResumeRetry(i)
    BY <1>1, <1>5 DEF ResumeRetry, Decides, ShutoffState
  <1>6. CASE FreezeResume(i) \/ UnknownFreezeResume(i) \/ DemandResume(i)
    <2>1. ASSUME NEW t \in ShutoffState, t.owned, ~t.simulated, Resume(t) PROVE shutoff'.owned
      BY <2>1 DEF Resume, Decides, Enter, ShutoffState
    <2>2. ~Landed(i).simulated /\ ~Polled(i).simulated
      BY <1>2, AlikeBranches DEF Alike, Owned, TypeOK
    <2> QED
      BY <1>1, <1>6, <2>1, <2>2 DEF FreezeResume, UnknownFreezeResume, DemandResume
  <1> QED
    BY <1>2, <1>3, <1>4, <1>5, <1>6
       DEF Decide, LatchedHold, LatchedFreeze, ReleaseConfirmed, Disabled, ReclaimAdopted,
           KeepRunning, KeepDwelling, TakeStop, NothingToReclaim, Watching,
           StopRetryPending, StopRetryAbandoned, StopRetrySend, ConfirmHashing,
           TreatAsResumed, Reassert, Adopt, ReassertPending, HashingConfirmed,
           HashingUnexplained, HashingAgainstStop, ResumeConfirmed

\* An owned stop is given up by no poll but one that shows the miner hashing, or
\* that the supply lockout takes over: however many power_ons are lost on the way.
THEOREM OwnershipKept ==
    ASSUME "grounds" \in Watched
    PROVE  HistorySpec => OwnershipKeptUntilHashing
  <1> DEFINE Kept == GivesUp => seen'.grounds # "other"
  <1>1. Owned /\ [HistoryNext]_HistoryVars => [Kept]_HistoryVars
    <2> SUFFICES ASSUME Owned, [HistoryNext]_HistoryVars, ~UNCHANGED HistoryVars, GivesUp
                 PROVE  seen'.grounds # "other"
      OBVIOUS
    <2>1. PICK i \in Inputs : Decide(i) /\ Note(i)
      BY ActsOnPoll DEF GivesUp
    <2>2. i.latched \/ SeenMining(i)
      BY <2>1, KeepsOwnership DEF GivesUp
    <2>3. seen'.grounds = GroundsOf(i)
      BY <2>1, NotedGrounds DEF GivesUp
    <2> QED
      BY <2>2, <2>3 DEF GroundsOf, SeenMining
  <1> QED
    BY <1>1, HistoryOwned, PTL DEF HistorySpec, OwnershipKeptUntilHashing

(***************************************************************************)
(* The two ages an observer keeps.  A dwell, and the last resume, are      *)
(* never older in the ShutoffState than they are in fact.                  *)
(***************************************************************************)

\* What a decision leaves of the state, of the time of the last resume, and of
\* a simulation.
LEMMA StampsAlike ==
    ASSUME shutoff \in ShutoffState, NEW i
    PROVE  /\ Observed(i).last_resume = shutoff.last_resume
           /\ Current(i).last_resume = shutoff.last_resume
           /\ Counted(i).last_resume = shutoff.last_resume
           /\ Landed(i).last_resume = shutoff.last_resume
           /\ Polled(i).last_resume = shutoff.last_resume
  <1>1. Observed(i).last_resume = shutoff.last_resume
    BY DEF Observed, ShutoffState
  <1>2. Current(i).last_resume = shutoff.last_resume
    BY <1>1, ObservedType DEF Current, ShutoffState
  <1>3. Counted(i).last_resume = shutoff.last_resume
    BY <1>1, ObservedType DEF Counted, ShutoffState
  <1>4. Landed(i).last_resume = shutoff.last_resume
    BY <1>1, ObservedType DEF Landed, ShutoffState
  <1>5. Polled(i).last_resume = shutoff.last_resume
    BY <1>4, LandedType DEF Polled, ShutoffState
  <1> QED
    BY <1>1, <1>2, <1>3, <1>4, <1>5

\* Giving up keeps the time of the last resume.
LEMMA GivenUpStamps ==
    ASSUME NEW s \in ShutoffState
    PROVE  /\ ToRunning(s).state = "running" /\ ToRunning(s).last_resume = s.last_resume
           /\ ~ToRunning(s).simulated
           /\ Disowned(s).state = "running" /\ Disowned(s).last_resume = s.last_resume
           /\ ~Disowned(s).simulated
  BY DEF ToRunning, Disowned, Enter, ShutoffState

\* A state a decision may leave without a command: no dwell and no simulation
\* that was not there, and the last resume no older than it was.
Settles(s) ==
    /\ s.last_resume \in {0, shutoff.last_resume}
    /\ s.simulated => shutoff.simulated
    /\ s.state # "dwell"

\* One it may leave with a power_on: the first of a run sets its clock.
Starts(s) ==
    /\ Settles(s)
    /\ (s.last_resume = 0 /\ ~s.simulated) \/ shutoff.state = "resuming"

StartsMiner == action' \in {"resume", "release", "unlatch"}

\* What a decision says of them.
LEMMA DecidesStamps ==
    ASSUME NEW a, NEW s, Decides(a, s), Settles(s),
           a \in {"resume", "release", "unlatch"} => Starts(s)
    PROVE  Settles(shutoff') /\ (StartsMiner => Starts(shutoff'))
  BY DEF Decides, Settles, Starts, StartsMiner

\* _resume() starts the clock of the run.
LEMMA ResumeStamps ==
    ASSUME NEW s \in ShutoffState, s.simulated => shutoff.simulated, Resume(s)
    PROVE  Settles(shutoff') /\ (StartsMiner => Starts(shutoff'))
  <1> DEFINE r == [s EXCEPT !.call_polls = 0, !.unknown_since = None, !.last_resume = 0]
             t == [Enter(r, "resuming") EXCEPT !.resume_sent = 0]
  <1>1. r \in ShutoffState /\ r.last_resume = 0
    BY ZeroCounts, AgeFacts, HorizonsAreNat DEF ShutoffState
  <1>2. Settles(ToRunning(r))
    BY <1>1, GivenUpStamps DEF Settles
  <1>3. s.simulated \/ Starts(t)
    BY DEF Starts, Settles, Enter, ShutoffState
  <1> QED
    BY <1>2, <1>3, DecidesStamps DEF Resume, Starts

\* Every poll but one that keeps a dwell or takes a stop settles the state, and
\* the clock of a run starts with the first power_on of it.
LEMMA PollStamps ==
    ASSUME Owned, NEW i, Decide(i), ~KeepDwelling(i), ~TakeStop(i)
    PROVE  Settles(shutoff') /\ (StartsMiner => Starts(shutoff'))
  <1> DEFINE o == Observed(i)
             c == Counted(i)
  <1>1. /\ shutoff \in ShutoffState /\ o \in ShutoffState /\ c \in ShutoffState
        /\ Landed(i) \in ShutoffState /\ Polled(i) \in ShutoffState
        /\ Current(i) \in ShutoffState
    BY ObservedType, CountedType, LandedType, PolledType, CurrentType DEF Owned, TypeOK
  <1>2. /\ Alike(o, shutoff) /\ Alike(Current(i), shutoff) /\ Alike(c, shutoff)
        /\ Alike(Landed(i), shutoff) /\ Alike(Polled(i), shutoff)
    BY <1>1, AlikeBranches
  <1>3. /\ o.last_resume = shutoff.last_resume /\ c.last_resume = shutoff.last_resume
        /\ Current(i).last_resume = shutoff.last_resume
        /\ Landed(i).last_resume = shutoff.last_resume
        /\ Polled(i).last_resume = shutoff.last_resume
    BY <1>1, StampsAlike
  <1>4. Settles(ToRunning(o)) /\ Settles(ToRunning(Current(i)))
    BY <1>1, <1>3, GivenUpStamps DEF Settles
  <1>5. shutoff.state # "dwell" =>
          Settles(o) /\ Settles(c) /\ Settles(Current(i)) /\ Settles(Landed(i)) /\ Settles(Polled(i))
    BY <1>2, <1>3 DEF Settles, Alike
  <1>6. CASE LatchedHold(i) \/ Disabled(i) \/ ReleaseConfirmed(i) \/ ReleasePending(i)
    <2>1. ReleasePending(i) => shutoff.state # "dwell"
      BY DEF ReleasePending
    <2>2. LatchedHold(i) \/ Disabled(i) =>
            Decides("none", ToRunning(o)) \/ (shutoff.state # "dwell" /\ Decides("none", o))
      BY <1>2 DEF LatchedHold, Disabled, Alike
    <2>3. \/ Decides("none", ToRunning(o))
          \/ shutoff.state # "dwell" /\ Decides("none", o)
      BY <1>6, <2>1, <2>2 DEF ReleaseConfirmed, ReleasePending
    <2> QED
      BY <1>4, <1>5, <2>3, DecidesStamps
  <1>7. CASE LatchedFreeze(i)
    <2> DEFINE r == IF o.state # "running" \/ o.owned THEN ToRunning(o) ELSE o
               t == [Enter(r, "resuming") EXCEPT !.owned = TRUE, !.resume_sent = 0,
                                                 !.last_resume = 0]
    <2>1. o.state = "running" => ~o.simulated
      BY <1>2 DEF Alike, Owned, OwnershipInv, Consistent
    <2>2. r \in ShutoffState /\ ~r.simulated
      BY <1>1, <2>1, ToRunningType, GivenUpStamps
    <2> HIDE DEF r
    <2>3. Starts(t)
      BY <2>2 DEF Starts, Settles, Enter, ShutoffState
    <2>4. Decides("unlatch", t)
      BY <1>7 DEF LatchedFreeze, r
    <2> QED
      BY <2>3, <2>4, DecidesStamps DEF Starts
  <1>8. CASE ReleaseSend(i)
    <2> DEFINE r == IF o.state = "resuming" THEN o ELSE Enter(o, "resuming")
               t == [r EXCEPT !.resume_sent = 0, !.last_resume = 0]
    <2>1. Enter(o, "resuming") \in ShutoffState
      BY <1>1, EnterType DEF ShutoffStates
    <2>2. Enter(o, "resuming").state = "resuming" /\ Enter(o, "resuming").simulated = o.simulated
      BY <1>1 DEF Enter, ShutoffState
    <2>3. ~o.simulated
      BY <1>2, <1>8 DEF ReleaseSend, ReleaseDue, Alike, Owned, OwnershipInv, Consistent
    <2>4. r \in ShutoffState /\ r.state = "resuming" /\ ~r.simulated
      BY <1>1, <2>1, <2>2, <2>3
    <2> HIDE DEF r
    <2>5. t.state = "resuming" /\ t.simulated = r.simulated /\ t.last_resume = 0
      BY <2>4 DEF ShutoffState
    <2>6. Starts(t)
      BY <2>4, <2>5 DEF Starts, Settles
    <2>7. Decides("release", t)
      BY <1>8 DEF ReleaseSend, r
    <2> QED
      BY <2>6, <2>7, DecidesStamps DEF Starts
  <1>9. CASE ReclaimAdopted(i)
    <2> DEFINE t == [Enter(o, "stopped") EXCEPT
                       !.owned = TRUE, !.suppressed = FALSE, !.adopted = None,
                       !.mining_polls = 0, !.reasserts = 0, !.reasserted = None]
    <2>1. Settles(t)
      BY <1>1, <1>2, <1>3 DEF Settles, Alike, Enter, ShutoffState
    <2> QED
      BY <1>9, <2>1, DecidesStamps DEF ReclaimAdopted
  <1>10. CASE KeepRunning(i)
    <2>1. \/ shutoff.state # "dwell" /\ Decides("none", Current(i))
          \/ Decides("none", ToRunning(Current(i)))
      BY <1>2, <1>10 DEF KeepRunning, Alike
    <2> QED
      BY <1>4, <1>5, <2>1, DecidesStamps
  <1>11. CASE \/ StopRetryPending(i) \/ StopRetryAbandoned(i) \/ StopRetrySend(i)
              \/ ConfirmHashing(i) \/ TreatAsResumed(i)
              \/ Reassert(i) \/ Adopt(i) \/ ReassertPending(i)
    <2>1. shutoff.state = "stopped"
      BY <1>11 DEF StopRetryPending, StopRetryAbandoned, StopRetrySend, ConfirmHashing,
           TreatAsResumed, Reassert, Adopt, ReassertPending, HashingConfirmed,
           HashingUnexplained, HashingAgainstStop, Holding
    <2>2. Settles(o) /\ Settles(c)
      BY <1>5, <2>1
    <2>3. [o EXCEPT !.last_resume = 0] \in ShutoffState
          /\ [o EXCEPT !.last_resume = 0].last_resume = 0
      BY <1>1, AgeFacts, HorizonsAreNat DEF ShutoffState
    <2>4. Settles(TakenAsResumed(i))
      BY <2>3, GivenUpStamps DEF TakenAsResumed, Settles
    <2>5. Settles([o EXCEPT !.stop_failed = 0])
          /\ Settles([c EXCEPT !.reasserts = @ + 1, !.reasserted = 0])
      BY <1>1, <2>2 DEF Settles, ShutoffState
    <2>6. ToRunning(c) \in ShutoffState /\ Settles(ToRunning(c))
      BY <1>1, <1>3, ToRunningType, GivenUpStamps DEF Settles
    <2>7. Settles([ToRunning(c) EXCEPT !.suppressed = TRUE, !.adopted = 0])
      BY <2>6 DEF Settles, ShutoffState
    <2> QED
      BY <1>11, <2>2, <2>4, <2>5, <2>7, DecidesStamps
         DEF StopRetryPending, StopRetryAbandoned, StopRetrySend, ConfirmHashing,
             TreatAsResumed, Reassert, Adopt, ReassertPending
  <1>12. CASE \/ FreezeWaitsForCool(i) \/ FreezeResume(i) \/ UnknownFreezeResume(i)
              \/ DemandResume(i) \/ StayStopped(i)
    <2>1. shutoff.state = "stopped"
      BY <1>12 DEF FreezeWaitsForCool, FreezeResume, UnknownFreezeResume, DemandResume,
           StayStopped, DemandDecides, Resting, Holding
    <2>2. /\ Settles(Landed(i)) /\ Settles(Polled(i))
          /\ Landed(i).simulated => shutoff.simulated
          /\ Polled(i).simulated => shutoff.simulated
      BY <1>5, <2>1 DEF Settles
    <2> QED
      BY <1>1, <1>12, <2>2, DecidesStamps, ResumeStamps
         DEF FreezeWaitsForCool, FreezeResume, UnknownFreezeResume, DemandResume, StayStopped
  <1>13. CASE ResumeConfirmed(i) \/ ResumeRetry(i) \/ ResumePending(i)
    <2>1. shutoff.state = "resuming"
      BY <1>13 DEF ResumeConfirmed, ResumeRetry, ResumePending, Awaiting
    <2>2. Settles(o)
      BY <1>5, <2>1
    <2>3. Starts([o EXCEPT !.resume_sent = 0])
      BY <1>1, <2>1, <2>2 DEF Starts, Settles, ShutoffState
    <2> QED
      BY <1>4, <1>13, <2>2, <2>3, DecidesStamps
         DEF ResumeConfirmed, ResumeRetry, ResumePending, Starts
  <1> QED
    BY <1>6, <1>7, <1>8, <1>9, <1>10, <1>11, <1>12, <1>13 DEF Decide

\* A poll that keeps a dwell, or ends it in a stop, was asked by no thermostat,
\* and counts from the start of the dwell.
LEMMA DwellStamps ==
    ASSUME Owned, NEW i, KeepDwelling(i) \/ TakeStop(i)
    PROVE  /\ i.summary # "calling"
           /\ ~shutoff.simulated
           /\ Dwelling(i) \in ShutoffState /\ Dwelling(i).state = "dwell"
           /\ Dwelling(i).last_resume = shutoff.last_resume
           /\ ~Dwelling(i).simulated
           /\ \/ shutoff.state = "running" /\ Dwelling(i).dwell_start = 0
              \/ /\ shutoff.state = "dwell" /\ shutoff.dwell_start # None
                 /\ Dwelling(i).dwell_start = shutoff.dwell_start
  <1> DEFINE c == Current(i)
  <1>1. shutoff.state \in {"running", "dwell"} /\ Trigger(c, i) # "none"
    BY DEF KeepDwelling, TakeStop, NothingToReclaim, Watching
  <1>2. i.summary # "calling"
    BY <1>1 DEF Trigger, SupplyTrigger
  <1>3. /\ c \in ShutoffState /\ c.last_resume = shutoff.last_resume
        /\ Alike(c, shutoff) /\ Dwelling(i) \in ShutoffState
    BY CurrentType, DwellingType, StampsAlike, AlikeBranches DEF Owned, TypeOK
  <1>4. ~shutoff.simulated /\ (shutoff.state = "dwell" => shutoff.dwell_start # None)
    BY <1>1 DEF Owned, OwnershipInv, Consistent
  <1> HIDE DEF c
  <1>5. CASE shutoff.state = "running"
    <2>1. Dwelling(i) = [Enter(c, "dwell") EXCEPT !.dwell_start = 0,
                                                  !.dwell_trigger = Trigger(c, i)]
      BY <1>3, <1>5 DEF Dwelling, Alike, c
    <2> QED
      BY <1>2, <1>3, <1>4, <1>5, <2>1 DEF Enter, Alike, ShutoffState
  <1>6. CASE shutoff.state = "dwell"
    <2>1. Dwelling(i) = [c EXCEPT !.dwell_trigger = Trigger(c, i)]
      BY <1>3, <1>6 DEF Dwelling, Alike, c
    <2> QED
      BY <1>2, <1>3, <1>4, <1>6, <2>1 DEF Alike, ShutoffState
  <1> QED
    BY <1>1, <1>5, <1>6

\* What a stop leaves: the dwell it was earned with, and what is told of it.
LEMMA StopStamps ==
    ASSUME Owned, NEW i, TakeStop(i)
    PROVE  /\ shutoff'.state = "stopped"
           /\ shutoff'.last_resume = shutoff.last_resume
           /\ shutoff'.dwell_trigger = Dwelling(i).dwell_trigger
           /\ Elapsed(Dwelling(i).dwell_start) >= DwellNeeded(shutoff')
           /\ ~(/\ shutoff'.dwell_trigger = "W"
                /\ shutoff.last_resume # None /\ shutoff.last_resume < MinOn)
           /\ action' \in {"none", "stop"}
           /\ mode = "observe" => ~shutoff'.owned
           /\ mode # "observe" => shutoff'.owned /\ action' = "stop"
  <1> DEFINE d == Dwelling(i)
             s == [Enter(d, "stopped") EXCEPT
                    !.stop_failed = None, !.mining_polls = 0, !.reasserts = 0,
                    !.reasserted = None, !.adopted = None, !.call_polls = 0,
                    !.unknown_since = None]
  <1>1. d \in ShutoffState /\ d.last_resume = shutoff.last_resume
    BY DwellStamps
  <1>2. /\ Elapsed(d.dwell_start) >= DwellNeeded(d)
        /\ ~(d.dwell_trigger = "W" /\ d.last_resume # None /\ d.last_resume < MinOn)
    <2>1. ~StopBlocked(d, i)
      BY DEF TakeStop
    <2>2. DwellNeeded(d) \in Int /\ Elapsed(d.dwell_start) \in Int
      BY <1>1, HorizonsAreNat, ShutoffAssumption
         DEF DwellNeeded, Elapsed, ShutoffState, Age, None, Durations
    <2> QED
      BY <2>1, <2>2 DEF StopBlocked
  <1>3. \/ /\ mode = "observe"
           /\ shutoff' = [s EXCEPT !.simulated = TRUE, !.owned = FALSE]
        \/ /\ mode # "observe" /\ action' = "stop"
           /\ shutoff' = [s EXCEPT !.owned = TRUE]
    BY DEF TakeStop, Decides
  <1>4. action' \in {"none", "stop"}
    BY DEF TakeStop, Decides
  <1> HIDE DEF d
  <1>5. /\ shutoff'.state = "stopped" /\ shutoff'.last_resume = d.last_resume
        /\ shutoff'.dwell_trigger = d.dwell_trigger
        /\ mode = "observe" => ~shutoff'.owned
        /\ mode # "observe" => shutoff'.owned /\ action' = "stop"
    BY <1>1, <1>3 DEF Enter, ShutoffState
  <1> QED
    BY <1>1, <1>2, <1>4, <1>5 DEF d, DwellNeeded

\* A tick and an age.
LEMMA OlderOrder ==
    ASSUME NEW h \in Nat, NEW a \in Age(h)
    PROVE  /\ Older(a, h) \in Age(h) /\ Older(a, h) >= a /\ Older(a, h) <= a + 1
           /\ a \in 0..h => Older(a, h) \in 0..h
           /\ a \in 0..h => Older(a, h) = h \/ Older(a, h) = a + 1
  BY DEF Older, Age, None

\* No thermostat has called since a dwell began.
CalledInv ==
    /\ seen.called \in 0..DwellHorizon
    /\ shutoff.state = "dwell" => shutoff.dwell_start <= seen.called

\* Every step keeps the count of a dwell to what was seen of the thermostats.
LEMMA CalledStep ==
    ASSUME "called" \in Watched, Owned, CalledInv, [HistoryNext]_HistoryVars
    PROVE  CalledInv'
  <1> USE HorizonsAreNat
  <1>1. CASE \E i \in Inputs : Decide(i) /\ Note(i)
    <2>1. PICK i \in Inputs : Decide(i) /\ Note(i)
      BY <1>1
    <2>2. seen'.called = IF i.summary = "calling" THEN 0 ELSE seen.called
      BY <2>1 DEF Note, Restarts
    <2>3. CASE KeepDwelling(i)
      <3>1. shutoff' = Dwelling(i)
        BY <2>3 DEF KeepDwelling, Decides
      <3> QED
        BY <2>2, <2>3, <3>1, DwellStamps DEF CalledInv
    <2>4. CASE TakeStop(i)
      BY <2>2, <2>4, StopStamps, DwellStamps DEF CalledInv
    <2>5. CASE ~KeepDwelling(i) /\ ~TakeStop(i)
      <3>1. shutoff'.state # "dwell"
        BY <2>1, <2>5, PollStamps DEF Settles
      <3> QED
        BY <2>2, <3>1 DEF CalledInv
    <2> QED
      BY <2>3, <2>4, <2>5
  <1>2. CASE (UserMiningOn \/ UserMiningOff \/ LockoutReset) /\ NoteOther
    <2>1. seen'.called = seen.called
      BY <1>2 DEF NoteOther
    <2>2. Disowned(shutoff) \in ShutoffState /\ Disowned(shutoff).state = "running"
      BY DisownedType, GivenUpStamps DEF Owned, TypeOK
    <2>3. shutoff'.state = "running"
      BY <1>2, <2>2 DEF UserMiningOn, UserMiningOff, LockoutReset, Sets, ShutoffState
    <2> QED
      BY <2>1, <2>3 DEF CalledInv
  <1>3. CASE (StopSendFailed \/ ResumeSendFailed) /\ NoteOther
    <2>1. seen'.called = seen.called
      BY <1>3 DEF NoteOther
    <2>2. shutoff'.state = shutoff.state /\ shutoff'.dwell_start = shutoff.dwell_start
      BY <1>3 DEF StopSendFailed, ResumeSendFailed, PowerOnFailed, Sets, Owned, TypeOK,
                  ShutoffState
    <2> QED
      BY <2>1, <2>2 DEF CalledInv
  <1>4. CASE Restart /\ NoteOther
    <2>1. seen'.called = seen.called
      BY <1>4 DEF NoteOther
    <2>2. shutoff'.state # "dwell"
      BY <1>4 DEF Restart, Restored, InitialState, Owned, TypeOK, ShutoffState
    <2> QED
      BY <2>1, <2>2 DEF CalledInv
  <1>5. CASE Tick /\ NoteTick
    <2>1. seen'.called = Older(seen.called, DwellHorizon)
      BY <1>5 DEF NoteTick, Ages
    <2>2. /\ shutoff'.state = shutoff.state
          /\ shutoff'.dwell_start = Older(shutoff.dwell_start, DwellHorizon)
          /\ shutoff.dwell_start \in Age(DwellHorizon)
      BY <1>5 DEF Tick, Sets, Aged, Owned, TypeOK, ShutoffState
    <2>3. seen.called \in 0..DwellHorizon /\ seen.called \in Age(DwellHorizon)
      BY AgeFacts DEF CalledInv
    <2>4. Older(seen.called, DwellHorizon) \in 0..DwellHorizon
          /\ (shutoff.dwell_start <= seen.called =>
                Older(shutoff.dwell_start, DwellHorizon) <= Older(seen.called, DwellHorizon))
      BY <2>2, <2>3, OlderOrder DEF Older, Age, None
    <2> QED
      BY <2>1, <2>2, <2>4 DEF CalledInv
  <1>6. CASE UNCHANGED HistoryVars
    BY <1>6 DEF HistoryVars, CalledInv
  <1> QED
    BY <1>1, <1>2, <1>3, <1>4, <1>5, <1>6 DEF HistoryNext

\* A stop is taken only when no thermostat has called during the whole dwell it
\* was earned with, however the trigger changed meanwhile and whatever restart or
\* override fell into it.
THEOREM DwellIsQuiet ==
    ASSUME "called" \in Watched
    PROVE  HistorySpec => StopNeedsQuietDwell
  <1> DEFINE Calm == FirstStop => seen'.called >= DwellNeeded(shutoff')
  <1>1. HistoryInit => CalledInv
    BY HorizonsAreNat DEF HistoryInit, Init, InitialState, CalledInv, NeverSeen, Ages
  <1>2. Owned /\ CalledInv /\ [HistoryNext]_HistoryVars => CalledInv'
    BY CalledStep
  <1>3. Owned /\ CalledInv /\ [HistoryNext]_HistoryVars => [Calm]_HistoryVars
    <2> SUFFICES ASSUME Owned, CalledInv, [HistoryNext]_HistoryVars,
                        ~UNCHANGED HistoryVars, FirstStop
                 PROVE  seen'.called >= DwellNeeded(shutoff')
      OBVIOUS
    <2>1. PICK i \in Inputs : Decide(i) /\ Note(i)
      BY DEF FirstStop, HistoryNext, UserMiningOn, UserMiningOff, LockoutReset,
             StopSendFailed, ResumeSendFailed, Restart, Tick, Sets
    <2>2. TakeStop(i)
      BY <2>1, WhoActs
         DEF FirstStop, StopRetrySend, HashingAgainstStop, Holding
    <2>3. seen'.called = seen.called
      BY <2>1, <2>2, DwellStamps DEF Note, Restarts
    <2>4. Elapsed(Dwelling(i).dwell_start) <= seen.called
      BY <2>2, DwellStamps, HorizonsAreNat DEF CalledInv, Elapsed, None
    <2>5. DwellNeeded(shutoff') \in Int /\ Elapsed(Dwelling(i).dwell_start) \in Int
      BY <2>2, DwellStamps, HorizonsAreNat, ShutoffAssumption
         DEF DwellNeeded, Elapsed, ShutoffState, Age, None, Durations
    <2>6. Elapsed(Dwelling(i).dwell_start) >= DwellNeeded(shutoff')
      BY <2>2, StopStamps
    <2>7. seen.called \in Int
      BY HorizonsAreNat DEF CalledInv
    <2> QED
      BY <2>3, <2>4, <2>5, <2>6, <2>7
  <1> QED
    BY <1>1, <1>2, <1>3, HistoryOwned, PTL DEF HistorySpec, StopNeedsQuietDwell

DwellAge == IF shutoff.state = "dwell" THEN shutoff.dwell_start ELSE 0

\* Since the shutoff last started the miner, MinOn has passed, or at least t.
LongAgo(t) == seen.started = MinOn \/ seen.started >= t

\* How long ago the last start is where the ShutoffState knows of none: it may have
\* been forgotten with a simulated stop, and then a dwell of trigger S lies between,
\* or of W, which MinOn held back.
Untold == IF seen.forgotten THEN SupplyDwell + DwellAge ELSE MinOn

\* The ShutoffState takes the last resume for no older than it is.
StartedInv ==
    /\ seen.started \in 0..MinOn /\ seen.forgotten \in BOOLEAN
    /\ shutoff.last_resume # None => shutoff.last_resume <= seen.started
    /\ shutoff.last_resume = None => LongAgo(Untold)
    /\ shutoff.simulated => LongAgo(SupplyDwell)
    /\ LongAgo(DwellAge)

\* The ages the proof compares are numbers.
LEMMA StartedTypes ==
    ASSUME Owned
    PROVE  /\ shutoff.last_resume \in Age(MinOn) /\ shutoff.dwell_start \in Age(DwellHorizon)
           /\ shutoff.state = "dwell" => shutoff.dwell_start \in 0..DwellHorizon
           /\ DwellAge \in 0..DwellHorizon
           /\ SupplyDwell \in Nat /\ IdleDwell \in Nat /\ MinOn \in Nat /\ DwellHorizon \in Nat
  <1>1. /\ shutoff.last_resume \in Age(MinOn) /\ shutoff.dwell_start \in Age(DwellHorizon)
    BY DEF Owned, TypeOK, ShutoffState
  <1>2. shutoff.state = "dwell" => shutoff.dwell_start # None
    BY DEF Owned, OwnershipInv, Consistent
  <1>3. SupplyDwell \in Nat /\ IdleDwell \in Nat /\ MinOn \in Nat /\ DwellHorizon \in Nat
    BY HorizonsAreNat, ShutoffAssumption DEF Durations
  <1> QED
    BY <1>1, <1>2, <1>3 DEF DwellAge, Age, None

\* The invariant carries over to a step that ages nothing, begins no simulation
\* and leaves a dwell, if there is one, no older than it was.
LEMMA StartedKept ==
    ASSUME Owned, StartedInv, seen'.started = seen.started, seen'.forgotten = seen.forgotten,
           shutoff'.last_resume \in {0, shutoff.last_resume},
           shutoff'.simulated => shutoff.simulated,
           \/ shutoff'.state # "dwell"
           \/ shutoff'.state = "dwell" /\ shutoff'.dwell_start = 0
           \/ shutoff'.state = "dwell" /\ shutoff.state = "dwell"
                /\ shutoff'.dwell_start = shutoff.dwell_start
    PROVE  StartedInv'
  <1>1. DwellAge' \in {0, DwellAge} /\ DwellAge \in Nat /\ SupplyDwell \in Nat /\ MinOn \in Nat
    BY StartedTypes DEF DwellAge
  <1>2. seen.started \in 0..MinOn
    BY DEF StartedInv
  <1>3. LongAgo(DwellAge)'
    BY <1>1, <1>2 DEF StartedInv, LongAgo
  <1>4. shutoff'.last_resume # None => shutoff'.last_resume <= seen'.started
    BY <1>2 DEF StartedInv
  <1>5. shutoff'.simulated => LongAgo(SupplyDwell)'
    BY DEF StartedInv, LongAgo
  <1>6. shutoff'.last_resume = None => shutoff.last_resume = None
    BY DEF None
  <1>7. shutoff'.last_resume = None => LongAgo(Untold)'
    BY <1>1, <1>2, <1>6 DEF StartedInv, LongAgo, Untold
  <1> QED
    BY <1>2, <1>3, <1>4, <1>5, <1>7 DEF StartedInv

\* A simulated stop lies a dwell after the last start, or MinOn.
LEMMA StopLongAgo ==
    ASSUME Owned, StartedInv, NEW i, TakeStop(i)
    PROVE  LongAgo(SupplyDwell)
  <1>1. /\ seen.started \in 0..MinOn /\ LongAgo(DwellAge)
        /\ DwellAge \in 0..DwellHorizon /\ SupplyDwell \in Nat /\ MinOn \in Nat
        /\ shutoff.last_resume \in Age(MinOn)
    BY StartedTypes DEF StartedInv
  <1>2. Elapsed(Dwelling(i).dwell_start) = DwellAge
    BY DwellStamps, StartedTypes DEF Elapsed, DwellAge, None
  <1>3. CASE shutoff'.dwell_trigger = "S"
    <2>1. DwellAge >= SupplyDwell
      BY <1>2, <1>3, StopStamps DEF DwellNeeded
    <2> QED
      BY <1>1, <2>1 DEF LongAgo
  <1>4. CASE shutoff'.dwell_trigger # "S"
    <2>1. Dwelling(i).dwell_trigger = Trigger(Current(i), i)
      <3>1. Current(i) \in ShutoffState /\ Enter(Current(i), "dwell") \in ShutoffState
        BY SMTT(40), CurrentType, EnterType DEF Owned, TypeOK, ShutoffStates
      <3> QED
        BY <3>1 DEF Dwelling, ShutoffState
    <2>2. shutoff'.dwell_trigger = "W"
      BY <1>4, <2>1, StopStamps DEF Trigger, TakeStop
    <2>3. shutoff.last_resume = None \/ shutoff.last_resume >= MinOn
      BY <1>1, <2>2, StopStamps DEF Age, None
    <2>4. CASE shutoff.last_resume = None
      BY <1>1, <2>4 DEF StartedInv, LongAgo, Untold
    <2>5. CASE shutoff.last_resume # None
      BY <1>1, <2>3, <2>5 DEF StartedInv, LongAgo, Age, None
    <2> QED
      BY <2>4, <2>5
  <1> QED
    BY <1>3, <1>4

\* A tick ages the run, its dwell and what is remembered of its start alike.
LEMMA StartedTick ==
    ASSUME "started" \in Watched, "forgotten" \in Watched, Owned, StartedInv, Tick, NoteTick
    PROVE  StartedInv'
  <1> DEFINE a == seen.started
             r == shutoff.last_resume
  <1>1. /\ seen'.started = Older(a, MinOn) /\ seen'.forgotten = seen.forgotten
        /\ shutoff'.last_resume = Older(r, MinOn)
        /\ shutoff'.dwell_start = Older(shutoff.dwell_start, DwellHorizon)
        /\ shutoff'.state = shutoff.state /\ shutoff'.simulated = shutoff.simulated
    BY DEF Tick, Sets, Aged, NoteTick, Ages, Owned, TypeOK, ShutoffState
  <1>2. /\ a \in 0..MinOn /\ r \in Age(MinOn) /\ MinOn \in Nat /\ DwellHorizon \in Nat
        /\ SupplyDwell \in Nat /\ DwellAge \in 0..DwellHorizon
        /\ (shutoff.state = "dwell" => shutoff.dwell_start \in 0..DwellHorizon)
    BY StartedTypes DEF StartedInv
  <1>3. /\ Older(a, MinOn) \in 0..MinOn /\ Older(a, MinOn) >= a
        /\ Older(a, MinOn) = MinOn \/ Older(a, MinOn) = a + 1
    BY <1>2, AgeFacts, OlderOrder
  <1>4. DwellAge' \in 0..DwellHorizon /\ DwellAge' <= DwellAge + 1
    BY <1>1, <1>2, AgeFacts, OlderOrder DEF DwellAge
  <1>5. (Older(r, MinOn) = None <=> r = None) /\ Older(r, MinOn) <= r + 1
    BY <1>2, OlderNone, OlderOrder
  <1> DEFINE t == Untold
             u == Untold'
             b == Older(a, MinOn)
  <1>6. t \in Nat /\ u \in Nat /\ (u <= t + 1)
    <2>1. DwellAge \in Nat /\ DwellAge' \in Nat
      BY <1>2, <1>4
    <2>2. \/ t = SupplyDwell + DwellAge /\ u = SupplyDwell + DwellAge'
          \/ t = MinOn /\ u = MinOn
      BY Zenon, <1>1 DEF Untold
    <2> HIDE DEF t, u
    <2> QED
      BY <1>2, <1>4, <2>1, <2>2
  <1> HIDE DEF t, u, b, a, r
  <1>7. ASSUME NEW x \in Nat, NEW y \in Nat, y <= x + 1, a = MinOn \/ a >= x
        PROVE  b = MinOn \/ b >= y
    BY <1>2, <1>3, <1>7 DEF b
  <1>8. b = MinOn \/ b >= DwellAge'
    BY <1>2, <1>4, <1>7 DEF StartedInv, LongAgo, a
  <1>9. r = None => b = MinOn \/ b >= u
    BY <1>6, <1>7 DEF StartedInv, LongAgo, a, r, t
  <1>10. shutoff.simulated => b = MinOn \/ b >= SupplyDwell
    BY <1>2, <1>3 DEF StartedInv, LongAgo, a, b
  <1>11. r # None => Older(r, MinOn) <= b
    <2> SUFFICES ASSUME r # None PROVE Older(r, MinOn) <= b
      OBVIOUS
    <2>1. r <= a /\ r \in 0..MinOn
      BY <1>2 DEF StartedInv, a, r, Age, None
    <2>2. Older(r, MinOn) \in 0..MinOn
      BY <1>2, <2>1, AgeFacts, OlderOrder
    <2> QED
      BY <1>2, <1>3, <1>5, <2>1, <2>2 DEF b
  <1>12. seen'.started = b /\ shutoff'.last_resume = Older(r, MinOn)
    BY <1>1 DEF a, b, r
  <1>13. b \in 0..MinOn
    BY <1>3 DEF b
  <1> QED
    BY <1>1, <1>5, <1>8, <1>9, <1>10, <1>11, <1>12, <1>13 DEF StartedInv, LongAgo, u

\* Outside a restart no simulated stop is discarded.
LEMMA NotDiscarded ==
    ASSUME "started" \in Watched, "forgotten" \in Watched, Owned, StartedInv,
           NoteOther, mode' = mode
    PROVE  seen'.started = seen.started /\ seen'.forgotten = seen.forgotten
  BY DEF NoteOther, Discards, StartedInv, Owned, OwnershipInv, Consistent

\* Every other step keeps it too.
LEMMA StartedStep ==
    ASSUME "started" \in Watched, "forgotten" \in Watched, Owned, StartedInv, [HistoryNext]_HistoryVars
    PROVE  StartedInv'
  <1> USE HorizonsAreNat
  <1>1. CASE \E i \in Inputs : Decide(i) /\ Note(i)
    <2>1. PICK i \in Inputs : Decide(i) /\ Note(i)
      BY <1>1
    <2>2. /\ seen'.started = IF StartsMiner /\ shutoff.state # "resuming" THEN 0 ELSE seen.started
          /\ (StartsMiner /\ shutoff.state # "resuming") \/ seen'.forgotten = seen.forgotten
          /\ seen'.forgotten \in BOOLEAN
      BY <2>1 DEF Note, Restarts, StartsMiner, StartedInv
    <2>3. CASE KeepDwelling(i)
      <3>1. shutoff' = Dwelling(i) /\ action' = "none"
        BY <2>3 DEF KeepDwelling, Decides
      <3>2. seen'.started = seen.started /\ seen'.forgotten = seen.forgotten
        BY <2>2, <3>1 DEF StartsMiner
      <3> QED
        BY <2>3, <3>1, <3>2, DwellStamps, StartedKept
    <2>4. CASE TakeStop(i)
      <3>1. seen'.started = seen.started /\ seen'.forgotten = seen.forgotten
        BY <2>2, <2>4, StopStamps DEF StartsMiner
      <3>2. DwellAge' = 0 /\ DwellAge \in Nat /\ SupplyDwell \in Nat /\ MinOn \in Nat
        BY <2>4, StopStamps, StartedTypes DEF DwellAge
      <3>3. LongAgo(SupplyDwell)' /\ LongAgo(DwellAge)'
        BY <2>4, <3>1, <3>2, StopLongAgo DEF LongAgo, StartedInv
      <3>4. seen.started \in 0..MinOn /\ shutoff'.last_resume = shutoff.last_resume
        BY <2>4, StopStamps DEF StartedInv
      <3>5. shutoff'.last_resume = None => LongAgo(Untold)'
        BY <3>1, <3>2, <3>4 DEF StartedInv, LongAgo, Untold
      <3> QED
        BY <3>1, <3>3, <3>4, <3>5 DEF StartedInv
    <2>5. CASE ~KeepDwelling(i) /\ ~TakeStop(i)
      <3>1. Settles(shutoff') /\ (StartsMiner => Starts(shutoff'))
        BY <2>1, <2>5, PollStamps
      <3>2. CASE ~(StartsMiner /\ shutoff.state # "resuming")
        BY <2>2, <3>1, <3>2, StartedKept DEF Settles
      <3>3. CASE StartsMiner /\ shutoff.state # "resuming"
        <4>1. seen'.started = 0 /\ StartsMiner /\ shutoff.state # "resuming"
          BY <2>2, <3>3
        <4>2. shutoff'.last_resume = 0 /\ shutoff'.state # "dwell" /\ ~shutoff'.simulated
          BY <3>1, <4>1 DEF Starts, Settles
        <4>3. DwellAge' = 0 /\ MinOn \in Nat
          BY <4>2 DEF DwellAge
        <4> QED
          BY <2>2, <4>1, <4>2, <4>3 DEF StartedInv, LongAgo, None
      <3> QED
        BY <3>2, <3>3
    <2> QED
      BY <2>3, <2>4, <2>5
  <1>2. CASE (UserMiningOn \/ UserMiningOff \/ LockoutReset) /\ NoteOther
    <2>1. seen'.started = seen.started /\ seen'.forgotten = seen.forgotten
      BY <1>2, NotDiscarded DEF UserMiningOn, UserMiningOff, LockoutReset, Sets
    <2>2. /\ Disowned(shutoff) \in ShutoffState /\ Disowned(shutoff).state = "running"
          /\ Disowned(shutoff).last_resume = shutoff.last_resume
          /\ ~Disowned(shutoff).simulated
      BY DisownedType, GivenUpStamps DEF Owned, TypeOK
    <2>3. /\ shutoff'.state = "running" /\ ~shutoff'.simulated
          /\ shutoff'.last_resume = shutoff.last_resume
      BY <1>2, <2>2 DEF UserMiningOn, UserMiningOff, LockoutReset, Sets, ShutoffState
    <2> QED
      BY <2>1, <2>3, StartedKept
  <1>3. CASE (StopSendFailed \/ ResumeSendFailed) /\ NoteOther
    <2>1. seen'.started = seen.started /\ seen'.forgotten = seen.forgotten
      BY <1>3, NotDiscarded DEF StopSendFailed, ResumeSendFailed, Sets
    <2>2. /\ shutoff'.state = shutoff.state /\ shutoff'.dwell_start = shutoff.dwell_start
          /\ shutoff'.last_resume = shutoff.last_resume
          /\ shutoff'.simulated = shutoff.simulated
      BY <1>3 DEF StopSendFailed, ResumeSendFailed, PowerOnFailed, Sets, Owned, TypeOK,
                  ShutoffState
    <2> QED
      BY <2>1, <2>2, StartedKept
  <1>4. CASE Restart /\ NoteOther
    <2>1. seen'.started = seen.started
      BY <1>4 DEF NoteOther
    <2>2. shutoff' = Restored(shutoff, mode')
      BY <1>4 DEF Restart
    <2>3. CASE Discards
      <3>1. /\ shutoff'.state = "running" /\ shutoff'.last_resume = None
            /\ ~shutoff'.simulated
        BY <2>2, <2>3 DEF Discards, Restored, InitialState
      <3>2. DwellAge' = 0 /\ SupplyDwell \in Nat /\ MinOn \in Nat
        BY <3>1, StartedTypes DEF DwellAge
      <3>3. seen'.forgotten = TRUE
        BY <1>4, <2>3, Zenon DEF NoteOther
      <3>4. Untold' = SupplyDwell
        BY <3>2, <3>3 DEF Untold
      <3>5. LongAgo(SupplyDwell) /\ seen.started \in 0..MinOn
        BY <2>3 DEF StartedInv, Discards
      <3>6. LongAgo(Untold)' /\ LongAgo(DwellAge)'
        BY <2>1, <3>2, <3>4, <3>5 DEF LongAgo
      <3> QED
        BY <2>1, <3>1, <3>3, <3>5, <3>6 DEF StartedInv
    <2>4. CASE ~Discards
      <3>1. ~(shutoff.simulated /\ mode' # "observe")
        BY <2>4 DEF Discards
      <3>2. /\ shutoff'.state # "dwell" /\ shutoff'.last_resume = shutoff.last_resume
            /\ shutoff'.simulated = shutoff.simulated
        BY <2>2, <3>1 DEF Restored, Owned, TypeOK, ShutoffState
      <3>3. seen'.forgotten = seen.forgotten
        BY <2>4, <1>4, Zenon DEF NoteOther, StartedInv
      <3> QED
        BY <2>1, <3>2, <3>3, StartedKept
    <2> QED
      BY <2>3, <2>4
  <1>5. CASE Tick /\ NoteTick
    BY <1>5, StartedTick
  <1>6. CASE UNCHANGED HistoryVars
    BY <1>6 DEF HistoryVars, StartedInv, LongAgo, Untold, DwellAge
  <1> QED
    BY <1>1, <1>2, <1>3, <1>4, <1>5, <1>6 DEF HistoryNext

\* A run the shutoff started is not cut by trigger W within MinOn of its start,
\* through restarts, releases and user actions; where a simulated stop discarded
\* on leaving observe mode took the time of the start with it, both dwells lie
\* between them.
THEOREM MinOnIsHonoured ==
    ASSUME "started" \in Watched, "forgotten" \in Watched
    PROVE  HistorySpec => MinOnHonoured
  <1> DEFINE Long(s) == s.started >= MinOn
                        \/ (s.forgotten /\ s.started >= SupplyDwell + IdleDwell)
             Honoured == FirstStop /\ shutoff'.dwell_trigger = "W" => Long(seen')
  <1>1. HistoryInit => StartedInv
    BY HorizonsAreNat DEF HistoryInit, Init, InitialState, StartedInv, LongAgo, NeverSeen, Ages
  <1>2. Owned /\ StartedInv /\ [HistoryNext]_HistoryVars => StartedInv'
    BY StartedStep
  <1>3. Owned /\ StartedInv /\ [HistoryNext]_HistoryVars => [Honoured]_HistoryVars
    <2> SUFFICES ASSUME Owned, StartedInv, [HistoryNext]_HistoryVars,
                        ~UNCHANGED HistoryVars, FirstStop, shutoff'.dwell_trigger = "W"
                 PROVE  Long(seen')
      OBVIOUS
    <2>1. PICK i \in Inputs : Decide(i) /\ Note(i)
      BY DEF FirstStop, HistoryNext, UserMiningOn, UserMiningOff, LockoutReset,
             StopSendFailed, ResumeSendFailed, Restart, Tick, Sets
    <2>2. TakeStop(i)
      BY <2>1, WhoActs DEF FirstStop, StopRetrySend, HashingAgainstStop, Holding
    <2>3. seen'.started = seen.started /\ seen'.forgotten = seen.forgotten
      BY <2>1 DEF FirstStop, Note, Restarts, StartedInv
    <2>4. Elapsed(Dwelling(i).dwell_start) = DwellAge
      BY <2>2, DwellStamps, StartedTypes DEF Elapsed, DwellAge, None
    <2>5. DwellAge >= IdleDwell
      BY <2>2, <2>4, StopStamps DEF DwellNeeded
    <2>6. /\ shutoff.last_resume \in Age(MinOn) /\ seen.started \in 0..MinOn
          /\ MinOn \in Nat /\ SupplyDwell \in Nat /\ IdleDwell \in Nat /\ DwellAge \in Nat
      BY StartedTypes DEF StartedInv
    <2>7. CASE shutoff.last_resume = None
      BY <2>3, <2>5, <2>6, <2>7 DEF StartedInv, LongAgo, Untold
    <2>8. CASE shutoff.last_resume # None
      <3>1. shutoff.last_resume >= MinOn
        BY <2>2, <2>6, <2>8, StopStamps DEF Age, None
      <3> QED
        BY <2>3, <2>6, <2>8, <3>1 DEF StartedInv, Age, None
    <2> QED
      BY <2>7, <2>8
  <1> QED
    BY <1>1, <1>2, <1>3, HistoryOwned, PTL DEF HistorySpec, MinOnHonoured

(***************************************************************************)
(* What any decision leaves behind                                         *)
(***************************************************************************)

\* The stop in force was sent in this very tick.
JustStopped ==
    /\ mode = "active" /\ shutoff.state = "stopped" /\ shutoff.since = 0
    /\ shutoff.stop_failed \in {None, 0}

\* What the controller relies on in a decision.
Decided(i) ==
    /\ action' \in {"stop", "reassert"} =>
         /\ ~i.latched /\ mode = "active"
         /\ shutoff'.owned /\ shutoff'.state = "stopped" /\ shutoff'.stop_failed \in {None, 0}
    /\ action' = "reassert" => shutoff.owned
    /\ action' \in {"resume", "release"} => ~i.latched
    /\ action' = "unlatch" => i.latched
    /\ shutoff.owned /\ ~shutoff'.owned =>
         i.latched \/ (SeenMining(i) /\ (StopRetry > 0 => ~JustStopped))
    /\ shutoff'.state = "stopped" =>
         shutoff'.since = 0 \/ (shutoff.state = "stopped" /\ shutoff'.since = shutoff.since)

\* Two records with the same stop.
SameStop(r, s) ==
    r.state = s.state /\ r.owned = s.owned /\ r.simulated = s.simulated /\ r.since = s.since

\* No update before the decision touches the stop.
LEMMA StopBranches ==
    ASSUME shutoff \in ShutoffState, NEW i
    PROVE  /\ SameStop(Observed(i), shutoff) /\ Observed(i).stop_failed = shutoff.stop_failed
           /\ SameStop(Current(i), shutoff)
           /\ SameStop(Counted(i), shutoff) /\ Counted(i).stop_failed = shutoff.stop_failed
           /\ SameStop(Landed(i), shutoff) /\ SameStop(Polled(i), shutoff)
  <1>1. SameStop(Observed(i), shutoff) /\ Observed(i).stop_failed = shutoff.stop_failed
    BY DEF SameStop, Observed, ShutoffState
  <1>2. SameStop(Current(i), Observed(i))
    BY ObservedType DEF SameStop, Current, ShutoffState
  <1>3. SameStop(Counted(i), Observed(i)) /\ Counted(i).stop_failed = Observed(i).stop_failed
    BY ObservedType DEF SameStop, Counted, ShutoffState
  <1>4. SameStop(Landed(i), Observed(i))
    BY ObservedType DEF SameStop, Landed, ShutoffState
  <1>5. SameStop(Polled(i), Landed(i))
    BY LandedType DEF SameStop, Polled, ShutoffState
  <1> QED
    BY <1>1, <1>2, <1>3, <1>4, <1>5 DEF SameStop

\* A stop given up is a miner left running, owned by nobody.
LEMMA RunningState ==
    ASSUME NEW s \in ShutoffState
    PROVE  /\ ToRunning(s).state = "running" /\ ~ToRunning(s).owned
           /\ Disowned(s).state = "running" /\ ~Disowned(s).owned
  BY DEF ToRunning, Disowned, Enter, ShutoffState

\* decide() under the supply lockout.
LEMMA LatchDecides ==
    ASSUME Owned, NEW i, LatchedHold(i) \/ LatchedFreeze(i)
    PROVE  Decided(i)
  <1> DEFINE s == Observed(i)
             r == IF s.state # "running" \/ s.owned THEN ToRunning(s) ELSE s
             t == [Enter(r, "resuming") EXCEPT !.owned = TRUE, !.resume_sent = 0,
                                               !.last_resume = 0]
  <1>1. s \in ShutoffState
    BY ObservedType DEF Owned, TypeOK
  <1>2. r \in ShutoffState /\ r.state = "running"
    BY <1>1, ToRunningType, RunningState
  <1> HIDE DEF r
  <1>3. t.state = "resuming"
    BY <1>2 DEF Enter, ShutoffState
  <1>4. LatchedFreeze(i) => i.latched /\ Decides("unlatch", t)
    BY DEF LatchedFreeze, r
  <1>5. LatchedHold(i) => i.latched /\ Decides("none", r)
    BY DEF LatchedHold, r
  <1> QED
    BY <1>2, <1>3, <1>4, <1>5 DEF Decides, Decided

\* decide() with a stop to release, or disabled.
LEMMA ReleaseDecides ==
    ASSUME Owned, NEW i,
           ReleaseConfirmed(i) \/ ReleasePending(i) \/ ReleaseSend(i) \/ Disabled(i)
    PROVE  Decided(i)
  <1> DEFINE s == Observed(i)
             r == IF s.state = "resuming" THEN s ELSE Enter(s, "resuming")
             t == [r EXCEPT !.resume_sent = 0, !.last_resume = 0]
  <1>1. s \in ShutoffState /\ SameStop(s, shutoff)
    BY ObservedType, StopBranches DEF Owned, TypeOK
  <1>2. ToRunning(s).state = "running" /\ ~ToRunning(s).owned
    BY <1>1, RunningState
  <1>3. t.state = "resuming" /\ t.owned = s.owned
    BY <1>1 DEF Enter, ShutoffState
  <1> HIDE DEF t
  <1>4. CASE ReleaseSend(i)
    <2>1. ~i.latched /\ Decides("release", t)
      BY <1>4 DEF ReleaseSend, ReleaseDue, t
    <2> QED
      BY <1>1, <1>3, <2>1 DEF Decides, Decided, SameStop
  <1>5. CASE ReleaseConfirmed(i)
    <2>1. SeenMining(i) /\ ReleaseDue(i) /\ Decides("none", ToRunning(s))
      BY <1>5 DEF ReleaseConfirmed
    <2>2. ~JustStopped
      BY <2>1 DEF ReleaseDue, JustStopped
    <2> QED
      BY <1>2, <2>1, <2>2 DEF Decides, Decided
  <1>6. CASE ReleasePending(i)
    <2>1. Decides("none", s)
      BY <1>6 DEF ReleasePending
    <2> QED
      BY <1>1, <2>1 DEF Decides, Decided, SameStop
  <1>7. CASE Disabled(i)
    <2>1. ~shutoff.owned /\ (Decides("none", s) \/ Decides("none", ToRunning(s)))
      BY <1>7 DEF Disabled
    <2> QED
      BY <1>1, <1>2, <2>1 DEF Decides, Decided, SameStop
  <1> QED
    BY <1>4, <1>5, <1>6, <1>7

\* decide() in RUNNING and DWELL.
LEMMA WatchDecides ==
    ASSUME Owned, NEW i,
           ReclaimAdopted(i) \/ KeepRunning(i) \/ KeepDwelling(i) \/ TakeStop(i)
    PROVE  Decided(i)
  <1>1. /\ Observed(i) \in ShutoffState /\ Current(i) \in ShutoffState
        /\ Dwelling(i) \in ShutoffState
    BY ObservedType, CurrentType, DwellingType DEF Owned, TypeOK
  <1>2. /\ Enabled(i) /\ shutoff.state \in {"running", "dwell"}
    BY DEF ReclaimAdopted, KeepRunning, KeepDwelling, TakeStop, NothingToReclaim, Watching
  <1>3. ~i.latched /\ ~shutoff.owned /\ SameStop(Current(i), shutoff)
    BY <1>2, StopBranches DEF Enabled, Owned, OwnershipInv, TypeOK, Consistent
  <1>4. CASE ReclaimAdopted(i)
    <2> DEFINE t == [Enter(Observed(i), "stopped") EXCEPT
                       !.owned = TRUE, !.suppressed = FALSE, !.adopted = None,
                       !.mining_polls = 0, !.reasserts = 0, !.reasserted = None]
    <2>1. t.since = 0
      BY <1>1 DEF Enter, ShutoffState
    <2>2. Decides("none", t)
      BY <1>4 DEF ReclaimAdopted
    <2> QED
      BY <1>3, <2>1, <2>2 DEF Decides, Decided
  <1>5. CASE KeepRunning(i)
    <2>1. Decides("none", Current(i)) \/ Decides("none", ToRunning(Current(i)))
      BY <1>5 DEF KeepRunning
    <2> QED
      BY <1>1, <1>2, <1>3, <2>1, RunningState DEF Decides, Decided, SameStop
  <1>6. CASE KeepDwelling(i)
    <2>1. Dwelling(i).state = "dwell"
      BY <1>1, <1>2, <1>3 DEF Dwelling, Enter, ShutoffState, SameStop
    <2>2. Decides("none", Dwelling(i))
      BY <1>6 DEF KeepDwelling
    <2> QED
      BY <1>3, <2>1, <2>2 DEF Decides, Decided
  <1>7. CASE TakeStop(i)
    <2> DEFINE s == [Enter(Dwelling(i), "stopped") EXCEPT
                      !.stop_failed = None, !.mining_polls = 0, !.reasserts = 0,
                      !.reasserted = None, !.adopted = None, !.call_polls = 0,
                      !.unknown_since = None]
    <2> DEFINE w == [s EXCEPT !.simulated = TRUE, !.owned = FALSE]
               o == [s EXCEPT !.owned = TRUE]
    <2>1. /\ w.since = 0 /\ o.since = 0 /\ o.owned /\ o.state = "stopped"
          /\ o.stop_failed = None
      BY <1>1 DEF Enter, ShutoffState
    <2>2. IF mode = "observe" THEN Decides("none", w) ELSE Decides("stop", o)
      BY <1>7 DEF TakeStop
    <2> HIDE DEF w, o
    <2>3. mode \in {"observe", "active"}
      BY <1>2, ShutoffAssumption DEF Enabled, Owned, TypeOK
    <2> QED
      BY <1>3, <2>1, <2>2, <2>3 DEF Decides, Decided
  <1> QED
    BY <1>4, <1>5, <1>6, <1>7

\* decide() in STOPPED with the miner hashing.
LEMMA HashingDecides ==
    ASSUME Owned, NEW i,
           \/ StopRetryPending(i) \/ StopRetryAbandoned(i) \/ StopRetrySend(i)
           \/ ConfirmHashing(i) \/ TreatAsResumed(i)
           \/ Reassert(i) \/ Adopt(i) \/ ReassertPending(i)
    PROVE  Decided(i)
  <1> DEFINE o == Observed(i)
             c == Counted(i)
  <1>1. o \in ShutoffState /\ c \in ShutoffState
    BY ObservedType, CountedType DEF Owned, TypeOK
  <1>2. /\ SameStop(o, shutoff) /\ o.stop_failed = shutoff.stop_failed
        /\ SameStop(c, shutoff) /\ c.stop_failed = shutoff.stop_failed
    BY StopBranches DEF Owned, TypeOK
  <1>3. /\ HashingAgainstStop(i)
        /\ ConfirmHashing(i) \/ TreatAsResumed(i) \/ Reassert(i) \/ Adopt(i) \/ ReassertPending(i)
             => HashingUnexplained(i)
    BY DEF StopRetryPending, StopRetryAbandoned, StopRetrySend, ConfirmHashing,
           TreatAsResumed, Reassert, Adopt, ReassertPending, HashingConfirmed, HashingUnexplained
  <1>4. /\ ~i.latched /\ mode = "active" /\ shutoff.owned /\ shutoff.state = "stopped"
        /\ SeenMining(i)
    BY <1>3, ShutoffAssumption
       DEF HashingAgainstStop, Holding, Enabled, ReleaseDue, Owned, TypeOK
  <1>5. HashingUnexplained(i) => shutoff.stop_failed = None /\ ~JustStopped
    BY HorizonsAreNat DEF HashingUnexplained, JustStopped, Elapsed
  <1>6. [o EXCEPT !.last_resume = 0] \in ShutoffState
    BY <1>1, AgeFacts, HorizonsAreNat DEF ShutoffState
  <1>7. TakenAsResumed(i).state = "running"
    BY <1>6, RunningState DEF TakenAsResumed
  <1>8. CASE StopRetryPending(i)
    BY <1>2, <1>4, <1>8 DEF StopRetryPending, Decides, Decided, SameStop
  <1>9. CASE StopRetryAbandoned(i)
    <2>1. StopRetry > 0 => ~JustStopped
      BY <1>9, HorizonsAreNat DEF StopRetryAbandoned, JustStopped, None
    <2> QED
      BY <1>4, <1>7, <1>9, <2>1 DEF StopRetryAbandoned, Decides, Decided
  <1>10. CASE StopRetrySend(i)
    <2> DEFINE t == [o EXCEPT !.stop_failed = 0]
    <2>1. SameStop(t, shutoff) /\ t.stop_failed = 0
      BY <1>1, <1>2 DEF SameStop, ShutoffState
    <2>2. Decides("stop", t)
      BY <1>10 DEF StopRetrySend
    <2> HIDE DEF t
    <2> QED
      BY <1>4, <2>1, <2>2 DEF Decides, Decided, SameStop
  <1>11. CASE ConfirmHashing(i) \/ ReassertPending(i)
    <2>1. Decides("none", c)
      BY <1>11 DEF ConfirmHashing, ReassertPending
    <2> QED
      BY <1>2, <1>4, <2>1 DEF Decides, Decided, SameStop
  <1>12. CASE TreatAsResumed(i)
    <2>1. Decides("none", TakenAsResumed(i))
      BY <1>12 DEF TreatAsResumed
    <2> QED
      BY <1>3, <1>4, <1>5, <1>7, <1>12, <2>1 DEF Decides, Decided
  <1>13. CASE Reassert(i)
    <2> DEFINE t == [c EXCEPT !.reasserts = @ + 1, !.reasserted = 0]
    <2>1. SameStop(t, shutoff) /\ t.stop_failed = shutoff.stop_failed
      BY <1>1, <1>2 DEF SameStop, ShutoffState
    <2>2. Decides("reassert", t)
      BY <1>13 DEF Reassert
    <2> HIDE DEF t
    <2> QED
      BY <1>3, <1>4, <1>5, <1>13, <2>1, <2>2 DEF Decides, Decided, SameStop
  <1>14. CASE Adopt(i)
    <2> DEFINE t == [ToRunning(c) EXCEPT !.suppressed = TRUE, !.adopted = 0]
    <2>1. t.state = "running"
      BY <1>1, ToRunningType, RunningState DEF ShutoffState
    <2>2. Decides("adopt", t)
      BY <1>14 DEF Adopt
    <2> HIDE DEF t
    <2> QED
      BY <1>3, <1>4, <1>5, <1>14, <2>1, <2>2 DEF Decides, Decided
  <1> QED
    BY <1>8, <1>9, <1>10, <1>11, <1>12, <1>13, <1>14

\* decide() in STOPPED with the miner quiet.
LEMMA RestingDecides ==
    ASSUME Owned, NEW i,
           \/ FreezeWaitsForCool(i) \/ FreezeResume(i) \/ UnknownFreezeResume(i)
           \/ DemandResume(i) \/ StayStopped(i)
    PROVE  Decided(i)
  <1>1. shutoff.state = "stopped" /\ ~i.latched
    BY DEF FreezeWaitsForCool, FreezeResume, UnknownFreezeResume, DemandResume,
           StayStopped, DemandDecides, Resting, Holding, Enabled
  <1>2. /\ Landed(i) \in ShutoffState /\ Polled(i) \in ShutoffState
        /\ SameStop(Landed(i), shutoff) /\ SameStop(Polled(i), shutoff)
    BY LandedType, PolledType, StopBranches DEF Owned, TypeOK
  <1>3. CASE FreezeWaitsForCool(i) \/ StayStopped(i)
    <2>1. Decides("none", Landed(i)) \/ Decides("none", Polled(i))
      BY <1>3 DEF FreezeWaitsForCool, StayStopped
    <2> QED
      BY <1>1, <1>2, <2>1 DEF Decides, Decided, SameStop
  <1>4. ASSUME NEW s \in ShutoffState, SameStop(s, shutoff), Resume(s)
        PROVE  Decided(i)
    <2> DEFINE r == [s EXCEPT !.call_polls = 0, !.unknown_since = None, !.last_resume = 0]
               t == [Enter(r, "resuming") EXCEPT !.resume_sent = 0]
    <2>1. r \in ShutoffState /\ SameStop(r, shutoff)
      BY <1>4, ZeroCounts, AgeFacts, HorizonsAreNat DEF ShutoffState, SameStop
    <2>2. t.state = "resuming" /\ t.owned = shutoff.owned
      BY <2>1 DEF Enter, ShutoffState, SameStop
    <2>3. ToRunning(r).state = "running"
      BY <2>1, RunningState
    <2>4. IF s.simulated THEN Decides("none", ToRunning(r)) ELSE Decides("resume", t)
      BY <1>4 DEF Resume
    <2>5. s.simulated => ~shutoff.owned
      BY <1>1, <1>4 DEF SameStop, Owned, OwnershipInv, Consistent
    <2> HIDE DEF r, t
    <2> QED
      BY <1>1, <2>2, <2>3, <2>4, <2>5 DEF Decides, Decided
  <1> QED
    BY <1>2, <1>3, <1>4 DEF FreezeResume, UnknownFreezeResume, DemandResume

\* decide() in RESUMING.
LEMMA AwaitDecides ==
    ASSUME Owned, NEW i,
           ResumeConfirmed(i) \/ ResumeRetry(i) \/ ResumePending(i)
    PROVE  Decided(i)
  <1> DEFINE o == Observed(i)
             t == [o EXCEPT !.resume_sent = 0]
  <1>1. shutoff.state = "resuming" /\ ~i.latched
    BY DEF ResumeConfirmed, ResumeRetry, ResumePending, Awaiting, Enabled
  <1>2. o \in ShutoffState /\ SameStop(o, shutoff)
    BY ObservedType, StopBranches DEF Owned, TypeOK
  <1>3. SameStop(t, shutoff)
    BY <1>2 DEF SameStop, ShutoffState
  <1>4. ToRunning(o).state = "running"
    BY <1>2, RunningState
  <1>5. \/ SeenMining(i) /\ Decides("none", ToRunning(o))
        \/ Decides("resume", t) \/ Decides("none", o)
    BY DEF ResumeConfirmed, ResumeRetry, ResumePending
  <1> HIDE DEF o, t
  <1> QED
    BY <1>1, <1>2, <1>3, <1>4, <1>5 DEF Decides, Decided, SameStop, JustStopped

\* Any decision: the types, the ownership, and what the controller relies on.
LEMMA AnyDecision ==
    ASSUME Owned, NEW i, Decide(i)
    PROVE  TypeOK' /\ OwnershipInv' /\ Decided(i) /\ mode' = mode
  <1>1. TypeOK'
    BY LatchTypes, ReleaseTypes, WatchTypes, HashingTypes, RestingTypes, AwaitTypes
       DEF Decide, Owned
  <1>2. OwnershipInv'
    BY LatchConsistent, ReleaseConsistent, WatchConsistent, HashingConsistent,
       RestingConsistent, AwaitConsistent DEF Decide
  <1>3. Decided(i)
    BY LatchDecides, ReleaseDecides, WatchDecides, HashingDecides, RestingDecides,
       AwaitDecides DEF Decide
  <1>4. mode' = mode
    BY DEF Decide, Decides, Resume, LatchedHold, LatchedFreeze, ReleaseConfirmed,
           ReleasePending, ReleaseSend, Disabled, ReclaimAdopted, KeepRunning, KeepDwelling,
           TakeStop, StopRetryPending, StopRetryAbandoned, StopRetrySend, ConfirmHashing,
           TreatAsResumed, Reassert, Adopt, ReassertPending, FreezeWaitsForCool,
           FreezeResume, UnknownFreezeResume, DemandResume, StayStopped, ResumeConfirmed,
           ResumeRetry, ResumePending
  <1> QED
    BY <1>1, <1>2, <1>3, <1>4

(***************************************************************************)
(* The invariant: types, the lock, and what a waiting step has decided     *)
(***************************************************************************)

View == [summary   : {"calling", "all_idle", "unknown", "unread"},
         gate_mean : Int, freeze : {"active", "clear", "unknown", "unread"}, supply : Int,
         is_mining : BOOLEAN, fresh : BOOLEAN, latched : BOOLEAN, user_off : BOOLEAN]

Places == {"idle", "forecast", "trip_save", "trip_send", "relock_send", "stop_save",
           "stop_send", "on_save", "on_send", "fail_save", "save"}

\* The types of what the controller adds to the machine.
PlainTypes ==
    /\ latched \in BOOLEAN /\ delayed \in BOOLEAN
    /\ pc \in Places
    /\ pc = "idle" => view = NoView
    /\ view \in View
    /\ calls \in [Calls -> Waiting]
    /\ disk \in [latched : BOOLEAN, shutoff : ShutoffState]
    /\ data \in [is_mining : BOOLEAN, fresh : BOOLEAN]
    /\ miner \in [on : BOOLEAN, hashes : BOOLEAN]
    /\ userOff \in 0..UserOffGrace /\ lockOff \in 0..Relock
    /\ offBy \in {"none", "shutoff", "lockout", "user"}

\* A call holds the step lock.
Locked == \E c \in Calls : calls[c] = "save"

\* One at a time holds the step lock: the step, or one call.
LockInv ==
    /\ Locked => pc = "idle"
    /\ \A c, d \in Calls : calls[c] = "save" /\ calls[d] = "save" => c = d

\* A waiting step knows of the latch, and only without it has it decided on a
\* command of the shutoff.
StepInv ==
    /\ pc = "forecast" => view.latched = latched
    /\ pc \in {"trip_save", "trip_send"} => latched /\ view.latched
    /\ pc \in {"stop_save", "stop_send", "on_save", "on_send"} => ~latched
    /\ pc \in {"stop_save", "stop_send"} =>
         /\ action \in {"stop", "reassert"} /\ mode = "active"
         /\ shutoff.owned /\ shutoff.state = "stopped" /\ shutoff.stop_failed \in {None, 0}

\* Memory and Store each hold a consistent ownership.
OwnerInv == OwnershipInv /\ Consistent(disk.shutoff, "observe")

ControllerInv == TypeOK /\ PlainTypes /\ LockInv /\ StepInv /\ OwnerInv

\* Whoever holds the lock is alone.
LEMMA OneHolder ==
    ASSUME LockInv
    PROVE  Cardinality({c \in Calls : calls[c] = "save"}
                         \cup (IF pc = "idle" THEN {} ELSE {"step"})) <= 1
  <1> DEFINE S == {c \in Calls : calls[c] = "save"} \cup (IF pc = "idle" THEN {} ELSE {"step"})
  <1>1. \A x, y \in S : x = y
    BY DEF LockInv, Locked
  <1> HIDE DEF S
  <1>2. CASE S = {}
    BY <1>2, FS_EmptySet DEF S
  <1>3. CASE S # {}
    <2>1. PICK x \in S : TRUE
      BY <1>3
    <2>2. S = {x}
      BY <1>1, <2>1
    <2>3. Cardinality(S) = 1
      BY <2>2, FS_Singleton
    <2> QED
      BY <2>3 DEF S
  <1> QED
    BY <1>2, <1>3

\* The invariant has the types the runs check.
LEMMA InvTypes ==
    ASSUME ControllerInv
    PROVE  ControllerTypeOK
  BY OneHolder DEF ControllerInv, ControllerTypeOK, PlainTypes, Places

\* The assumptions on the constants.
LEMMA Parameters ==
    /\ Outcomes \subseteq {"done", "landed", "lost"} /\ Calls \subseteq {"on", "off", "reset"}
    /\ Relock \in Nat /\ UserOffGrace \in Nat /\ Supplies \subseteq Int
    /\ Linger \in BOOLEAN /\ SlowPolls \in BOOLEAN /\ SaveFails \in BOOLEAN
  BY ControllerAssumption DEF SendOutcomes, Services

\* A command leaves the miner's type.
LEMMA Powering ==
    ASSUME PlainTypes, NEW o, PoweredOff(o) \/ PoweredOn(o)
    PROVE  /\ miner' \in [on : BOOLEAN, hashes : BOOLEAN]
           /\ Lands(o) \in BOOLEAN
           /\ ~Lands(o) => miner' = miner
           /\ PoweredOff(o) /\ Lands(o) => ~miner'.on /\ (~Linger => ~miner'.hashes)
  <1>1. PoweredOff(o) => miner' \in [on : BOOLEAN, hashes : BOOLEAN]
    BY Parameters DEF PoweredOff, PlainTypes
  <1>2. PoweredOn(o) => miner' \in [on : BOOLEAN, hashes : BOOLEAN]
    BY DEF PoweredOn, PlainTypes
  <1>3. PoweredOff(o) /\ Lands(o) => ~miner'.on /\ (~Linger => ~miner'.hashes)
    <2> HAVE PoweredOff(o) /\ Lands(o)
    <2>1. miner' = [on |-> FALSE, hashes |-> miner.hashes /\ Linger]
      BY DEF PoweredOff
    <2>2. ~miner'.on /\ miner'.hashes = (miner.hashes /\ Linger)
      BY <2>1
    <2> QED
      BY <2>2
  <1>4. ~Lands(o) => miner' = miner
    BY DEF PoweredOff, PoweredOn
  <1> QED
    BY <1>1, <1>2, <1>3, <1>4 DEF Lands

\* A save leaves the Store with a state that memory held.
LEMMA Saving ==
    ASSUME ControllerInv, Saves, UNCHANGED <<latched, shutoff>>
    PROVE  /\ disk' \in [latched : BOOLEAN, shutoff : ShutoffState]
           /\ Consistent(disk.shutoff, "observe")'
           /\ delayed' = FALSE
           /\ ~SaveFails => disk'.latched = latched /\ disk'.shutoff = shutoff
  <1>1. shutoff \in ShutoffState /\ latched \in BOOLEAN
    BY DEF ControllerInv, TypeOK, PlainTypes
  <1>2. Consistent(shutoff, "observe")
    BY DEF ControllerInv, OwnerInv, OwnershipInv, Consistent
  <1>3. disk' = [latched |-> latched, shutoff |-> shutoff] \/ (SaveFails /\ disk' = disk)
    BY DEF Saves, Stored
  <1>4. disk'.shutoff = shutoff \/ disk'.shutoff = disk.shutoff
    BY <1>3
  <1>5. Consistent(disk'.shutoff, "observe")
    BY <1>2, <1>4 DEF ControllerInv, OwnerInv
  <1>6. disk' \in [latched : BOOLEAN, shutoff : ShutoffState]
    BY <1>1, <1>3 DEF ControllerInv, PlainTypes
  <1> QED
    BY <1>3, <1>5, <1>6 DEF Saves

\* A step begins with the latch as it is, when nobody holds the lock.
LEMMA Beginning ==
    ASSUME ControllerInv, NEW poll \in [is_mining : BOOLEAN, fresh : BOOLEAN], Begins(poll)
    PROVE  /\ pc = "idle" /\ ~Locked /\ \A c \in Calls : calls[c] # "wait"
           /\ pc' = "forecast" /\ view' \in View /\ view'.latched = latched
           /\ view'.fresh = poll.fresh /\ (view'.is_mining => poll.is_mining)
           /\ (view'.is_mining => ~UserOffRecently) /\ view'.freeze = "unread"
  <1>1. PICK t \in Supplies :
          view' = [NoView EXCEPT !.supply = t, !.fresh = poll.fresh, !.latched = latched,
                                 !.is_mining = poll.is_mining /\ ~UserOffRecently,
                                 !.user_off = UserOffRecently]
    BY DEF Begins
  <1>2. t \in Int /\ latched \in BOOLEAN /\ UserOffRecently \in BOOLEAN
    BY Parameters DEF ControllerInv, PlainTypes, UserOffRecently
  <1>3. NoView \in View /\ NoView.freeze = "unread"
    BY DEF NoView, View, None
  <1>4. /\ view' \in View /\ view'.latched = latched /\ view'.fresh = poll.fresh
        /\ view'.is_mining = (poll.is_mining /\ ~UserOffRecently)
        /\ view'.freeze = "unread"
    BY <1>1, <1>2, <1>3 DEF View
  <1>5. pc = "idle" /\ (\A c \in Calls : calls[c] # "save" /\ calls[c] # "wait") /\ pc' = "forecast"
    BY DEF Begins, StepMayRun, LockFree
  <1> QED
    BY <1>4, <1>5 DEF Locked

\* The step ends, or stops a miner that hashes under the latch.
LEMMA Ending ==
    ASSUME PlainTypes, NEW v \in View, NEW l, Ends(v, l)
    PROVE  /\ pc' \in {"idle", "relock_send"} /\ (pc' = "idle" => view' = NoView)
           /\ view' \in View /\ lockOff' \in 0..Relock
  <1>1. NoView \in View
    BY DEF NoView, View, None
  <1>2. CASE l /\ v.is_mining /\ v.fresh /\ lockOff >= Relock
    BY <1>2, Parameters DEF Ends, PlainTypes
  <1>3. CASE ~(l /\ v.is_mining /\ v.fresh /\ lockOff >= Relock)
    BY <1>1, <1>3 DEF Ends, PlainTypes
  <1> QED
    BY <1>2, <1>3

----------------------------------------------------------------------------
(* Every action keeps the invariant *)

\* A call moves on, and no other call does.
LEMMA CallMoves ==
    ASSUME PlainTypes, NEW c \in Calls, NEW from, NEW to \in Waiting, Waits(c, from, to)
    PROVE  /\ calls' \in [Calls -> Waiting]
           /\ calls[c] = from /\ calls'[c] = to
           /\ \A d \in Calls : d # c => calls'[d] = calls[d]
  BY DEF Waits, PlainTypes

\* What leaves the step, the latch, the state and the Store alone, and gives
\* the lock to no call.
LEMMA Elsewhere ==
    ASSUME ControllerInv, PlainTypes', UNCHANGED <<machine, latched, pc, view, disk>>,
           \A c \in Calls : calls'[c] = "save" => calls[c] = "save"
    PROVE  ControllerInv'
  <1>1. TypeOK' /\ OwnerInv'
    BY DEF ControllerInv, machine, TypeOK, OwnerInv, OwnershipInv, Consistent
  <1>2. LockInv'
    BY DEF ControllerInv, LockInv, Locked
  <1>3. StepInv'
    BY DEF ControllerInv, StepInv, machine
  <1> QED
    BY <1>1, <1>2, <1>3 DEF ControllerInv

\* The miner and the calls on their way.
LEMMA OthersKeep ==
    ASSUME ControllerInv,
           \/ Boots \/ Drains \/ StartsByItself
           \/ OnCalled \/ OffCalled \/ ResetCalled
           \/ \E o \in Outcomes : OnSends(o) \/ OffSends(o)
           \/ UNCHANGED allVars
    PROVE  ControllerInv'
  <1> USE DEF Waiting
  <1>1. CASE Boots \/ Drains \/ StartsByItself
    <2>1. /\ UNCHANGED <<machine, memory, pc, view, calls, disk, delayed, data>>
          /\ miner' \in [on : BOOLEAN, hashes : BOOLEAN]
          /\ offBy' \in {"none", offBy}
      BY <1>1 DEF Boots, Drains, StartsByItself, ControllerInv, PlainTypes
    <2>2. PlainTypes'
      BY <2>1 DEF ControllerInv, PlainTypes, memory
    <2> QED
      BY <2>1, <2>2, Elsewhere DEF memory
  <1>2. CASE OnCalled \/ OffCalled \/ ResetCalled
    <2>1. PICK c \in Calls : Waits(c, "idle", "wait")
      BY <1>2 DEF OnCalled, OffCalled, ResetCalled
    <2>2. UNCHANGED <<machine, memory, pc, view, disk, delayed, plant, offBy>>
      BY <1>2 DEF OnCalled, OffCalled, ResetCalled
    <2>3. calls' \in [Calls -> Waiting] /\ \A d \in Calls : calls'[d] = "save" => calls[d] = "save"
      BY <2>1, CallMoves DEF ControllerInv
    <2>4. PlainTypes'
      BY <2>2, <2>3 DEF ControllerInv, PlainTypes, memory, plant
    <2> QED
      BY <2>2, <2>3, <2>4, Elsewhere DEF memory
  <1>3. CASE \E o \in Outcomes : OnSends(o) \/ OffSends(o)
    <2>1. PICK o \in Outcomes : OnSends(o) \/ OffSends(o)
      BY <1>3
    <2>2. PICK c \in Calls : Waits(c, "send", "idle")
      BY <2>1 DEF OnSends, OffSends
    <2>3. /\ UNCHANGED <<machine, memory, pc, view, disk, delayed, data>>
          /\ PoweredOff(o) \/ PoweredOn(o)
          /\ offBy' \in {"none", "user", offBy}
      BY <2>1 DEF OnSends, OffSends
    <2>4. calls' \in [Calls -> Waiting] /\ \A d \in Calls : calls'[d] = "save" => calls[d] = "save"
      BY <2>2, CallMoves DEF ControllerInv
    <2>5. miner' \in [on : BOOLEAN, hashes : BOOLEAN]
      BY <2>3, Powering DEF ControllerInv
    <2>6. PlainTypes'
      BY <2>3, <2>4, <2>5 DEF ControllerInv, PlainTypes, memory
    <2> QED
      BY <2>3, <2>4, <2>6, Elsewhere DEF memory
  <1>4. CASE UNCHANGED allVars
    <2>1. UNCHANGED <<machine, memory, pc, view, calls, disk, delayed, data, miner, offBy>>
      BY <1>4 DEF allVars, plant
    <2>2. PlainTypes'
      BY <2>1 DEF ControllerInv, PlainTypes, memory
    <2> QED
      BY <2>1, <2>2, Elsewhere DEF memory
  <1> QED
    BY <1>1, <1>2, <1>3, <1>4

\* A poll, the timer and the reset begin a step, or leave the one that runs.
LEMMA BeginningsKeep ==
    ASSUME ControllerInv,
           (\E fresh \in BOOLEAN : PollStep(fresh)) \/ TimerStep \/ ResetNotifies
    PROVE  ControllerInv'
  <1>1. PICK poll \in [is_mining : BOOLEAN, fresh : BOOLEAN] :
          /\ Begins(poll) \/ UNCHANGED <<pc, view>>
          /\ data' \in [is_mining : BOOLEAN, fresh : BOOLEAN]
    <2>1. CASE \E fresh \in BOOLEAN : PollStep(fresh)
      <3>1. PICK fresh \in BOOLEAN : PollStep(fresh)
        BY <2>1
      <3>2. data' \in [is_mining : BOOLEAN, fresh : BOOLEAN]
        BY <3>1 DEF PollStep, Polls, ControllerInv, PlainTypes
      <3> QED
        BY <3>1, <3>2 DEF PollStep
    <2>2. CASE TimerStep \/ ResetNotifies
      BY <2>2 DEF TimerStep, ResetNotifies, plant, ControllerInv, PlainTypes
    <2> QED
      BY <2>1, <2>2
  <1>2. UNCHANGED <<machine, memory, disk, delayed, miner, offBy>>
    BY DEF PollStep, TimerStep, ResetNotifies, plant
  <1>3. calls' \in [Calls -> Waiting] /\ \A d \in Calls : calls'[d] = "save" => calls[d] = "save"
    <2>1. CASE ResetNotifies
      BY <2>1, CallMoves DEF ResetNotifies, ControllerInv, Waiting
    <2>2. CASE (\E fresh \in BOOLEAN : PollStep(fresh)) \/ TimerStep
      BY <2>2 DEF PollStep, TimerStep, ControllerInv, PlainTypes
    <2> QED
      BY <2>1, <2>2
  <1>4. CASE UNCHANGED <<pc, view>>
    <2>1. PlainTypes'
      BY <1>1, <1>2, <1>3, <1>4 DEF ControllerInv, PlainTypes, memory
    <2> QED
      BY <1>2, <1>3, <1>4, <2>1, Elsewhere DEF memory
  <1>5. CASE Begins(poll)
    <2>1. ~Locked /\ pc' = "forecast" /\ view' \in View /\ view'.latched = latched
      BY <1>5, Beginning
    <2>2. PlainTypes'
      BY <1>1, <1>2, <1>3, <2>1 DEF ControllerInv, PlainTypes, memory, Places
    <2>3. LockInv'
      BY <1>3, <2>1 DEF LockInv, Locked
    <2>4. StepInv'
      BY <1>2, <2>1 DEF StepInv, memory
    <2>5. TypeOK' /\ OwnerInv'
      BY <1>2 DEF ControllerInv, machine, TypeOK, OwnerInv, OwnershipInv, Consistent
    <2> QED
      BY <2>2, <2>3, <2>4, <2>5 DEF ControllerInv
  <1> QED
    BY <1>1, <1>4, <1>5

\* What the environment says beside the probe and the poll.
LEMMA Reading ==
    ASSUME ControllerInv, NEW e \in Environment
    PROVE  /\ WithEnvironment(e) \in View
           /\ WithEnvironment(e).latched = view.latched
           /\ WithEnvironment(e).fresh = view.fresh
           /\ WithEnvironment(e).is_mining = view.is_mining
           /\ WithEnvironment(e).user_off = view.user_off
           /\ WithEnvironment(e).freeze = e.freeze
  <1>1. /\ e.summary \in {"calling", "all_idle", "unknown"} /\ e.gate_mean \in Int
        /\ e.freeze \in {"active", "clear", "unknown"}
    BY ControllerAssumption
  <1>2. view \in View
    BY DEF ControllerInv, PlainTypes
  <1> QED
    BY <1>1, <1>2 DEF WithEnvironment, View

\* Where a decision leaves the step.
LEMMA DecisionPlaces ==
    ASSUME ControllerInv, NEW i \in View, i.latched = latched, Deciding(i)
    PROVE  /\ TypeOK' /\ OwnershipInv' /\ Decided(i) /\ mode' = mode
           /\ latched' = (latched /\ action' # "unlatch")
           /\ pc' \in {"idle", "relock_send", "stop_save", "stop_send", "on_save", "save"}
           /\ pc' = "idle" => view' = NoView
           /\ view' \in View /\ lockOff' \in 0..Relock /\ delayed' \in BOOLEAN
           /\ pc' \in {"stop_save", "stop_send"} => action' \in {"stop", "reassert"}
           /\ pc' = "stop_send" => action' = "reassert"
           /\ pc' = "on_save" => ~latched'
           /\ pc' # "on_save" => action' # "unlatch"
           /\ pc' \in {"idle", "relock_send"} =>
                action' = "none" /\ shutoff'.owned = shutoff.owned
           /\ UNCHANGED <<userOff, calls, disk, offBy, data>>
  <1>1. Owned /\ latched \in BOOLEAN /\ delayed \in BOOLEAN /\ lockOff \in 0..Relock
    BY DEF ControllerInv, Owned, OwnerInv, PlainTypes
  <1>2. /\ Decide(i) /\ latched' = (latched /\ action' # "unlatch")
        /\ UNCHANGED <<userOff, calls, disk, offBy, data>>
    BY DEF Deciding
  <1>3. TypeOK' /\ OwnershipInv' /\ Decided(i) /\ mode' = mode
    BY <1>1, <1>2, AnyDecision
  <1>4. action' \in {"resume", "release", "unlatch"} => ~latched'
    BY <1>1, <1>2, <1>3 DEF Decided
  <1>5. CASE action' \in {"stop", "reassert", "resume", "release", "unlatch"}
             /\ pc' = (IF latched' /\ PowersOn(action') THEN "save" ELSE AwaitFor(action'))
             /\ view' = i /\ UNCHANGED <<lockOff, delayed>>
    <2>1. pc' = AwaitFor(action')
      BY <1>4, <1>5 DEF PowersOn
    <2>2. CASE action' \in {"resume", "release", "unlatch"}
      <3>1. pc' = "on_save"
        BY <2>1, <2>2 DEF AwaitFor, PowersOn
      <3> QED
        BY <1>1, <1>2, <1>3, <1>4, <1>5, <2>2, <3>1
    <2>3. CASE action' = "stop"
      <3>1. pc' = "stop_save"
        BY <2>1, <2>3 DEF AwaitFor, PowersOn
      <3> QED
        BY <1>1, <1>2, <1>3, <1>5, <2>3, <3>1
    <2>4. CASE action' = "reassert"
      <3>1. pc' = "stop_send"
        BY <2>1, <2>4 DEF AwaitFor, PowersOn
      <3> QED
        BY <1>1, <1>2, <1>3, <1>5, <2>4, <3>1
    <2> QED
      BY <1>5, <2>2, <2>3, <2>4
  <1>6. CASE action' \in {"adopt", "none"} /\ pc' = "save" /\ view' = i
             /\ UNCHANGED <<lockOff, delayed>>
    <2>1. /\ pc' # "idle" /\ pc' # "stop_save" /\ pc' # "stop_send"
          /\ pc' # "on_save" /\ pc' # "relock_send"
      BY <1>6
    <2>2. view' \in View /\ lockOff' \in 0..Relock /\ delayed' \in BOOLEAN
      BY <1>1, <1>6
    <2>3. pc' = "on_save" => ~latched'
      BY <2>1
    <2>4. pc' # "on_save" => action' # "unlatch"
      BY <1>6
    <2> QED
      BY <1>2, <1>3, <1>6, <2>1, <2>2, <2>3, <2>4
  <1>7. CASE action' = "none" /\ ~Transition /\ delayed' = (delayed \/ shutoff' # shutoff)
             /\ Ends(i, latched')
    <2>1. /\ pc' \in {"idle", "relock_send"} /\ (pc' = "idle" => view' = NoView)
          /\ view' \in View /\ lockOff' \in 0..Relock
      BY <1>7, Ending DEF ControllerInv
    <2>2. shutoff'.owned = shutoff.owned /\ delayed' \in BOOLEAN
      BY <1>1, <1>7 DEF Transition
    <2> QED
      BY <1>2, <1>3, <1>7, <2>1, <2>2
  <1> QED
    BY <1>5, <1>6, <1>7 DEF Deciding

\* The trip of the lockout, and a decision.
LEMMA DecisionsKeep ==
    ASSUME ControllerInv,
           \/ \E e \in Environment : Trip(e) \/ DecideStep(e)
           \/ \E o \in Outcomes : TripSend(o)
    PROVE  ControllerInv'
  <1>1. ASSUME NEW e \in Environment, Trip(e)
        PROVE  ControllerInv'
    <2> DEFINE i == WithEnvironment(e)
    <2>1. i \in View
      BY Reading
    <2>2. /\ pc = "forecast" /\ latched' = TRUE /\ view' = [i EXCEPT !.latched = TRUE]
          /\ pc' = "trip_save" /\ offBy' = "lockout"
          /\ UNCHANGED <<machine, userOff, lockOff, calls, disk, delayed, data, miner>>
      BY <1>1 DEF Trip, plant
    <2> HIDE DEF i
    <2>3. view' \in View /\ view'.latched
      BY <2>1, <2>2 DEF View
    <2>4. PlainTypes'
      BY <2>2, <2>3 DEF ControllerInv, PlainTypes, Places
    <2>5. LockInv' /\ StepInv'
      BY <2>2, <2>3 DEF ControllerInv, LockInv, Locked, StepInv
    <2>6. TypeOK' /\ OwnerInv'
      BY <2>2 DEF ControllerInv, machine, TypeOK, OwnerInv, OwnershipInv, Consistent
    <2> QED
      BY <2>4, <2>5, <2>6 DEF ControllerInv
  <1>2. ASSUME NEW i \in View, i.latched = latched, Deciding(i), pc # "idle",
               miner' \in [on : BOOLEAN, hashes : BOOLEAN]
        PROVE  ControllerInv'
    <2>1. /\ TypeOK' /\ OwnershipInv' /\ Decided(i) /\ mode' = mode
          /\ latched' = (latched /\ action' # "unlatch")
          /\ pc' \in {"idle", "relock_send", "stop_save", "stop_send", "on_save", "save"}
          /\ pc' = "idle" => view' = NoView
          /\ view' \in View /\ lockOff' \in 0..Relock /\ delayed' \in BOOLEAN
          /\ pc' \in {"stop_save", "stop_send"} => action' \in {"stop", "reassert"}
          /\ pc' = "on_save" => ~latched'
          /\ UNCHANGED <<userOff, calls, disk, offBy, data>>
      BY <1>2, DecisionPlaces
    <2>2. PlainTypes'
      BY <1>2, <2>1 DEF ControllerInv, PlainTypes, Places
    <2>3. LockInv'
      BY <1>2, <2>1 DEF ControllerInv, LockInv, Locked
    <2>4. latched \in BOOLEAN
      BY DEF ControllerInv, PlainTypes
    <2>5. StepInv'
      BY <1>2, <2>1, <2>4 DEF StepInv, Decided
    <2>6. OwnerInv'
      BY <2>1 DEF ControllerInv, OwnerInv, Consistent
    <2> QED
      BY <2>1, <2>2, <2>3, <2>5, <2>6 DEF ControllerInv
  <1>3. ASSUME NEW e \in Environment, DecideStep(e)
        PROVE  ControllerInv'
    <2>1. /\ WithEnvironment(e) \in View /\ WithEnvironment(e).latched = latched
          /\ Deciding(WithEnvironment(e)) /\ pc # "idle" /\ miner' = miner
      BY <1>3, Reading DEF DecideStep, ControllerInv, StepInv
    <2>2. miner' \in [on : BOOLEAN, hashes : BOOLEAN]
      BY <2>1 DEF ControllerInv, PlainTypes
    <2> QED
      BY <1>2, <2>1, <2>2
  <1>4. ASSUME NEW o \in Outcomes, TripSend(o)
        PROVE  ControllerInv'
    <2>1. view \in View /\ view.latched = latched /\ Deciding(view) /\ pc # "idle"
      BY <1>4 DEF TripSend, ControllerInv, StepInv, PlainTypes, View
    <2>2. miner' \in [on : BOOLEAN, hashes : BOOLEAN]
      BY <1>4, Powering DEF TripSend, ControllerInv
    <2> QED
      BY <1>2, <2>1, <2>2
  <1> QED
    BY <1>1, <1>3, <1>4

\* The saves of the step.
LEMMA SavesKeep ==
    ASSUME ControllerInv, SaveStep \/ LastSave
    PROVE  ControllerInv'
  <1>1. /\ pc # "idle" /\ Saves /\ UNCHANGED <<machine, latched, userOff, calls, plant, offBy>>
    BY DEF SaveStep, LastSave
  <1>2. UNCHANGED <<mode, shutoff, action, data, miner>>
    BY <1>1 DEF machine, plant
  <1>3. /\ disk' \in [latched : BOOLEAN, shutoff : ShutoffState]
        /\ Consistent(disk.shutoff, "observe")' /\ delayed' = FALSE
    BY <1>1, <1>2, Saving
  <1>4. /\ pc' \in Places /\ (pc' = "idle" => view' = NoView)
        /\ view' \in View /\ lockOff' \in 0..Relock
        /\ \/ pc' \in {"idle", "relock_send", "save"}
           \/ pc = "trip_save" /\ pc' = "trip_send" /\ view' = view
           \/ pc = "stop_save" /\ pc' = "stop_send"
           \/ pc = "on_save" /\ pc' = "on_send"
    <2>1. CASE SaveStep
      <3> DEFINE to == CASE pc = "trip_save" -> "trip_send" [] pc = "stop_save" -> "stop_send"
                         [] pc = "on_save" -> "on_send"     [] pc = "fail_save" -> "save"
      <3>1. /\ pc \in {"trip_save", "stop_save", "on_save", "fail_save"}
            /\ Moves(to) /\ lockOff' \in {0, lockOff}
        BY <2>1 DEF SaveStep
      <3>2. /\ to \in {"trip_send", "stop_send", "on_send", "save"}
            /\ pc = "trip_save" <=> to = "trip_send"
            /\ pc = "stop_save" <=> to = "stop_send"
            /\ pc = "on_save" <=> to = "on_send"
        BY <3>1
      <3> HIDE DEF to
      <3>3. pc' = to /\ view' = view
        BY <3>1, <3>2 DEF Moves
      <3> QED
        BY <3>1, <3>2, <3>3, Parameters DEF ControllerInv, PlainTypes, Places
    <2>2. CASE LastSave
      BY <2>2, Ending DEF LastSave, ControllerInv, PlainTypes, Places
    <2> QED
      BY <2>1, <2>2
  <1>5. PlainTypes'
    BY <1>1, <1>2, <1>3, <1>4 DEF ControllerInv, PlainTypes
  <1>6. LockInv'
    BY <1>1 DEF ControllerInv, LockInv, Locked
  <1>7. StepInv'
    BY <1>1, <1>2, <1>4 DEF ControllerInv, StepInv
  <1>8. TypeOK' /\ OwnerInv'
    BY <1>2, <1>3 DEF ControllerInv, TypeOK, OwnerInv, OwnershipInv, Consistent
  <1> QED
    BY <1>5, <1>6, <1>7, <1>8 DEF ControllerInv

\* What a command that raised leaves in the state is typed, and owned as before.
LEMMA FailedSends ==
    ASSUME TypeOK, OwnershipInv, StopSendFailed \/ ResumeSendFailed
    PROVE  /\ TypeOK' /\ OwnershipInv' /\ mode' = mode
           /\ SameStop(shutoff', shutoff)
           /\ shutoff'.stop_failed \in {shutoff.stop_failed, 0}
  <1>1. CASE StopSendFailed
    <2> DEFINE t == [shutoff EXCEPT !.stop_failed = 0]
    <2>1. t \in ShutoffState /\ SameStop(t, shutoff) /\ t.stop_failed = 0
      BY AgeFacts, HorizonsAreNat DEF TypeOK, ShutoffState, SameStop
    <2>2. Consistent(t, mode)
      BY DEF OwnershipInv, Consistent, TypeOK, ShutoffState
    <2>3. shutoff' = t /\ action' = "none" /\ mode' = mode
      BY <1>1 DEF StopSendFailed, Sets
    <2> HIDE DEF t
    <2> QED
      BY <2>1, <2>2, <2>3 DEF TypeOK, Actions, OwnershipInv
  <1>2. CASE ResumeSendFailed
    <2> DEFINE t == PowerOnFailed(shutoff)
    <2>1. ResumeHorizon - PowerOnRetry \in Age(ResumeHorizon) /\ ResumeHorizon - PowerOnRetry # None
      BY AgeFacts, HorizonsAreNat DEF None
    <2>2. /\ t \in ShutoffState /\ SameStop(t, shutoff) /\ t.stop_failed = shutoff.stop_failed
      BY <2>1 DEF TypeOK, ShutoffState, SameStop, PowerOnFailed
    <2>3. Consistent(t, mode)
      BY <2>1 DEF OwnershipInv, Consistent, TypeOK, ShutoffState, PowerOnFailed
    <2>4. shutoff' = t /\ action' = "none" /\ mode' = mode
      BY <1>2 DEF ResumeSendFailed, Sets
    <2> HIDE DEF t
    <2> QED
      BY <2>2, <2>3, <2>4 DEF TypeOK, Actions, OwnershipInv
  <1> QED
    BY <1>1, <1>2

\* The commands of the step.
LEMMA CommandsKeep ==
    ASSUME ControllerInv,
           \E o \in Outcomes : RelockSend(o) \/ ShutoffOff(o) \/ ShutoffOn(o)
    PROVE  ControllerInv'
  <1>1. PICK o \in Outcomes : RelockSend(o) \/ ShutoffOff(o) \/ ShutoffOn(o)
    OBVIOUS
  <1>2. /\ pc # "idle"
        /\ PoweredOff(o) \/ PoweredOn(o)
        /\ UNCHANGED <<memory, calls, disk, delayed, data>>
        /\ offBy' \in {"lockout", "shutoff", "none", offBy}
    BY <1>1 DEF RelockSend, ShutoffOff, ShutoffOn
  <1>3. pc' \in {"idle", "fail_save", "save"} /\ (pc' = "idle" => view' = NoView) /\ view' \in View
    <2>1. NoView \in View
      BY DEF NoView, View, None
    <2>2. Moves("idle") \/ Moves("fail_save") \/ Moves("save")
      BY <1>1 DEF RelockSend, ShutoffOff, ShutoffOn
    <2> QED
      BY <2>1, <2>2 DEF Moves, ControllerInv, PlainTypes
  <1>4. UNCHANGED machine \/ StopSendFailed \/ ResumeSendFailed
    BY <1>1 DEF RelockSend, ShutoffOff, ShutoffOn
  <1>5. TypeOK' /\ OwnershipInv'
    <2>1. CASE UNCHANGED machine
      BY <2>1 DEF machine, ControllerInv, OwnerInv, TypeOK, OwnershipInv, Consistent
    <2>2. CASE StopSendFailed \/ ResumeSendFailed
      BY <2>2, FailedSends DEF ControllerInv, OwnerInv
    <2> QED
      BY <1>4, <2>1, <2>2
  <1>6. miner' \in [on : BOOLEAN, hashes : BOOLEAN]
    BY <1>2, Powering DEF ControllerInv
  <1>7. PlainTypes'
    BY <1>2, <1>3, <1>6 DEF ControllerInv, PlainTypes, memory, Places
  <1>8. LockInv'
    BY <1>2 DEF ControllerInv, LockInv, Locked
  <1>9. StepInv'
    BY <1>3 DEF StepInv
  <1>10. OwnerInv'
    BY <1>2, <1>5 DEF ControllerInv, OwnerInv, Consistent
  <1> QED
    BY <1>5, <1>7, <1>8, <1>9, <1>10 DEF ControllerInv

\* An override or a reset under the lock.
LEMMA OverridesKeep ==
    ASSUME ControllerInv, OnOverrides \/ OffOverrides \/ ResetClears
    PROVE  ControllerInv'
  <1>1. PICK c \in Calls : Waits(c, "wait", "save")
    BY DEF OnOverrides, OffOverrides, ResetClears
  <1>2. /\ LockFree /\ latched' \in {latched, FALSE} /\ userOff' \in {userOff, 0}
        /\ offBy' \in {"none", offBy}
        /\ UNCHANGED <<lockOff, pc, view, disk, delayed, data, miner>>
    BY DEF OnOverrides, OffOverrides, ResetClears, memory, plant
  <1>3. pc = "idle" /\ ~Locked
    BY <1>2 DEF LockFree, Locked
  <1>4. TypeOK' /\ OwnershipInv'
    <2> DEFINE d == Disowned(shutoff)
               t == [d EXCEPT !.suppressed = TRUE]
    <2>1. d \in ShutoffState /\ Consistent(d, mode)
      BY DisownedType, RunningConsistent DEF ControllerInv, TypeOK
    <2>2. t \in ShutoffState /\ Consistent(t, mode)
      BY <2>1 DEF Consistent, ShutoffState
    <2>3. Sets(t) \/ Sets(d)
      BY DEF OnOverrides, OffOverrides, ResetClears, UserMiningOn, UserMiningOff, LockoutReset
    <2> HIDE DEF d, t
    <2> QED
      BY <2>1, <2>2, <2>3 DEF Sets, ControllerInv, TypeOK, Actions, OwnershipInv
  <1>5. /\ calls' \in [Calls -> Waiting] /\ calls'[c] = "save"
        /\ \A d \in Calls : d # c => calls'[d] = calls[d]
    BY <1>1, CallMoves DEF ControllerInv, Waiting
  <1>6. PlainTypes'
    <2>1. userOff' \in 0..UserOffGrace
      BY <1>2, Parameters DEF ControllerInv, PlainTypes
    <2>2. latched' \in BOOLEAN
      BY <1>2 DEF ControllerInv, PlainTypes
    <2> QED
      BY <1>2, <1>5, <2>1, <2>2 DEF ControllerInv, PlainTypes
  <1>7. LockInv'
    BY <1>2, <1>3, <1>5 DEF LockInv, Locked
  <1>8. StepInv'
    BY <1>2, <1>3 DEF StepInv
  <1>9. OwnerInv'
    BY <1>2, <1>4 DEF ControllerInv, OwnerInv, Consistent
  <1> QED
    BY <1>4, <1>6, <1>7, <1>8, <1>9 DEF ControllerInv

\* The saves of a call, and the delayed one.
LEMMA OtherSavesKeep ==
    ASSUME ControllerInv, (\E c \in Calls : CallSaves(c)) \/ DelayedSave
    PROVE  ControllerInv'
  <1>1. Saves /\ UNCHANGED <<machine, memory, pc, view, plant, offBy>>
    BY DEF CallSaves, DelayedSave
  <1>2. UNCHANGED <<mode, shutoff, action, latched, userOff, lockOff, data, miner>>
    BY <1>1 DEF machine, memory, plant
  <1>3. calls' \in [Calls -> Waiting] /\ \A d \in Calls : calls'[d] = "save" => calls[d] = "save"
    <2>1. CASE DelayedSave
      BY <2>1 DEF DelayedSave, ControllerInv, PlainTypes
    <2>2. CASE \E c \in Calls : CallSaves(c)
      BY <2>2, CallMoves DEF CallSaves, ControllerInv, Waiting
    <2> QED
      BY <2>1, <2>2
  <1>4. /\ disk' \in [latched : BOOLEAN, shutoff : ShutoffState]
        /\ Consistent(disk.shutoff, "observe")' /\ delayed' = FALSE
    BY <1>1, <1>2, Saving
  <1>5. PlainTypes'
    BY <1>1, <1>2, <1>3, <1>4 DEF ControllerInv, PlainTypes
  <1>6. LockInv'
    BY <1>1, <1>3 DEF ControllerInv, LockInv, Locked
  <1>7. StepInv'
    BY <1>1, <1>2 DEF ControllerInv, StepInv
  <1>8. TypeOK' /\ OwnerInv'
    BY <1>2, <1>4 DEF ControllerInv, TypeOK, OwnerInv, OwnershipInv, Consistent
  <1> QED
    BY <1>5, <1>6, <1>7, <1>8 DEF ControllerInv

\* A tick keeps a consistent ownership consistent, and the owner.
LEMMA AgedConsistent ==
    ASSUME NEW s \in ShutoffState, NEW m, Consistent(s, m)
    PROVE  Consistent(Aged(s), m) /\ Aged(s).owned = s.owned
  <1>1. /\ Aged(s).resume_sent = None <=> s.resume_sent = None
        /\ Aged(s).dwell_start = None <=> s.dwell_start = None
    BY OlderNone, HorizonsAreNat DEF Aged, ShutoffState
  <1>2. /\ Aged(s).state = s.state /\ Aged(s).owned = s.owned
        /\ Aged(s).simulated = s.simulated /\ Aged(s).dwell_trigger = s.dwell_trigger
    BY DEF Aged, ShutoffState
  <1> QED
    BY <1>1, <1>2 DEF Consistent

\* So does what from_dict() makes of a saved state, in any mode.
LEMMA RestoredConsistent ==
    ASSUME NEW s \in ShutoffState, NEW m, Consistent(s, "observe")
    PROVE  Consistent(Restored(s, m), m) /\ Restored(s, m).owned = s.owned
  <1>1. CASE s.simulated /\ m # "observe"
    <2> DEFINE t == [InitialState EXCEPT !.gate_armed = s.gate_armed]
    <2>1. Consistent(t, m) /\ t.owned = FALSE
      BY DEF InitialState, Consistent
    <2>2. s.owned = FALSE
      BY <1>1 DEF Consistent, ShutoffState
    <2>3. Restored(s, m) = t
      BY <1>1 DEF Restored
    <2> QED
      BY <2>1, <2>2, <2>3
  <1>2. CASE ~(s.simulated /\ m # "observe") /\ s.state = "dwell"
    <2> DEFINE t == [s EXCEPT !.state = "running", !.dwell_start = None, !.dwell_trigger = "none"]
    <2>1. Consistent(t, m) /\ t.owned = s.owned
      BY <1>2 DEF Consistent, ShutoffState
    <2>2. Restored(s, m) = t
      BY <1>2 DEF Restored
    <2> QED
      BY <2>1, <2>2
  <1>3. CASE ~(s.simulated /\ m # "observe") /\ s.state # "dwell"
    BY <1>3 DEF Restored, Consistent
  <1> QED
    BY <1>1, <1>2, <1>3

\* Time passes, Home Assistant dies or the entry is reloaded.
LEMMA RestartsKeep ==
    ASSUME ControllerInv, Passes \/ \E m \in Modes : Crash(m) \/ Reload(m)
    PROVE  ControllerInv'
  <1>1. CASE Passes
    <2>1. /\ shutoff' = Aged(shutoff) /\ disk' = [disk EXCEPT !.shutoff = Aged(@)]
          /\ userOff' = Older(userOff, UserOffGrace) /\ lockOff' = Older(lockOff, Relock)
          /\ pc = "idle" /\ ~Locked
          /\ UNCHANGED <<mode, action, latched, pc, view, calls, delayed, data, miner, offBy>>
      BY <1>1 DEF Passes, Quiet, Locked, plant
    <2>2. shutoff \in ShutoffState /\ disk.shutoff \in ShutoffState
      BY DEF ControllerInv, TypeOK, PlainTypes
    <2>3. Aged(shutoff) \in ShutoffState /\ Aged(disk.shutoff) \in ShutoffState
      BY <2>2, AgedType
    <2>4. disk' \in [latched : BOOLEAN, shutoff : ShutoffState] /\ disk'.shutoff = Aged(disk.shutoff)
      BY <2>1, <2>3 DEF ControllerInv, PlainTypes
    <2>5. userOff' \in 0..UserOffGrace /\ lockOff' \in 0..Relock
      BY <2>1, Parameters DEF ControllerInv, PlainTypes, Older, None
    <2>6. PlainTypes'
      BY <2>1, <2>4, <2>5 DEF ControllerInv, PlainTypes
    <2>7. LockInv' /\ StepInv'
      BY <2>1 DEF LockInv, Locked, StepInv, ControllerInv
    <2>8. Consistent(shutoff', mode') /\ Consistent(disk'.shutoff, "observe")
      BY <2>1, <2>2, <2>4, AgedConsistent DEF ControllerInv, OwnerInv, OwnershipInv
    <2>9. TypeOK' /\ OwnerInv'
      BY <2>1, <2>3, <2>8 DEF ControllerInv, TypeOK, OwnerInv, OwnershipInv
    <2> QED
      BY <2>6, <2>7, <2>9 DEF ControllerInv
  <1>2. CASE \E m \in Modes : Crash(m) \/ Reload(m)
    <2>1. PICK m \in Modes : Crash(m) \/ Reload(m)
      BY <1>2
    <2>2. PICK d \in [latched : BOOLEAN, shutoff : ShutoffState] :
            SetsUp(d, m) /\ disk' = d /\ Consistent(d.shutoff, "observe")
      <3>1. CASE Crash(m)
        BY <3>1 DEF Crash, ControllerInv, PlainTypes, OwnerInv
      <3>2. CASE Reload(m)
        <4>1. Stored \in [latched : BOOLEAN, shutoff : ShutoffState] /\ Stored.shutoff = shutoff
          BY DEF Stored, ControllerInv, TypeOK, PlainTypes
        <4>2. Consistent(shutoff, "observe")
          BY DEF ControllerInv, OwnerInv, OwnershipInv, Consistent
        <4> QED
          BY <3>2, <4>1, <4>2 DEF Reload
      <3> QED
        BY <2>1, <3>1, <3>2
    <2>3. /\ calls' \in [Calls -> Waiting] /\ UNCHANGED <<miner, offBy>>
          /\ \A c \in Calls : calls'[c] = "idle"
      BY <2>1 DEF Crash, Reload, Quiet, ControllerInv, PlainTypes, Waiting
    <2>4. NoView \in View /\ NoPoll \in [is_mining : BOOLEAN, fresh : BOOLEAN]
      BY DEF NoView, View, None, NoPoll
    <2>5. PlainTypes'
      <3>1. userOff' \in 0..UserOffGrace /\ lockOff' \in 0..Relock
        BY <2>2, Parameters DEF SetsUp
      <3>2. /\ latched' = d.latched /\ delayed' = FALSE /\ pc' = "idle" /\ view' = NoView
            /\ data' = NoPoll /\ disk' = d
        BY <2>2 DEF SetsUp
      <3>3. latched' \in BOOLEAN /\ delayed' \in BOOLEAN
        BY <3>2
      <3> QED
        BY <2>3, <2>4, <3>1, <3>2, <3>3 DEF ControllerInv, PlainTypes, Places
    <2>6. LockInv' /\ StepInv'
      BY <2>2, <2>3 DEF LockInv, Locked, StepInv, SetsUp
    <2>7. Restored(d.shutoff, m) \in ShutoffState /\ Consistent(Restored(d.shutoff, m), m)
      BY <2>2, RestoredType, RestoredConsistent
    <2>8. TypeOK' /\ OwnerInv'
      BY <2>2, <2>7 DEF TypeOK, Actions, OwnerInv, OwnershipInv, SetsUp
    <2> QED
      BY <2>5, <2>6, <2>8 DEF ControllerInv
  <1> QED
    BY <1>1, <1>2

\* The controller begins with an empty Store.
LEMMA ControllerBegins ==
    ASSUME ControllerInit
    PROVE  ControllerInv
  <1>1. TypeOK /\ OwnershipInv /\ InitialState \in ShutoffState
    BY ZeroCounts, AgeFacts, HorizonsAreNat
       DEF ControllerInit, Init, TypeOK, InitialState, ShutoffState, ShutoffStates, Actions,
           OwnershipInv, Consistent
  <1>2. Consistent(InitialState, "observe")
    BY DEF Consistent, InitialState
  <1>3. NoView \in View /\ NoPoll \in [is_mining : BOOLEAN, fresh : BOOLEAN]
    BY DEF NoView, View, None, NoPoll
  <1>4. /\ latched = FALSE /\ pc = "idle" /\ view = NoView /\ delayed = FALSE /\ data = NoPoll
        /\ calls = [c \in Calls |-> "idle"]
        /\ disk = [latched |-> FALSE, shutoff |-> InitialState]
        /\ miner \in [on : BOOLEAN, hashes : BOOLEAN]
        /\ userOff = UserOffGrace /\ lockOff = Relock /\ offBy = "none"
    BY DEF ControllerInit
  <1>5. PlainTypes
    <2>1. userOff \in 0..UserOffGrace /\ lockOff \in 0..Relock
      BY <1>4, Parameters
    <2>2. disk \in [latched : BOOLEAN, shutoff : ShutoffState]
      BY <1>1, <1>4
    <2> QED
      BY <1>3, <1>4, <2>1, <2>2 DEF PlainTypes, Places, Waiting
  <1>6. LockInv /\ StepInv /\ OwnerInv
    BY <1>1, <1>2, <1>4 DEF LockInv, Locked, StepInv, OwnerInv
  <1> QED
    BY <1>1, <1>5, <1>6 DEF ControllerInv

\* Every step keeps the invariant.
LEMMA ControllerSteps ==
    ASSUME ControllerInv, [ControllerNext]_allVars
    PROVE  ControllerInv'
  BY OthersKeep, BeginningsKeep, DecisionsKeep, SavesKeep, CommandsKeep, OverridesKeep,
     OtherSavesKeep, RestartsKeep
     DEF ControllerNext, Runs, StepProceeds, CallProceeds, Disturbs

\* Every action keeps the types of the controller's state: no await, failed
\* command, call or restart leaves a step, a flag or an age out of its range,
\* and the step lock has one holder.
THEOREM ControllerTypes == ControllerSpec => []ControllerTypeOK
  <1>1. ControllerInv /\ [ControllerNext]_allVars => ControllerInv'
    BY ControllerSteps
  <1>2. ControllerSpec => []ControllerInv
    BY <1>1, ControllerBegins, PTL DEF ControllerSpec
  <1> QED
    BY <1>2, InvTypes, PTL

\* The ownership survives: whichever await Home Assistant dies at, and whatever
\* the Store then holds, the restored flags agree with the state beside them.
THEOREM OwnershipSurvives == ControllerSpec => []OwnershipInv
  <1>1. ControllerInv /\ [ControllerNext]_allVars => ControllerInv'
    BY ControllerSteps
  <1>2. ControllerInv => OwnershipInv
    BY DEF ControllerInv, OwnerInv
  <1> QED
    BY <1>1, <1>2, ControllerBegins, PTL DEF ControllerSpec

(***************************************************************************)
(* Memory and the Store, when no write fails                               *)
(***************************************************************************)

\* Memory and Store differ only where a save is still to come; the latch is
\* ahead of the Store only before the save of its trip.
StoreInv ==
    /\ ~Locked /\ pc \notin {"trip_save", "on_save"} => disk.latched = latched
    /\ ~Locked /\ pc \notin {"stop_save", "on_save", "fail_save", "save"} =>
         disk.shutoff.owned = shutoff.owned
    /\ latched => disk.latched \/ pc = "trip_save"

\* What changes neither of them, nor the place of a save.
LEMMA StoreElsewhere ==
    ASSUME StoreInv, UNCHANGED <<latched, shutoff, pc, disk>>,
           \A c \in Calls : calls'[c] = "save" <=> calls[c] = "save"
    PROVE  StoreInv'
  BY DEF StoreInv, Locked

\* A decision leaves to a save what it changed.
LEMMA StoreDecides ==
    ASSUME ControllerInv, StoreInv, pc \in {"forecast", "trip_send"},
           NEW i \in View, i.latched = latched, Deciding(i)
    PROVE  StoreInv'
  <1>1. ~Locked /\ disk.latched = latched /\ disk.shutoff.owned = shutoff.owned
    BY DEF ControllerInv, LockInv, StoreInv
  <1>2. /\ Decided(i) /\ UNCHANGED <<calls, disk>>
        /\ latched' = (latched /\ action' # "unlatch")
        /\ pc' \in {"idle", "relock_send", "stop_save", "stop_send", "on_save", "save"}
        /\ pc' = "stop_send" => action' = "reassert"
        /\ pc' = "on_save" => ~latched'
        /\ pc' # "on_save" => action' # "unlatch"
        /\ pc' \in {"idle", "relock_send"} => shutoff'.owned = shutoff.owned
    BY DecisionPlaces
  <1>3. latched \in BOOLEAN /\ shutoff'.owned \in BOOLEAN /\ shutoff.owned \in BOOLEAN
    BY DecisionPlaces DEF ControllerInv, PlainTypes, TypeOK, ShutoffState
  <1>4. pc' # "on_save" => latched' = latched
    BY <1>2, <1>3
  <1>5. pc' = "stop_send" => shutoff'.owned = shutoff.owned
    BY <1>2, <1>3 DEF Decided
  <1> QED
    BY <1>1, <1>2, <1>4, <1>5 DEF StoreInv

\* A save makes them agree.
LEMMA StoreSaves ==
    ASSUME ControllerInv, ~SaveFails, Saves, UNCHANGED <<latched, shutoff>>
    PROVE  StoreInv'
  BY Saving DEF StoreInv

\* A decision is taken by the step at the forecast or after the trip.
LEMMA DecisionInputs ==
    ASSUME ControllerInv, \/ \E e \in Environment : DecideStep(e)
                          \/ \E o \in Outcomes : TripSend(o)
    PROVE  /\ pc \in {"forecast", "trip_send"}
           /\ \E i \in View :
                /\ i.latched = latched /\ Deciding(i)
                /\ i.fresh = view.fresh /\ i.is_mining = view.is_mining
                /\ i.user_off = view.user_off
                /\ i.freeze = view.freeze \/ \E e \in Environment : i.freeze = e.freeze
                /\ pc = "forecast" => miner' = miner
                /\ pc = "trip_send" => latched
  <1>1. CASE \E e \in Environment : DecideStep(e)
    <2>1. PICK e \in Environment : DecideStep(e)
      BY <1>1
    <2>2. /\ WithEnvironment(e) \in View /\ WithEnvironment(e).latched = view.latched
          /\ WithEnvironment(e).fresh = view.fresh
          /\ WithEnvironment(e).is_mining = view.is_mining
          /\ WithEnvironment(e).user_off = view.user_off
          /\ WithEnvironment(e).freeze = e.freeze
      BY Reading
    <2>3. pc = "forecast" /\ Deciding(WithEnvironment(e)) /\ miner' = miner
      BY <2>1 DEF DecideStep
    <2>4. view.latched = latched
      BY <2>3 DEF ControllerInv, StepInv
    <2> QED
      BY <2>2, <2>3, <2>4
  <1>2. CASE \E o \in Outcomes : TripSend(o)
    <2>1. pc = "trip_send" /\ Deciding(view)
      BY <1>2 DEF TripSend
    <2>2. view \in View /\ latched \in BOOLEAN
      BY DEF ControllerInv, PlainTypes
    <2>3. latched /\ view.latched
      BY <2>1 DEF ControllerInv, StepInv
    <2>4. view.latched = latched
      BY <2>2, <2>3 DEF View
    <2> QED
      BY <2>1, <2>2, <2>3, <2>4
  <1> QED
    BY <1>1, <1>2

\* A restart sets memory to what the Store holds.
LEMMA SettingUp ==
    ASSUME ControllerInv, NEW m \in Modes, Crash(m) \/ Reload(m)
    PROVE  /\ latched' = disk'.latched /\ shutoff'.owned = disk'.shutoff.owned
           /\ pc' = "idle" /\ (\A c \in Calls : calls'[c] = "idle")
           /\ UNCHANGED <<miner, offBy>>
           /\ disk' = disk \/ (disk'.latched = latched /\ disk'.shutoff = shutoff)
  <1>1. shutoff \in ShutoffState /\ disk.shutoff \in ShutoffState
        /\ Consistent(shutoff, "observe") /\ Consistent(disk.shutoff, "observe")
    BY DEF ControllerInv, TypeOK, PlainTypes, OwnerInv, OwnershipInv, Consistent
  <1>2. CASE Crash(m)
    BY <1>1, <1>2, RestoredConsistent DEF Crash, SetsUp
  <1>3. CASE Reload(m)
    <2>1. Stored.latched = latched /\ Stored.shutoff = shutoff
      BY DEF Stored
    <2> QED
      BY <1>1, <1>3, <2>1, RestoredConsistent DEF Reload, SetsUp, Quiet
  <1> QED
    BY <1>2, <1>3

\* Every step keeps it.
LEMMA StoreSteps ==
    ASSUME ControllerInv, StoreInv, ~SaveFails, [ControllerNext]_allVars
    PROVE  StoreInv'
  <1>1. CASE \/ Boots \/ Drains \/ StartsByItself \/ OnCalled \/ OffCalled \/ ResetCalled
             \/ (\E o \in Outcomes : OnSends(o) \/ OffSends(o))
             \/ UNCHANGED allVars
    <2>1. UNCHANGED <<machine, latched, pc, disk>>
      BY <1>1 DEF Boots, Drains, StartsByItself, OnCalled, OffCalled, ResetCalled,
                  OnSends, OffSends, allVars, memory
    <2>2. \A c \in Calls : calls'[c] = "save" <=> calls[c] = "save"
      <3>1. CASE UNCHANGED calls
        BY <3>1
      <3>2. CASE \E c \in Calls : Waits(c, "idle", "wait") \/ Waits(c, "send", "idle")
        BY <3>2, CallMoves DEF ControllerInv, Waiting
      <3> QED
        BY <1>1, <3>1, <3>2
           DEF Boots, Drains, StartsByItself, OnCalled, OffCalled, ResetCalled,
               OnSends, OffSends, allVars
    <2> QED
      BY <2>1, <2>2, StoreElsewhere DEF machine
  <1>2. CASE (\E fresh \in BOOLEAN : PollStep(fresh)) \/ TimerStep \/ ResetNotifies
    <2>1. UNCHANGED <<machine, latched, disk>>
      BY <1>2 DEF PollStep, TimerStep, ResetNotifies, memory
    <2>2. \A c \in Calls : calls'[c] = "save" <=> calls[c] = "save"
      BY <1>2, CallMoves DEF PollStep, TimerStep, ResetNotifies, ControllerInv, Waiting
    <2>3. pc' = pc \/ (pc = "idle" /\ pc' = "forecast")
      BY <1>2 DEF PollStep, TimerStep, ResetNotifies, Begins, StepMayRun, LockFree
    <2> QED
      BY <2>1, <2>2, <2>3 DEF StoreInv, Locked, machine
  <1>3. CASE \E e \in Environment : Trip(e)
    <2>1. /\ pc = "forecast" /\ pc' = "trip_save"
          /\ UNCHANGED <<machine, calls, disk>>
      BY <1>3 DEF Trip
    <2> QED
      BY <2>1 DEF StoreInv, Locked, machine
  <1>4. CASE (\E e \in Environment : DecideStep(e)) \/ (\E o \in Outcomes : TripSend(o))
    BY <1>4, DecisionInputs, StoreDecides
  <1>5. CASE SaveStep \/ LastSave \/ DelayedSave \/ \E c \in Calls : CallSaves(c)
    <2>1. Saves /\ UNCHANGED <<latched, shutoff>>
      BY <1>5 DEF SaveStep, LastSave, DelayedSave, CallSaves, machine, memory
    <2> QED
      BY <2>1, StoreSaves
  <1>6. CASE \E o \in Outcomes : RelockSend(o) \/ ShutoffOff(o) \/ ShutoffOn(o)
    <2>1. /\ UNCHANGED <<latched, calls, disk>>
          /\ pc \in {"relock_send", "stop_send", "on_send"}
          /\ \/ pc = "relock_send" /\ pc' = "idle" /\ UNCHANGED machine
             \/ pc' \in {"fail_save", "save"}
      BY <1>6 DEF RelockSend, ShutoffOff, ShutoffOn, Moves, memory
    <2> QED
      BY <2>1 DEF StoreInv, Locked, machine
  <1>7. CASE OnOverrides \/ OffOverrides \/ ResetClears
    <2>1. PICK c \in Calls : Waits(c, "wait", "save")
      BY <1>7 DEF OnOverrides, OffOverrides, ResetClears
    <2>2. calls'[c] = "save"
      BY <2>1, CallMoves DEF ControllerInv, Waiting
    <2>3. UNCHANGED <<pc, disk>> /\ (latched' => latched)
      BY <1>7 DEF OnOverrides, OffOverrides, ResetClears, memory
    <2> QED
      BY <2>2, <2>3 DEF StoreInv, Locked
  <1>8. CASE Passes
    <2>1. /\ shutoff' = Aged(shutoff) /\ disk' = [disk EXCEPT !.shutoff = Aged(@)]
          /\ UNCHANGED <<latched, pc, calls>>
      BY <1>8 DEF Passes
    <2>2. /\ shutoff \in ShutoffState /\ disk.shutoff \in ShutoffState
          /\ disk \in [latched : BOOLEAN, shutoff : ShutoffState]
          /\ Consistent(shutoff, mode) /\ Consistent(disk.shutoff, "observe")
      BY DEF ControllerInv, TypeOK, PlainTypes, OwnerInv, OwnershipInv
    <2>3. /\ shutoff'.owned = shutoff.owned /\ disk'.latched = disk.latched
          /\ disk'.shutoff.owned = disk.shutoff.owned
      BY <2>1, <2>2, AgedConsistent
    <2> QED
      BY <2>1, <2>3 DEF StoreInv, Locked
  <1>9. CASE \E m \in Modes : Crash(m) \/ Reload(m)
    BY <1>9, SettingUp DEF StoreInv, Locked
  <1> QED
    BY <1>1, <1>2, <1>3, <1>4, <1>5, <1>6, <1>7, <1>8, <1>9
       DEF ControllerNext, Runs, StepProceeds, CallProceeds, Disturbs

\* Both invariants hold throughout.
LEMMA StoreHolds ==
    ASSUME ~SaveFails
    PROVE  ControllerSpec => [](ControllerInv /\ StoreInv)
  <1>1. ControllerInit => ControllerInv /\ StoreInv
    <2>1. ControllerInit => disk.latched = latched /\ disk.shutoff.owned = shutoff.owned /\ ~latched
      <3> HAVE ControllerInit
      <3>1. /\ shutoff = InitialState /\ latched = FALSE
            /\ disk = [latched |-> FALSE, shutoff |-> InitialState]
        BY DEF ControllerInit, Init
      <3> QED
        BY <3>1
    <2> QED
      BY <2>1, ControllerBegins DEF StoreInv
  <1>2. ControllerInv /\ StoreInv /\ [ControllerNext]_allVars => (ControllerInv /\ StoreInv)'
    BY ControllerSteps, StoreSteps
  <1> QED
    BY <1>1, <1>2, PTL DEF ControllerSpec

\* While writes of the Store succeed, no power_on goes out under the latch, in
\* memory or on disk, for any environment, user and outcome of a command.
THEOREM NothingStartsUnderLatch ==
    ASSUME ~SaveFails
    PROVE  ControllerSpec => []NoPowerOnUnderLatch
  <1>1. ControllerInv /\ StoreInv => NoPowerOnUnderLatch
    BY InvTypes DEF ControllerInv, LockInv, StepInv, StoreInv, NoPowerOnUnderLatch
  <1> QED
    BY <1>1, StoreHolds, PTL

\* While writes of the Store succeed, the latch falls only by a reset or the
\* freeze guard, or by a crash before the save of its trip.
THEOREM LatchSurvives ==
    ASSUME ~SaveFails
    PROVE  ControllerSpec => LatchOutlivesRestarts
  <1> DEFINE Falls == latched /\ ~latched' =>
                        pc = "trip_save" \/ action' = "unlatch" \/ Resets
  <1>1. ControllerInv /\ StoreInv /\ [ControllerNext]_allVars => [Falls]_allVars
    <2> SUFFICES ASSUME ControllerInv, StoreInv, ControllerNext, latched, ~latched'
                 PROVE  pc = "trip_save" \/ action' = "unlatch" \/ Resets
      OBVIOUS
    <2>1. CASE (\E e \in Environment : DecideStep(e)) \/ (\E o \in Outcomes : TripSend(o))
      BY <2>1 DEF DecideStep, TripSend, Deciding
    <2>2. CASE ResetClears
      <3>1. "reset" \in Calls /\ Waits("reset", "wait", "save")
        BY <2>2 DEF ResetClears
      <3> QED
        BY <3>1, CallMoves DEF Resets, ControllerInv, Waiting
    <2>3. CASE \E m \in Modes : Crash(m) \/ Reload(m)
      <3>1. disk' = disk \/ disk'.latched = latched
        BY <2>3, SettingUp
      <3>2. latched' = disk'.latched
        BY <2>3, SettingUp
      <3> QED
        BY <3>1, <3>2 DEF StoreInv
    <2>4. CASE latched' = latched \/ latched'
      BY <2>4
    <2>5. \/ latched' = latched \/ latched' \/ ResetClears
          \/ (\E e \in Environment : DecideStep(e)) \/ (\E o \in Outcomes : TripSend(o))
          \/ \E m \in Modes : Crash(m) \/ Reload(m)
      BY DEF ControllerNext, Runs, StepProceeds, CallProceeds, Disturbs, memory, PollStep,
             TimerStep, Trip, SaveStep, LastSave, RelockSend, ShutoffOff, ShutoffOn,
             OnOverrides, OffOverrides, CallSaves, OnSends, OffSends, ResetNotifies, Boots,
             Drains, DelayedSave, Passes, OnCalled, OffCalled, ResetCalled, StartsByItself
    <2> QED
      BY <2>1, <2>2, <2>3, <2>4, <2>5
  <1>2. ControllerSpec => [](ControllerInv /\ StoreInv)
    BY StoreHolds
  <1> QED
    BY <1>1, <1>2, PTL DEF ControllerSpec, LatchOutlivesRestarts

(***************************************************************************)
(* No stop is orphaned, where the poll is never older than the stop: the   *)
(* hashrate ends with a power_off, and no timer step reads an old poll.    *)
(***************************************************************************)

\* Where the call of the reset is.
Reset(places) == "reset" \in Calls /\ calls["reset"] \in places

\* The stop in force is the shutoff's.
Ours == offBy = "shutoff"

\* A poll from before the stop.
StalePoll == data.fresh /\ data.is_mining

\* The shutoff's stop is owned, in memory and in the Store, is under no latch,
\* and has ended the hashing.
StopOwned ==
    Ours => /\ shutoff.owned /\ disk.shutoff.owned
            /\ ~latched /\ ~disk.latched
            /\ ~miner.on /\ ~miner.hashes

\* A reset that waits for the lock or saves was asked for under the latch, and
\* no step begins before it is over.
ResetInv ==
    /\ Reset({"wait", "save"}) => ~Ours
    /\ Reset({"wait"}) => pc \notin {"stop_save", "stop_send"} /\ (pc = "forecast" => latched)
    /\ Reset({"save", "send"}) /\ shutoff.state = "stopped" => shutoff.since = 0

\* What a step reads of a miner stopped by the shutoff: that it does not hash,
\* but for a step of the reset, which may read a poll from before the stop.
ReadInv ==
    /\ pc = "forecast" /\ view.fresh /\ view.is_mining /\ Ours => JustStopped
    /\ Reset({"send"}) /\ StalePoll /\ Ours => JustStopped /\ pc # "forecast"

OrphanInv == StopOwned /\ ResetInv /\ ReadInv

\* The assumptions under which no stop is orphaned.
Prompt == ~SaveFails /\ ~Linger /\ ~SlowPolls /\ StopRetry > 0


\* What leaves the step, the state and the poll alone.
LEMMA OrphanElsewhere ==
    ASSUME ControllerInv, OrphanInv,
           UNCHANGED <<machine, latched, pc, view>>,
           disk' = disk \/ (disk'.latched = latched /\ disk'.shutoff = shutoff),
           Ours' => Ours /\ ~miner'.on /\ ~miner'.hashes,
           data' = data,
           Reset({"wait"})' => Reset({"wait"}) \/ latched,
           Reset({"save", "send"})' => Reset({"save", "send"}),
           Reset({"save"})' => Reset({"save"}),
           Reset({"send"})' => Reset({"send"}) \/ Reset({"save"})
    PROVE  OrphanInv'
  <1>1. StopOwned'
    BY DEF OrphanInv, StopOwned, machine
  <1>2. Ours' => ~Reset({"wait"})' /\ ~Reset({"save"})'
    <2>1. latched => ~Ours
      BY DEF OrphanInv, StopOwned
    <2>2. ~Reset({"wait", "save"}) => ~Reset({"wait"}) /\ ~Reset({"save"})
      BY DEF Reset
    <2> QED
      BY <2>1, <2>2 DEF OrphanInv, ResetInv
  <1>3. ~Reset({"wait"})' /\ ~Reset({"save"})' => ~Reset({"wait", "save"})'
    BY DEF Reset
  <1>4. Reset({"wait"})' => pc \notin {"stop_save", "stop_send"} /\ (pc = "forecast" => latched)
    BY DEF OrphanInv, ResetInv, ControllerInv, StepInv
  <1>5. ResetInv'
    BY <1>2, <1>3, <1>4 DEF OrphanInv, ResetInv, machine
  <1>6. Reset({"send"})' /\ Ours' => Reset({"send"}) /\ Ours
    BY DEF OrphanInv, ResetInv, Reset
  <1>7. ReadInv'
    BY <1>6 DEF OrphanInv, ReadInv, machine, StalePoll, JustStopped
  <1> QED
    BY <1>1, <1>5, <1>7 DEF OrphanInv

\* Where the reset may go when a call moves.
LEMMA ResetMoves ==
    ASSUME PlainTypes, NEW c \in Calls, NEW from, NEW to \in Waiting, Waits(c, from, to),
           NEW w
    PROVE  /\ c # "reset" => Reset(w)' = Reset(w)
           /\ c = "reset" => (Reset(w)' <=> to \in w) /\ (Reset(w) <=> from \in w)
  <1>1. CASE c # "reset"
    BY <1>1, CallMoves DEF Reset
  <1>2. CASE c = "reset"
    BY <1>2, CallMoves DEF Reset
  <1> QED
    BY <1>1, <1>2

\* The miner and the calls on their way, and the saves of a call.
LEMMA OthersOwn ==
    ASSUME ControllerInv, OrphanInv, Prompt,
           \/ Boots \/ Drains \/ StartsByItself
           \/ OnCalled \/ OffCalled \/ ResetCalled
           \/ \E o \in Outcomes : OnSends(o) \/ OffSends(o)
           \/ (\E c \in Calls : CallSaves(c)) \/ DelayedSave
           \/ UNCHANGED allVars
    PROVE  OrphanInv'
  <1>1. Ours => ~miner.on /\ ~miner.hashes
    BY DEF OrphanInv, StopOwned
  <1>2. CASE Boots \/ Drains \/ StartsByItself \/ UNCHANGED allVars
    <2>1. UNCHANGED <<machine, latched, pc, view, calls, disk, data>>
      BY <1>2 DEF Boots, Drains, StartsByItself, allVars, memory, plant
    <2>2. Ours' => Ours /\ ~miner'.on /\ ~miner'.hashes
      <3>1. CASE Boots
        BY <1>1, <3>1 DEF Boots, Ours
      <3>2. CASE Drains
        BY <1>1, <3>2 DEF Drains, Ours, ControllerInv, PlainTypes
      <3>3. CASE StartsByItself
        BY <3>3 DEF StartsByItself, Ours
      <3>4. CASE UNCHANGED allVars
        BY <1>1, <3>4 DEF allVars, plant, Ours
      <3> QED
        BY <1>2, <3>1, <3>2, <3>3, <3>4
    <2> QED
      BY <2>1, <2>2, OrphanElsewhere DEF Reset
  <1>3. CASE OnCalled \/ OffCalled \/ ResetCalled
    <2>1. PICK c \in Calls : Waits(c, "idle", "wait") /\ (c = "reset" => latched)
      BY <1>3 DEF OnCalled, OffCalled, ResetCalled
    <2>2. UNCHANGED <<machine, latched, pc, view, disk, data, miner, offBy>>
      BY <1>3 DEF OnCalled, OffCalled, ResetCalled, memory, plant
    <2>3. \A w : /\ c # "reset" => Reset(w)' = Reset(w)
                 /\ c = "reset" => (Reset(w)' <=> "wait" \in w) /\ (Reset(w) <=> "idle" \in w)
      BY <2>1, ResetMoves DEF ControllerInv, Waiting
    <2> QED
      BY <1>1, <2>1, <2>2, <2>3, OrphanElsewhere DEF Ours
  <1>4. CASE \E o \in Outcomes : OnSends(o) \/ OffSends(o)
    <2>1. PICK o \in Outcomes : OnSends(o) \/ OffSends(o)
      BY <1>4
    <2>2. PICK c \in Calls : Waits(c, "send", "idle") /\ c # "reset"
      BY <2>1 DEF OnSends, OffSends
    <2>3. /\ UNCHANGED <<machine, latched, pc, view, disk, data>>
          /\ PoweredOff(o) \/ PoweredOn(o)
          /\ Lands(o) => offBy' \in {"none", "user"}
          /\ ~Lands(o) => offBy' = offBy
      BY <2>1 DEF OnSends, OffSends, memory
    <2>4. ~Lands(o) => miner' = miner
      BY <2>3, Powering DEF ControllerInv
    <2>5. \A w : Reset(w)' = Reset(w)
      BY <2>2, ResetMoves DEF ControllerInv, Waiting
    <2> QED
      BY <1>1, <2>3, <2>4, <2>5, OrphanElsewhere DEF Ours
  <1>5. CASE (\E c \in Calls : CallSaves(c)) \/ DelayedSave
    <2>1. Saves /\ UNCHANGED <<machine, memory, pc, view, plant, offBy>>
      BY <1>5 DEF CallSaves, DelayedSave
    <2>2. UNCHANGED <<machine, latched, pc, view, data, miner, offBy, shutoff>>
      BY <2>1 DEF memory, plant, machine
    <2>3. disk'.latched = latched /\ disk'.shutoff = shutoff
      BY <2>1, <2>2, Saving DEF Prompt
    <2>4. /\ Reset({"wait"})' => Reset({"wait"})
          /\ Reset({"save", "send"})' => Reset({"save", "send"})
          /\ Reset({"save"})' => Reset({"save"})
          /\ Reset({"send"})' => Reset({"send"}) \/ Reset({"save"})
      <3>1. CASE DelayedSave
        BY <3>1 DEF DelayedSave, Reset
      <3>2. CASE \E c \in Calls : CallSaves(c)
        <4>1. PICK c \in Calls : Waits(c, "save", "send")
          BY <3>2 DEF CallSaves
        <4>2. \A w : /\ c # "reset" => Reset(w)' = Reset(w)
                     /\ c = "reset" => (Reset(w)' <=> "send" \in w) /\ (Reset(w) <=> "save" \in w)
          BY <4>1, ResetMoves DEF ControllerInv, Waiting
        <4> QED
          BY <4>2
      <3> QED
        BY <1>5, <3>1, <3>2
    <2> QED
      BY <1>1, <2>2, <2>3, <2>4, OrphanElsewhere DEF Ours
  <1> QED
    BY <1>2, <1>3, <1>4, <1>5

\* A poll tells that a miner the shutoff stopped does not hash; a step of the
\* timer reads no fresh poll; one of the reset reads the stop that was just sent.
LEMMA BeginningsOwn ==
    ASSUME ControllerInv, OrphanInv, Prompt,
           (\E fresh \in BOOLEAN : PollStep(fresh)) \/ TimerStep \/ ResetNotifies
    PROVE  OrphanInv'
  <1>1. UNCHANGED <<machine, latched, disk, miner, offBy>>
    BY DEF PollStep, TimerStep, ResetNotifies, memory, plant
  <1>2. StopOwned'
    BY <1>1 DEF OrphanInv, StopOwned, machine, Ours
  <1>3. \A w : "idle" \notin w /\ Reset(w)' => Reset(w)
    <2>1. CASE ResetNotifies
      BY <2>1, ResetMoves DEF ResetNotifies, ControllerInv, Waiting
    <2>2. CASE (\E fresh \in BOOLEAN : PollStep(fresh)) \/ TimerStep
      BY <2>2 DEF PollStep, TimerStep, Reset
    <2> QED
      BY <2>1, <2>2
  <1>4. PICK poll \in [is_mining : BOOLEAN, fresh : BOOLEAN] :
          /\ Begins(poll) \/ UNCHANGED <<pc, view>>
          /\ poll = data'
    <2>1. data' \in [is_mining : BOOLEAN, fresh : BOOLEAN]
      <3>1. CASE \E fresh \in BOOLEAN : PollStep(fresh)
        <4>1. PICK fresh \in BOOLEAN : PollStep(fresh)
          BY <3>1
        <4> QED
          BY <4>1 DEF PollStep, Polls, ControllerInv, PlainTypes
      <3>2. CASE TimerStep \/ ResetNotifies
        BY <3>2 DEF TimerStep, ResetNotifies, plant, ControllerInv, PlainTypes
      <3> QED
        BY <3>1, <3>2
    <2> QED
      BY <2>1 DEF PollStep, TimerStep, ResetNotifies, plant
  <1>5. \/ Ours => ~(data'.fresh /\ data'.is_mining)
        \/ data' = data /\ Reset({"send"}) /\ ~Reset({"send"})'
    <2>1. CASE \E fresh \in BOOLEAN : PollStep(fresh)
      <3>1. PICK fresh \in BOOLEAN : PollStep(fresh)
        BY <2>1
      <3>2. IF fresh THEN data' = [is_mining |-> miner.hashes, fresh |-> TRUE]
                     ELSE data' = [data EXCEPT !.fresh = FALSE]
        BY <3>1 DEF PollStep, Polls
      <3>3. CASE fresh
        <4>1. data'.is_mining = miner.hashes
          BY <3>2, <3>3
        <4> QED
          BY <4>1 DEF OrphanInv, StopOwned
      <3>4. CASE ~fresh
        <4>1. ~data'.fresh
          BY <3>2, <3>4 DEF ControllerInv, PlainTypes
        <4> QED
          BY <4>1
      <3> QED
        BY <3>3, <3>4
    <2>2. CASE TimerStep
      BY <2>2 DEF TimerStep, Prompt, plant
    <2>3. CASE ResetNotifies
      BY <2>3, ResetMoves DEF ResetNotifies, plant, ControllerInv, Waiting
    <2> QED
      BY <2>1, <2>2, <2>3
  <1>6. CASE UNCHANGED <<pc, view>>
    <2>1. ResetInv'
      BY <1>1, <1>3, <1>6 DEF OrphanInv, ResetInv, machine, Ours
    <2>2. ReadInv'
      BY <1>1, <1>3, <1>5, <1>6 DEF OrphanInv, ReadInv, machine, Ours, StalePoll, JustStopped
    <2> QED
      BY <1>2, <2>1, <2>2 DEF OrphanInv
  <1>7. CASE Begins(poll)
    <2>1. /\ pc = "idle" /\ (\A c \in Calls : calls[c] # "wait") /\ pc' = "forecast"
          /\ view'.fresh = poll.fresh /\ (view'.is_mining => poll.is_mining)
      BY <1>7, Beginning
    <2>2. ~Reset({"wait"})'
      BY <1>3, <2>1 DEF Reset
    <2>3. ResetInv'
      BY <1>1, <1>3, <2>2 DEF OrphanInv, ResetInv, machine, Ours
    <2>4. ReadInv'
      BY <1>1, <1>4, <1>5, <2>1 DEF OrphanInv, ReadInv, machine, Ours, StalePoll, JustStopped
    <2> QED
      BY <1>2, <2>3, <2>4 DEF OrphanInv
  <1> QED
    BY <1>4, <1>6, <1>7

\* A decision gives up a stop of the shutoff only under the latch, or when a
\* miner it did not just stop is seen hashing.
LEMMA DecisionsOwn ==
    ASSUME ControllerInv, StoreInv, OrphanInv, Prompt,
           \/ \E e \in Environment : Trip(e) \/ DecideStep(e)
           \/ \E o \in Outcomes : TripSend(o)
    PROVE  OrphanInv'
  <1>1. CASE \E e \in Environment : Trip(e)
    <2>1. /\ pc = "forecast" /\ pc' = "trip_save" /\ latched' = TRUE /\ offBy' = "lockout"
          /\ UNCHANGED <<machine, calls>>
      BY <1>1 DEF Trip
    <2>2. StopOwned' /\ ReadInv'
      BY <2>1 DEF StopOwned, ReadInv, Ours
    <2>3. ResetInv'
      BY <2>1 DEF OrphanInv, ResetInv, Ours, Reset, machine
    <2> QED
      BY <2>2, <2>3 DEF OrphanInv
  <1>2. CASE (\E e \in Environment : DecideStep(e)) \/ (\E o \in Outcomes : TripSend(o))
    <2>1. pc \in {"forecast", "trip_send"}
      BY <1>2, DecisionInputs
    <2>2. PICK i \in View :
            /\ i.latched = latched /\ Deciding(i)
            /\ i.fresh = view.fresh /\ i.is_mining = view.is_mining
            /\ pc = "forecast" => miner' = miner
            /\ pc = "trip_send" => latched
      BY <1>2, DecisionInputs
    <2>3. /\ Decided(i) /\ UNCHANGED <<userOff, calls, disk, offBy, data>>
          /\ latched' = (latched /\ action' # "unlatch")
          /\ pc' \in {"idle", "relock_send", "stop_save", "stop_send", "on_save", "save"}
          /\ pc' \in {"stop_save", "stop_send"} => action' \in {"stop", "reassert"}
      BY <2>2, DecisionPlaces
    <2>4. latched \in BOOLEAN /\ (Ours => ~latched /\ shutoff.owned)
      BY DEF ControllerInv, PlainTypes, OrphanInv, StopOwned
    <2>5. Ours => pc = "forecast" /\ miner' = miner
      BY <2>1, <2>2, <2>4
    <2>6. Ours => shutoff'.owned
      <3> SUFFICES ASSUME Ours, ~shutoff'.owned PROVE FALSE
        OBVIOUS
      <3>1. SeenMining(i) /\ ~JustStopped
        BY <2>2, <2>3, <2>4 DEF Decided, Prompt
      <3>2. view.fresh /\ view.is_mining /\ pc = "forecast"
        BY <2>2, <2>5, <3>1 DEF SeenMining
      <3> QED
        BY <3>1, <3>2 DEF OrphanInv, ReadInv
    <2>7. StopOwned'
      BY <2>3, <2>4, <2>5, <2>6 DEF OrphanInv, StopOwned, Ours
    <2>8. \A w : Reset(w)' = Reset(w)
      BY <2>3 DEF Reset
    <2>9. ResetInv'
      <3>1. Reset({"wait"}) => latched
        BY <2>1, <2>2 DEF OrphanInv, ResetInv
      <3>2. Reset({"wait"}) => pc' \notin {"stop_save", "stop_send"}
        BY <2>2, <2>3, <3>1 DEF Decided
      <3>3. Reset({"save", "send"}) /\ shutoff'.state = "stopped" => shutoff'.since = 0
        BY <2>3 DEF OrphanInv, ResetInv, Decided
      <3> QED
        BY <2>3, <2>8, <3>2, <3>3 DEF OrphanInv, ResetInv, Ours
    <2>10. ReadInv'
      BY <2>3, <2>5, <2>8 DEF OrphanInv, ReadInv, Ours, StalePoll
    <2> QED
      BY <2>7, <2>9, <2>10 DEF OrphanInv
  <1> QED
    BY <1>1, <1>2

\* The saves of the step.
LEMMA SavesOwn ==
    ASSUME ControllerInv, OrphanInv, Prompt, SaveStep \/ LastSave
    PROVE  OrphanInv'
  <1>1. /\ Saves /\ UNCHANGED <<machine, latched, calls, data, miner, offBy, shutoff>>
    BY DEF SaveStep, LastSave, plant, machine
  <1>2. disk'.latched = latched /\ disk'.shutoff = shutoff
    BY <1>1, Saving DEF Prompt
  <1>3. pc' # "forecast" /\ (pc' = "stop_send" => pc = "stop_save") /\ pc' # "stop_save"
    <2>1. CASE SaveStep
      BY <2>1 DEF SaveStep, Moves
    <2>2. CASE LastSave
      BY <2>2 DEF LastSave, Ends
    <2> QED
      BY <2>1, <2>2
  <1>4. StopOwned'
    BY <1>1, <1>2 DEF OrphanInv, StopOwned, Ours
  <1>5. ResetInv'
    BY <1>1, <1>3 DEF OrphanInv, ResetInv, Ours, Reset, machine
  <1>6. ReadInv'
    BY <1>1, <1>3 DEF OrphanInv, ReadInv, Ours, Reset, machine, StalePoll, JustStopped
  <1> QED
    BY <1>4, <1>5, <1>6 DEF OrphanInv

\* The commands of the step: the power_off of the shutoff comes after the save
\* of its ownership.
LEMMA CommandsOwn ==
    ASSUME ControllerInv, StoreInv, OrphanInv, Prompt,
           \E o \in Outcomes : RelockSend(o) \/ ShutoffOff(o) \/ ShutoffOn(o)
    PROVE  OrphanInv'
  <1>1. PICK o \in Outcomes : RelockSend(o) \/ ShutoffOff(o) \/ ShutoffOn(o)
    OBVIOUS
  <1>2. /\ pc # "idle"
        /\ UNCHANGED <<latched, calls, disk, data>>
        /\ PoweredOff(o) \/ PoweredOn(o)
        /\ ~Lands(o) => offBy' = offBy
        /\ Lands(o) => \/ offBy' \in {"lockout", "none"}
                       \/ offBy' = "shutoff" /\ pc = "stop_send" /\ PoweredOff(o)
    BY <1>1 DEF RelockSend, ShutoffOff, ShutoffOn, memory
  <1>3. pc' \in {"idle", "fail_save", "save"}
    BY <1>1 DEF RelockSend, ShutoffOff, ShutoffOn, Moves
  <1>4. /\ mode' = mode /\ SameStop(shutoff', shutoff)
        /\ shutoff'.stop_failed \in {shutoff.stop_failed, 0}
    <2>1. UNCHANGED machine \/ StopSendFailed \/ ResumeSendFailed
      BY <1>1 DEF RelockSend, ShutoffOff, ShutoffOn
    <2>2. CASE UNCHANGED machine
      BY <2>2 DEF machine, SameStop
    <2>3. CASE StopSendFailed \/ ResumeSendFailed
      BY <2>3, FailedSends DEF ControllerInv, OwnerInv
    <2> QED
      BY <2>1, <2>2, <2>3
  <1>5. Ours' => \/ Ours /\ miner' = miner
                 \/ pc = "stop_send" /\ ~miner'.on /\ ~miner'.hashes
    <2>1. /\ ~Lands(o) => miner' = miner
          /\ PoweredOff(o) /\ Lands(o) => ~miner'.on /\ ~miner'.hashes
      BY <1>2, Powering DEF ControllerInv, Prompt
    <2> QED
      BY <1>2, <2>1 DEF Ours
  <1>6. pc = "stop_send" =>
          /\ shutoff.owned /\ disk.shutoff.owned /\ ~latched /\ ~disk.latched
          /\ mode = "active" /\ shutoff.state = "stopped" /\ shutoff.stop_failed \in {None, 0}
          /\ ~Reset({"wait"}) /\ ~Reset({"save"})
    <2> HAVE pc = "stop_send"
    <2>1. ~Locked
      BY <1>2 DEF ControllerInv, LockInv
    <2>2. ~Reset({"save"})
      BY <2>1 DEF Locked, Reset
    <2>3. /\ shutoff.owned /\ ~latched /\ mode = "active" /\ shutoff.state = "stopped"
          /\ shutoff.stop_failed \in {None, 0}
      BY DEF ControllerInv, StepInv
    <2>4. disk.shutoff.owned = shutoff.owned /\ disk.latched = latched
      BY <2>1 DEF StoreInv
    <2> QED
      BY <2>2, <2>3, <2>4 DEF OrphanInv, ResetInv
  <1>7. StopOwned'
    BY <1>2, <1>4, <1>5, <1>6 DEF OrphanInv, StopOwned, SameStop
  <1>8. \A w : Reset(w)' = Reset(w)
    BY <1>2 DEF Reset
  <1>9. Reset({"wait", "save"}) => Reset({"wait"}) \/ Reset({"save"})
    BY DEF Reset
  <1>10. ResetInv'
    BY <1>3, <1>4, <1>5, <1>6, <1>8, <1>9 DEF OrphanInv, ResetInv, SameStop
  <1>11. Reset({"send"}) => Reset({"save", "send"})
    BY DEF Reset
  <1>12. ReadInv'
    <2> SUFFICES ASSUME Reset({"send"}), StalePoll, Ours' PROVE JustStopped'
      BY <1>2, <1>3, <1>8 DEF ReadInv, StalePoll
    <2>1. CASE Ours
      BY <1>4, <2>1 DEF OrphanInv, ReadInv, JustStopped, SameStop
    <2>2. CASE pc = "stop_send"
      BY <1>4, <1>6, <1>11, <2>2 DEF OrphanInv, ResetInv, JustStopped, SameStop
    <2> QED
      BY <1>5, <2>1, <2>2
  <1> QED
    BY <1>7, <1>10, <1>12 DEF OrphanInv

\* An override takes the stop from the shutoff; a reset finds none.
LEMMA OverridesOwn ==
    ASSUME ControllerInv, OrphanInv, OnOverrides \/ OffOverrides \/ ResetClears
    PROVE  OrphanInv'
  <1>1. PICK c \in Calls : /\ Waits(c, "wait", "save")
                           /\ c # "reset" => offBy' = "none"
                           /\ c = "reset" => offBy' = offBy
    BY DEF OnOverrides, OffOverrides, ResetClears
  <1>2. /\ pc = "idle" /\ pc' = "idle"
    BY DEF OnOverrides, OffOverrides, ResetClears, LockFree
  <1>3. \A w : /\ c # "reset" => Reset(w)' = Reset(w)
               /\ c = "reset" => (Reset(w)' <=> "save" \in w) /\ (Reset(w) <=> "wait" \in w)
    BY <1>1, ResetMoves DEF ControllerInv, Waiting
  <1>4. ~Ours'
    BY <1>1, <1>3 DEF OrphanInv, ResetInv, Ours
  <1>5. shutoff'.state = "running"
    <2>1. Disowned(shutoff) \in ShutoffState /\ Disowned(shutoff).state = "running"
      BY DisownedType, RunningState DEF ControllerInv, TypeOK
    <2>2. \/ shutoff' = Disowned(shutoff)
          \/ shutoff' = [Disowned(shutoff) EXCEPT !.suppressed = TRUE]
      BY DEF OnOverrides, OffOverrides, ResetClears, UserMiningOn, UserMiningOff,
             LockoutReset, Sets
    <2> QED
      BY <2>1, <2>2 DEF ShutoffState
  <1> QED
    BY <1>2, <1>4, <1>5 DEF OrphanInv, StopOwned, ResetInv, ReadInv

\* Time passes, Home Assistant dies or the entry is reloaded.
LEMMA RestartsOwn ==
    ASSUME ControllerInv, OrphanInv, Passes \/ \E m \in Modes : Crash(m) \/ Reload(m)
    PROVE  OrphanInv'
  <1>1. \A w : "idle" \notin w => ~Reset(w)'
    <2>1. CASE Passes
      BY <2>1 DEF Passes, Quiet, Reset
    <2>2. CASE \E m \in Modes : Crash(m) \/ Reload(m)
      BY <2>2, SettingUp DEF Reset
    <2> QED
      BY <2>1, <2>2
  <1>2. pc' = "idle" /\ UNCHANGED <<miner, offBy>>
    <2>1. CASE Passes
      BY <2>1 DEF Passes, Quiet, plant
    <2>2. CASE \E m \in Modes : Crash(m) \/ Reload(m)
      BY <2>2, SettingUp
    <2> QED
      BY <2>1, <2>2
  <1>3. StopOwned'
    <2>1. CASE Passes
      <3>1. /\ shutoff \in ShutoffState /\ disk.shutoff \in ShutoffState
            /\ disk \in [latched : BOOLEAN, shutoff : ShutoffState]
            /\ Consistent(shutoff, mode) /\ Consistent(disk.shutoff, "observe")
        BY DEF ControllerInv, TypeOK, PlainTypes, OwnerInv, OwnershipInv
      <3>2. /\ shutoff' = Aged(shutoff) /\ disk' = [disk EXCEPT !.shutoff = Aged(@)]
            /\ latched' = latched
        BY <2>1 DEF Passes
      <3>3. /\ shutoff'.owned = shutoff.owned /\ disk'.latched = disk.latched
            /\ disk'.shutoff.owned = disk.shutoff.owned
        BY <3>1, <3>2, AgedConsistent
      <3> QED
        BY <1>2, <3>2, <3>3 DEF OrphanInv, StopOwned, Ours
    <2>2. CASE \E m \in Modes : Crash(m) \/ Reload(m)
      <3>1. /\ latched' = disk'.latched /\ shutoff'.owned = disk'.shutoff.owned
            /\ disk' = disk \/ (disk'.latched = latched /\ disk'.shutoff = shutoff)
        BY <2>2, SettingUp
      <3> QED
        BY <1>2, <3>1 DEF OrphanInv, StopOwned, Ours
    <2> QED
      BY <2>1, <2>2
  <1> QED
    BY <1>1, <1>2, <1>3 DEF OrphanInv, ResetInv, ReadInv

\* Every step keeps it.
LEMMA OrphanSteps ==
    ASSUME ControllerInv, StoreInv, OrphanInv, Prompt, [ControllerNext]_allVars
    PROVE  OrphanInv'
  BY OthersOwn, BeginningsOwn, DecisionsOwn, SavesOwn, CommandsOwn, OverridesOwn, RestartsOwn
     DEF ControllerNext, Runs, StepProceeds, CallProceeds, Disturbs

\* A miner the shutoff turned off is a miner it owns: with writes that succeed,
\* a hashrate that ends with a power_off and no step on an old poll, no crash,
\* command that raised, call, latch or reload orphans a stop.
THEOREM StopsAreOwned ==
    ASSUME ~SaveFails, ~Linger, ~SlowPolls, StopRetry > 0
    PROVE  ControllerSpec => []NoOrphanedStop
  <1>1. Prompt
    BY DEF Prompt
  <1>2. ControllerInit => OrphanInv
    BY DEF ControllerInit, Init, OrphanInv, StopOwned, ResetInv, ReadInv, Ours, Reset
  <1>3. OrphanInv /\ (ControllerInv /\ StoreInv) /\ [ControllerNext]_allVars => OrphanInv'
    BY <1>1, OrphanSteps
  <1>4. OrphanInv => NoOrphanedStop
    BY DEF OrphanInv, StopOwned, Ours, NoOrphanedStop
  <1>5. ControllerSpec => [](ControllerInv /\ StoreInv)
    BY StoreHolds
  <1> QED
    BY <1>2, <1>3, <1>4, <1>5, PTL DEF ControllerSpec

(***************************************************************************)
(* A stop of the user stays.  From the save of the override on, the user's *)
(* stop is owned by nobody, in memory or in the Store, and no step has     *)
(* decided on a command, until a decision takes it for its own; and what   *)
(* decide() may rest such a decision on is one of the grounds that         *)
(* HeatControllerHistory names.                                            *)
(***************************************************************************)

\* Where the call of the switch to turn off is.
Off(places) == "off" \in Calls /\ calls["off"] \in places

\* The user's power_off was sent, or is the next command of the call.
LeftOff == offBy = "user" \/ Off({"send"})

\* The call has disowned the stop, which nobody owns again, in memory or in the
\* Store, nor has decided on a command.
OffInv ==
    /\ Off({"save"}) /\ ~retaken => ~shutoff.owned
    /\ LeftOff /\ ~retaken =>
         /\ ~shutoff.owned /\ ~disk.shutoff.owned
         /\ pc \notin {"stop_save", "stop_send", "on_save", "on_send"}

\* What a step that is to decide has read of the user's off is still so.
GraceInv == pc \in {"forecast", "trip_save", "trip_send"} => view.user_off = UserOffRecently

\* A decision to start the miner leaves the stop owned until it hashes.
LEMMA StartsOwned ==
    ASSUME Owned, NEW i, Decide(i), action' \in {"resume", "release", "unlatch"}
    PROVE  shutoff'.owned
  <1> DEFINE o == Observed(i)
             m == ToRunning(o)
  <1>1. /\ o \in ShutoffState /\ Landed(i) \in ShutoffState /\ Polled(i) \in ShutoffState
        /\ m \in ShutoffState
    BY ObservedType, LandedType, PolledType, ToRunningType DEF Owned, TypeOK
  <1>2. \A s \in ShutoffState : /\ Enter(s, "resuming") \in ShutoffState
                                /\ Enter(s, "resuming").state = "resuming"
    BY ZenonT(60), EnterType DEF Enter, ShutoffState, ShutoffStates
  <1>3. \A s \in ShutoffState : Resume(s) => shutoff'.state = "resuming"
    <2> SUFFICES ASSUME NEW s \in ShutoffState, Resume(s)
                 PROVE  shutoff'.state = "resuming"
      OBVIOUS
    <2> DEFINE r == [s EXCEPT !.call_polls = 0, !.unknown_since = None, !.last_resume = 0]
               e == Enter(r, "resuming")
    <2>1. r \in ShutoffState
      BY ZeroCounts, AgeFacts, HorizonsAreNat DEF ShutoffState
    <2>2. shutoff' = [e EXCEPT !.resume_sent = 0]
      BY DEF Resume, Decides
    <2> HIDE DEF r
    <2>3. e \in ShutoffState /\ e.state = "resuming"
      BY <1>2, <2>1
    <2> HIDE DEF e
    <2> QED
      BY <2>2, <2>3 DEF ShutoffState
  <1>4. CASE LatchedFreeze(i)
    <2> DEFINE r == IF o.state # "running" \/ o.owned THEN m ELSE o
               e == Enter(r, "resuming")
    <2>1. shutoff' = [e EXCEPT !.owned = TRUE, !.resume_sent = 0, !.last_resume = 0]
      BY <1>4 DEF LatchedFreeze, Decides
    <2>2. r \in ShutoffState
      BY <1>1
    <2> HIDE DEF r
    <2>3. e \in ShutoffState
      BY <1>2, <2>2
    <2> HIDE DEF e
    <2> QED
      BY <2>1, <2>3 DEF ShutoffState
  <1>5. CASE ReleaseSend(i)
    <2> DEFINE e == IF o.state = "resuming" THEN o ELSE Enter(o, "resuming")
    <2>1. shutoff' = [e EXCEPT !.resume_sent = 0, !.last_resume = 0]
      BY <1>5 DEF ReleaseSend, Decides
    <2>2. e \in ShutoffState /\ e.state = "resuming"
      BY <1>1, <1>2
    <2> HIDE DEF e
    <2>3. shutoff'.state = "resuming"
      BY <2>1, <2>2 DEF ShutoffState
    <2> QED
      BY <2>3, AnyDecision DEF OwnershipInv, Consistent
  <1>6. CASE ResumeRetry(i)
    <2>1. shutoff' = [o EXCEPT !.resume_sent = 0] /\ shutoff.state = "resuming"
      BY <1>6 DEF ResumeRetry, Awaiting, Decides
    <2>2. o.state = "resuming"
      BY <2>1 DEF Observed, Owned, TypeOK, ShutoffState
    <2> HIDE DEF o
    <2>3. shutoff'.state = "resuming"
      BY <1>1, <2>1, <2>2 DEF ShutoffState
    <2> QED
      BY <2>3, AnyDecision DEF OwnershipInv, Consistent
  <1>7. CASE FreezeResume(i) \/ UnknownFreezeResume(i) \/ DemandResume(i)
    <2>1. shutoff'.state = "resuming"
      BY <1>1, <1>3, <1>7 DEF FreezeResume, UnknownFreezeResume, DemandResume
    <2> QED
      BY <2>1, AnyDecision DEF OwnershipInv, Consistent
  <1> QED
    BY <1>4, <1>5, <1>6, <1>7, WhoActs

\* A decision that finds a stop owned by nobody leaves it so and sends no command,
\* or it owns one from now on: for the freeze guard, to end an adoption, or on a
\* miner seen hashing when the user has not turned it off a moment ago.
LEMMA UnownedDecides ==
    ASSUME Owned, NEW i, Decide(i), ~shutoff.owned
    PROVE  \/ ~shutoff'.owned /\ action' = "none"
           \/ /\ shutoff'.owned
              /\ \/ action' = "unlatch"
                 \/ action' = "none" /\ AdoptedJustNow
                 \/ action' = "stop" /\ SeenMining(i) /\ ~i.user_off
  <1>1. /\ Observed(i) \in ShutoffState /\ Current(i) \in ShutoffState
        /\ Dwelling(i) \in ShutoffState
        /\ Landed(i) \in ShutoffState /\ Polled(i) \in ShutoffState
        /\ shutoff'.owned \in BOOLEAN
    BY ObservedType, CurrentType, DwellingType, LandedType, PolledType, AnyDecision
       DEF Owned, TypeOK, ShutoffState
  <1>2. /\ ~Observed(i).owned /\ ~Current(i).owned
        /\ SameStop(Landed(i), shutoff) /\ SameStop(Polled(i), shutoff)
    BY StopBranches DEF Owned, TypeOK, SameStop
  <1>3. CASE LatchedHold(i) \/ Disabled(i)
    <2>1. Decides("none", Observed(i)) \/ Decides("none", ToRunning(Observed(i)))
      BY <1>3 DEF LatchedHold, Disabled
    <2> QED
      BY <1>1, <1>2, <2>1, RunningState DEF Decides
  <1>4. CASE LatchedFreeze(i)
    <2>1. action' = "unlatch"
      BY <1>4 DEF LatchedFreeze, Decides
    <2>2. shutoff'.owned
      BY <2>1, StartsOwned
    <2> QED
      BY <2>1, <2>2
  <1>5. CASE ReleaseConfirmed(i) \/ ReleasePending(i) \/ ReleaseSend(i)
    BY <1>5 DEF ReleaseConfirmed, ReleasePending, ReleaseSend, ReleaseDue
  <1>6. CASE ReclaimAdopted(i)
    BY <1>1, <1>6 DEF ReclaimAdopted, Decides
  <1>7. CASE KeepRunning(i)
    <2>1. Decides("none", Current(i)) \/ Decides("none", ToRunning(Current(i)))
      BY <1>7 DEF KeepRunning
    <2> QED
      BY <1>1, <1>2, <2>1, RunningState DEF Decides
  <1>8. CASE KeepDwelling(i)
    <2>1. Dwelling(i).owned = Current(i).owned
      BY <1>1 DEF Dwelling, Enter, ShutoffState
    <2> QED
      BY <1>2, <1>8, <2>1 DEF KeepDwelling, Decides
  <1>9. CASE TakeStop(i)
    <2>1. /\ mode = "observe" => action' = "none"
          /\ SeenMining(i) /\ ~i.user_off
      BY <1>9 DEF TakeStop, StopBlocked, Decides
    <2> QED
      BY <1>9, <2>1, StopStamps
  <1>10. CASE \/ StopRetryPending(i) \/ StopRetryAbandoned(i) \/ StopRetrySend(i)
              \/ ConfirmHashing(i) \/ TreatAsResumed(i)
              \/ Reassert(i) \/ Adopt(i) \/ ReassertPending(i)
    BY <1>10 DEF StopRetryPending, StopRetryAbandoned, StopRetrySend, ConfirmHashing,
                 TreatAsResumed, Reassert, Adopt, ReassertPending, HashingConfirmed,
                 HashingUnexplained, HashingAgainstStop
  <1>11. CASE FreezeWaitsForCool(i) \/ StayStopped(i)
    <2>1. Decides("none", Landed(i)) \/ Decides("none", Polled(i))
      BY <1>11 DEF FreezeWaitsForCool, StayStopped
    <2> QED
      BY <1>2, <2>1 DEF Decides, SameStop
  <1>12. CASE FreezeResume(i) \/ UnknownFreezeResume(i) \/ DemandResume(i)
    <2>1. shutoff.state = "stopped"
      BY <1>12 DEF FreezeResume, UnknownFreezeResume, DemandResume, DemandDecides, Resting,
                   Holding
    <2>2. shutoff.simulated
      BY <2>1 DEF Owned, OwnershipInv, Consistent, TypeOK, ShutoffState
    <2>3. PICK s \in {Landed(i), Polled(i)} : Resume(s)
      BY <1>12 DEF FreezeResume, UnknownFreezeResume, DemandResume
    <2>4. s \in ShutoffState /\ s.simulated
      BY <1>1, <1>2, <2>2 DEF SameStop
    <2> DEFINE r == [s EXCEPT !.call_polls = 0, !.unknown_since = None, !.last_resume = 0]
    <2>5. r \in ShutoffState
      BY <2>4, ZeroCounts, AgeFacts, HorizonsAreNat DEF ShutoffState
    <2>6. Decides("none", ToRunning(r))
      BY <2>3, <2>4 DEF Resume
    <2> HIDE DEF r
    <2> QED
      BY <2>5, <2>6, RunningState DEF Decides
  <1>13. CASE ResumeConfirmed(i) \/ ResumeRetry(i) \/ ResumePending(i)
    <2>1. shutoff.state = "resuming"
      BY <1>13 DEF ResumeConfirmed, ResumeRetry, ResumePending, Awaiting
    <2> QED
      BY <2>1 DEF Owned, OwnershipInv, Consistent
  <1> QED
    BY <1>3, <1>4, <1>5, <1>6, <1>7, <1>8, <1>9, <1>10, <1>11, <1>12, <1>13 DEF Decide

\* Where the call of the switch may go when a call moves.
LEMMA OffMoves ==
    ASSUME PlainTypes, NEW c \in Calls, NEW from, NEW to \in Waiting, Waits(c, from, to),
           NEW w
    PROVE  /\ c # "off" => Off(w)' = Off(w)
           /\ c = "off" => (Off(w)' <=> to \in w) /\ (Off(w) <=> from \in w)
  <1>1. CASE c # "off"
    BY <1>1, CallMoves DEF Off
  <1>2. CASE c = "off"
    BY <1>2, CallMoves DEF Off
  <1> QED
    BY <1>1, <1>2

\* What leaves the step and the state alone.
LEMMA OffElsewhere ==
    ASSUME ControllerInv, OffInv, retaken => retaken', UNCHANGED <<shutoff, pc>>,
           disk' = disk \/ disk'.shutoff = shutoff,
           Off({"save"})' => Off({"save"}),
           LeftOff' => LeftOff \/ (Off({"save"}) /\ disk'.shutoff = shutoff)
    PROVE  OffInv'
  <1>1. Off({"save"})' /\ ~retaken' => ~shutoff'.owned
    BY DEF OffInv
  <1>2. ASSUME LeftOff', ~retaken'
        PROVE  /\ ~shutoff'.owned /\ ~disk'.shutoff.owned
               /\ pc' \notin {"stop_save", "stop_send", "on_save", "on_send"}
    <2>1. CASE LeftOff
      BY <1>2, <2>1 DEF OffInv
    <2>2. CASE Off({"save"}) /\ disk'.shutoff = shutoff
      <3>1. pc = "idle"
        BY <2>2 DEF Off, ControllerInv, LockInv, Locked
      <3> QED
        BY <1>2, <2>2, <3>1 DEF OffInv
    <2> QED
      BY <1>2, <2>1, <2>2
  <1> QED
    BY <1>1, <1>2 DEF OffInv

\* The miner, the calls on their way, their commands and their saves.
LEMMA OthersLeave ==
    ASSUME ControllerInv, OffInv, ~SaveFails, retaken => retaken',
           \/ Boots \/ Drains \/ StartsByItself
           \/ OnCalled \/ OffCalled \/ ResetCalled
           \/ \E o \in Outcomes : OnSends(o) \/ OffSends(o)
           \/ (\E c \in Calls : CallSaves(c)) \/ DelayedSave
           \/ UNCHANGED allVars
    PROVE  OffInv'
  <1>1. CASE Boots \/ Drains \/ StartsByItself \/ UNCHANGED allVars
    <2>1. UNCHANGED <<shutoff, pc, calls, disk>> /\ (offBy' = "user" => offBy = "user")
      BY <1>1 DEF Boots, Drains, StartsByItself, allVars, memory, machine
    <2> QED
      BY <2>1, OffElsewhere DEF Off, LeftOff
  <1>2. CASE OnCalled \/ OffCalled \/ ResetCalled
    <2>1. PICK c \in Calls : Waits(c, "idle", "wait")
      BY <1>2 DEF OnCalled, OffCalled, ResetCalled
    <2>2. UNCHANGED <<shutoff, pc, disk, offBy>>
      BY <1>2 DEF OnCalled, OffCalled, ResetCalled, memory, plant, machine
    <2>3. \A w : /\ c # "off" => Off(w)' = Off(w)
                 /\ c = "off" => (Off(w)' <=> "wait" \in w) /\ (Off(w) <=> "idle" \in w)
      BY <2>1, OffMoves DEF ControllerInv, Waiting
    <2> QED
      BY <2>2, <2>3, OffElsewhere DEF LeftOff
  <1>3. CASE \E o \in Outcomes : OnSends(o) \/ OffSends(o)
    <2>1. PICK o \in Outcomes : OnSends(o) \/ OffSends(o)
      BY <1>3
    <2>2. PICK c \in Calls : Waits(c, "send", "idle") /\ (OffSends(o) => c = "off")
      BY <2>1 DEF OnSends, OffSends
    <2>3. UNCHANGED <<shutoff, pc, disk>> /\ (OnSends(o) /\ offBy' = "user" => offBy = "user")
      BY <2>1 DEF OnSends, OffSends, memory, machine
    <2>4. \A w : /\ c # "off" => Off(w)' = Off(w)
                 /\ c = "off" => (Off(w)' <=> "idle" \in w) /\ (Off(w) <=> "send" \in w)
      BY <2>2, OffMoves DEF ControllerInv, Waiting
    <2> QED
      BY <2>1, <2>2, <2>3, <2>4, OffElsewhere DEF LeftOff
  <1>4. CASE (\E c \in Calls : CallSaves(c)) \/ DelayedSave
    <2>1. Saves /\ UNCHANGED <<machine, memory, pc, offBy>>
      BY <1>4 DEF CallSaves, DelayedSave
    <2>2. UNCHANGED <<shutoff, latched, pc, offBy>>
      BY <2>1 DEF memory, machine
    <2>3. disk'.shutoff = shutoff
      BY <2>1, <2>2, Saving
    <2>4. /\ Off({"save"})' => Off({"save"})
          /\ Off({"send"})' => Off({"send"}) \/ Off({"save"})
      <3>1. CASE DelayedSave
        BY <3>1 DEF DelayedSave, Off
      <3>2. CASE \E c \in Calls : CallSaves(c)
        <4>1. PICK c \in Calls : Waits(c, "save", "send")
          BY <3>2 DEF CallSaves
        <4>2. \A w : /\ c # "off" => Off(w)' = Off(w)
                     /\ c = "off" => (Off(w)' <=> "send" \in w) /\ (Off(w) <=> "save" \in w)
          BY <4>1, OffMoves DEF ControllerInv, Waiting
        <4> QED
          BY <4>2
      <3> QED
        BY <1>4, <3>1, <3>2
    <2> QED
      BY <2>2, <2>3, <2>4, OffElsewhere DEF LeftOff
  <1> QED
    BY <1>1, <1>2, <1>3, <1>4

\* A step that begins has decided nothing yet.
LEMMA BeginningsLeave ==
    ASSUME ControllerInv, OffInv, retaken => retaken',
           (\E fresh \in BOOLEAN : PollStep(fresh)) \/ TimerStep \/ ResetNotifies
    PROVE  OffInv'
  <1>1. UNCHANGED <<shutoff, disk, offBy>> /\ pc' \in {pc, "forecast"}
    BY DEF PollStep, TimerStep, ResetNotifies, plant, machine, Begins
  <1>2. Off({"save"})' = Off({"save"}) /\ Off({"send"})' = Off({"send"})
    <2>1. CASE (\E fresh \in BOOLEAN : PollStep(fresh)) \/ TimerStep
      BY <2>1 DEF PollStep, TimerStep, Off
    <2>2. CASE ResetNotifies
      <3>1. "reset" \in Calls /\ Waits("reset", "send", "idle")
        BY <2>2 DEF ResetNotifies
      <3> QED
        BY <3>1, OffMoves DEF ControllerInv, Waiting
    <2> QED
      BY <2>1, <2>2
  <1> QED
    BY <1>1, <1>2 DEF OffInv, LeftOff

\* Where the step goes when there is no command.
LEMMA CommandlessPlaces ==
    ASSUME NEW i, Deciding(i)
    PROVE  /\ action' = "none" => pc' \in {"idle", "relock_send", "save"}
           /\ action' = "stop" => view' = i
  BY DEF Deciding, Ends

\* A decision, the trip of the lockout and its power_off.
LEMMA DecisionsLeave ==
    ASSUME ControllerInv, OffInv, GraceInv, retaken => retaken', Retakes => retaken',
           \/ \E e \in Environment : Trip(e) \/ DecideStep(e)
           \/ \E o \in Outcomes : TripSend(o)
    PROVE  OffInv'
  <1>1. /\ pc \in {"forecast", "trip_send"} /\ ~Locked
        /\ UNCHANGED <<userOff, calls, disk>>
    BY DEF Trip, DecideStep, TripSend, Deciding, ControllerInv, LockInv
  <1>2. /\ Off({"save"})' = Off({"save"}) /\ Off({"send"})' = Off({"send"})
        /\ ~Off({"save"})
    BY <1>1 DEF Off, Locked
  <1>3. CASE \E e \in Environment : Trip(e)
    <2>1. pc' = "trip_save" /\ offBy' = "lockout" /\ shutoff' = shutoff
      BY <1>3 DEF Trip, machine
    <2> QED
      BY <1>1, <1>2, <2>1 DEF OffInv, LeftOff
  <1>4. CASE (\E e \in Environment : DecideStep(e)) \/ (\E o \in Outcomes : TripSend(o))
    <2>1. PICK i \in View :
            /\ i.latched = latched /\ Deciding(i)
            /\ i.fresh = view.fresh /\ i.is_mining = view.is_mining
            /\ i.user_off = view.user_off
      BY <1>4, DecisionInputs
    <2>2. /\ pc' \in {"idle", "relock_send"} => shutoff'.owned = shutoff.owned
          /\ pc' # "on_save" => action' # "unlatch"
          /\ offBy' = offBy
      BY <2>1, DecisionPlaces
    <2>3. Decide(i) /\ Owned
      BY <2>1 DEF Deciding, ControllerInv, Owned, OwnerInv
    <2>4. /\ action' = "none" => pc' \in {"idle", "relock_send", "save"}
          /\ action' = "stop" => view' = i
      BY <2>1, CommandlessPlaces
    <2>5. ASSUME LeftOff', ~retaken'
          PROVE  /\ ~shutoff'.owned /\ ~disk'.shutoff.owned
                 /\ pc' \notin {"stop_save", "stop_send", "on_save", "on_send"}
      <3>1. ~shutoff.owned /\ ~disk'.shutoff.owned /\ ~Retakes
        BY <1>1, <1>2, <2>2, <2>5 DEF OffInv, LeftOff
      <3>2. CASE ~shutoff'.owned /\ action' = "none"
        BY <2>4, <3>1, <3>2
      <3>3. CASE shutoff'.owned
        <4>1. pc' # "idle"
          BY <2>2, <3>1, <3>3
        <4>2. TakesOwnership
          BY <1>1, <3>1, <3>3, <4>1 DEF TakesOwnership
        <4>3. CASE action' = "unlatch"
          BY <3>1, <4>2, <4>3 DEF Retakes, Thaws
        <4>4. CASE action' = "none" /\ AdoptedJustNow
          BY <3>1, <4>2, <4>4 DEF Retakes, EndsAdoption
        <4>5. CASE action' = "stop" /\ SeenMining(i) /\ ~i.user_off
          <5>1. ~UserOffRecently
            BY <1>1, <2>1, <4>5 DEF GraceInv
          <5> QED
            BY <2>4, <3>1, <4>2, <4>5, <5>1 DEF Retakes, SeenToHash, SeenMining
        <4> QED
          BY <2>3, <3>1, <3>3, <4>3, <4>4, <4>5, UnownedDecides
      <3> QED
        BY <2>3, <3>1, <3>2, <3>3, UnownedDecides
    <2> QED
      BY <1>2, <2>5 DEF OffInv
  <1> QED
    BY <1>3, <1>4

\* The saves of the step.
LEMMA SavesLeave ==
    ASSUME ControllerInv, OffInv, ~SaveFails, retaken => retaken', SaveStep \/ LastSave
    PROVE  OffInv'
  <1>1. /\ Saves /\ UNCHANGED <<machine, latched, calls, offBy>>
    BY DEF SaveStep, LastSave
  <1>2. UNCHANGED <<latched, shutoff>>
    BY <1>1 DEF machine
  <1>3. disk'.shutoff = shutoff
    BY <1>1, <1>2, Saving
  <1>4. /\ pc' \in {"stop_send", "on_send"} => pc \in {"stop_save", "on_save"}
        /\ pc' \notin {"stop_save", "on_save"}
    <2>1. CASE SaveStep
      BY <2>1 DEF SaveStep, Moves
    <2>2. CASE LastSave
      BY <2>2 DEF LastSave, Ends
    <2> QED
      BY <2>1, <2>2
  <1> QED
    BY <1>1, <1>2, <1>3, <1>4 DEF OffInv, LeftOff, Off

\* The commands of the step: under the user's stop, only the lockout's.
LEMMA CommandsLeave ==
    ASSUME ControllerInv, OffInv, retaken => retaken',
           \E o \in Outcomes : RelockSend(o) \/ ShutoffOff(o) \/ ShutoffOn(o)
    PROVE  OffInv'
  <1>1. PICK o \in Outcomes : RelockSend(o) \/ ShutoffOff(o) \/ ShutoffOn(o)
    OBVIOUS
  <1>2. /\ pc # "idle"
        /\ UNCHANGED <<calls, disk>>
        /\ offBy' = "user" => offBy = "user"
        /\ pc' \in {"idle", "fail_save", "save"}
        /\ pc \in {"stop_send", "on_send"} \/ shutoff' = shutoff
    BY <1>1 DEF RelockSend, ShutoffOff, ShutoffOn, Moves, machine
  <1>3. /\ Off({"save"})' = Off({"save"}) /\ Off({"send"})' = Off({"send"})
        /\ ~Off({"save"})
    BY <1>2 DEF Off, Locked, ControllerInv, LockInv
  <1> QED
    BY <1>2, <1>3 DEF OffInv, LeftOff

\* An override disowns the stop while it holds the lock; with the user's own begins
\* what the record says.
LEMMA OverridesLeave ==
    ASSUME ControllerInv, OffInv, OffTakesOver \/ (retaken => retaken'),
           OnOverrides \/ OffOverrides \/ ResetClears
    PROVE  OffInv'
  <1>1. PICK c \in Calls : /\ Waits(c, "wait", "save")
                           /\ offBy' = "none" \/ (offBy' = offBy /\ c # "off")
    BY DEF OnOverrides, OffOverrides, ResetClears
  <1>2. pc = "idle" /\ UNCHANGED <<pc, disk>>
    BY DEF OnOverrides, OffOverrides, ResetClears, LockFree
  <1>3. \A w : /\ c # "off" => Off(w)' = Off(w)
               /\ c = "off" => (Off(w)' <=> "save" \in w) /\ (Off(w) <=> "wait" \in w)
    BY <1>1, OffMoves DEF ControllerInv, Waiting
  <1>4. ~shutoff'.owned
    <2>1. Disowned(shutoff) \in ShutoffState /\ ~Disowned(shutoff).owned
      BY DisownedType, RunningState DEF ControllerInv, TypeOK
    <2>2. \/ shutoff' = Disowned(shutoff)
          \/ shutoff' = [Disowned(shutoff) EXCEPT !.suppressed = TRUE]
      BY DEF OnOverrides, OffOverrides, ResetClears, UserMiningOn, UserMiningOff,
             LockoutReset, Sets
    <2> QED
      BY <2>1, <2>2 DEF ShutoffState
  <1>5. LeftOff' => LeftOff
    BY <1>1, <1>3 DEF LeftOff
  <1>6. LeftOff' => ~OffTakesOver
    <2>1. CASE c = "off"
      <3>1. offBy' # "user"
        BY <1>1, <2>1
      <3>2. ~Off({"send"})'
        BY <1>3, <2>1
      <3> QED
        BY <3>1, <3>2 DEF LeftOff
    <2>2. CASE c # "off"
      <3>1. "save" \in Waiting
        BY DEF Waiting
      <3>2. \A d \in Calls : d # c => calls'[d] = calls[d]
        BY <1>1, <3>1, CallMoves DEF ControllerInv
      <3> QED
        BY <2>2, <3>2 DEF OffTakesOver
    <2> QED
      BY <2>1, <2>2
  <1> QED
    BY <1>2, <1>4, <1>5, <1>6 DEF OffInv

\* Time passes, Home Assistant dies or the entry is reloaded.
LEMMA RestartsLeave ==
    ASSUME ControllerInv, OffInv, retaken => retaken',
           Passes \/ \E m \in Modes : Crash(m) \/ Reload(m)
    PROVE  OffInv'
  <1>1. ~Off({"save"})' /\ ~Off({"send"})'
    <2>1. CASE Passes
      BY <2>1 DEF Passes, Quiet, Off
    <2>2. CASE \E m \in Modes : Crash(m) \/ Reload(m)
      BY <2>2, SettingUp DEF Off
    <2> QED
      BY <2>1, <2>2
  <1>2. pc' = "idle" /\ offBy' = offBy
    <2>1. CASE Passes
      BY <2>1 DEF Passes, Quiet
    <2>2. CASE \E m \in Modes : Crash(m) \/ Reload(m)
      BY <2>2, SettingUp
    <2> QED
      BY <2>1, <2>2
  <1>3. ~shutoff.owned /\ ~disk.shutoff.owned => ~shutoff'.owned /\ ~disk'.shutoff.owned
    <2>1. CASE Passes
      <3>1. /\ disk \in [latched : BOOLEAN, shutoff : ShutoffState]
            /\ Consistent(shutoff, mode) /\ Consistent(disk.shutoff, "observe")
            /\ shutoff \in ShutoffState /\ disk.shutoff \in ShutoffState
        BY DEF ControllerInv, TypeOK, PlainTypes, OwnerInv, OwnershipInv
      <3>2. shutoff' = Aged(shutoff) /\ disk' = [disk EXCEPT !.shutoff = Aged(@)]
        BY <2>1 DEF Passes
      <3>3. shutoff'.owned = shutoff.owned /\ disk'.shutoff.owned = disk.shutoff.owned
        BY <3>1, <3>2, AgedConsistent
      <3> QED
        BY <3>3
    <2>2. CASE \E m \in Modes : Crash(m) \/ Reload(m)
      BY <2>2, SettingUp
    <2> QED
      BY <2>1, <2>2
  <1> QED
    BY <1>1, <1>2, <1>3 DEF OffInv, LeftOff

\* The user's off is not pressed, nor does time pass, between the beginning of a
\* step and its decision.
LEMMA GraceSteps ==
    ASSUME ControllerInv, GraceInv, [ControllerNext]_allVars
    PROVE  GraceInv'
  <1>1. CASE (\E fresh \in BOOLEAN : PollStep(fresh)) \/ TimerStep \/ ResetNotifies
    <2>1. PICK poll : Begins(poll) \/ UNCHANGED <<pc, view>>
      BY <1>1 DEF PollStep, TimerStep, ResetNotifies
    <2>2. userOff' = userOff
      BY <1>1 DEF PollStep, TimerStep, ResetNotifies, memory
    <2>3. CASE Begins(poll)
      <3>1. view'.user_off = UserOffRecently
        BY <2>3 DEF Begins, NoView
      <3> QED
        BY <2>2, <3>1 DEF GraceInv, UserOffRecently
    <2> QED
      BY <2>1, <2>2, <2>3 DEF GraceInv, UserOffRecently
  <1>2. CASE \E e \in Environment : Trip(e)
    <2>1. PICK e \in Environment : Trip(e)
      BY <1>2
    <2>2. WithEnvironment(e) \in View /\ WithEnvironment(e).user_off = view.user_off
      BY Reading
    <2>3. /\ pc = "forecast" /\ userOff' = userOff
          /\ view' = [WithEnvironment(e) EXCEPT !.latched = TRUE]
      BY <2>1 DEF Trip
    <2>4. view'.user_off = view.user_off
      BY <2>2, <2>3 DEF View
    <2> QED
      BY <2>3, <2>4 DEF GraceInv, UserOffRecently
  <1>3. CASE (\E e \in Environment : DecideStep(e)) \/ (\E o \in Outcomes : TripSend(o))
    <2>1. pc' \notin {"forecast", "trip_save", "trip_send"}
      BY <1>3, DecisionInputs, DecisionPlaces
    <2> QED
      BY <2>1 DEF GraceInv
  <1>4. CASE SaveStep \/ LastSave
    <2>1. userOff' = userOff /\ (pc' = "trip_send" => pc = "trip_save" /\ view' = view)
          /\ pc' \notin {"forecast", "trip_save"}
      BY <1>4 DEF SaveStep, LastSave, Moves, Ends
    <2> QED
      BY <2>1 DEF GraceInv, UserOffRecently
  <1>5. CASE \E o \in Outcomes : RelockSend(o) \/ ShutoffOff(o) \/ ShutoffOn(o)
    BY <1>5 DEF RelockSend, ShutoffOff, ShutoffOn, Moves, GraceInv
  <1>6. CASE OnOverrides \/ OffOverrides \/ ResetClears \/ Passes
             \/ \E m \in Modes : Crash(m) \/ Reload(m)
    <2>1. pc' = "idle"
      BY <1>6, SettingUp DEF OnOverrides, OffOverrides, ResetClears, LockFree, Passes, Quiet
    <2> QED
      BY <2>1 DEF GraceInv
  <1>7. CASE \/ Boots \/ Drains \/ StartsByItself \/ OnCalled \/ OffCalled \/ ResetCalled
             \/ (\E o \in Outcomes : OnSends(o) \/ OffSends(o))
             \/ (\E c \in Calls : CallSaves(c)) \/ DelayedSave
             \/ UNCHANGED allVars
    <2>1. UNCHANGED <<pc, view, userOff>>
      BY <1>7 DEF Boots, Drains, StartsByItself, OnCalled, OffCalled, ResetCalled, OnSends,
                  OffSends, CallSaves, DelayedSave, allVars, memory
    <2> QED
      BY <2>1 DEF GraceInv, UserOffRecently
  <1> QED
    BY <1>1, <1>2, <1>3, <1>4, <1>5, <1>6, <1>7
       DEF ControllerNext, Runs, StepProceeds, CallProceeds, Disturbs

\* Only the overrides move a call from the lock's queue into the lock.
LEMMA OthersWait ==
    ASSUME ControllerInv, ControllerNext, ~(OnOverrides \/ OffOverrides \/ ResetClears)
    PROVE  ~OffTakesOver
  <1>1. CASE UNCHANGED calls
    BY <1>1 DEF OffTakesOver
  <1>2. CASE \E c \in Calls : \E from \in {"idle", "save", "send"}, to \in Waiting :
               Waits(c, from, to)
    BY <1>2, CallMoves DEF OffTakesOver, ControllerInv
  <1>3. CASE \E m \in Modes : Crash(m) \/ Reload(m)
    BY <1>3, SettingUp DEF OffTakesOver
  <1>4. \/ UNCHANGED calls
        \/ \E c \in Calls : \/ Waits(c, "idle", "wait") \/ Waits(c, "save", "send")
                            \/ Waits(c, "send", "idle")
        \/ \E m \in Modes : Crash(m) \/ Reload(m)
    <2>1. CASE \/ (\E fresh \in BOOLEAN : PollStep(fresh)) \/ TimerStep
               \/ (\E e \in Environment : Trip(e) \/ DecideStep(e))
               \/ SaveStep \/ LastSave
               \/ (\E o \in Outcomes : TripSend(o) \/ RelockSend(o) \/ ShutoffOff(o) \/ ShutoffOn(o))
               \/ Boots \/ Drains \/ DelayedSave \/ Passes \/ StartsByItself
      BY <2>1 DEF PollStep, TimerStep, Trip, DecideStep, Deciding, SaveStep, LastSave, TripSend,
                  RelockSend, ShutoffOff, ShutoffOn, Boots, Drains, DelayedSave, Passes,
                  StartsByItself
    <2>2. CASE \/ (\E c \in Calls : CallSaves(c)) \/ ResetNotifies
               \/ (\E o \in Outcomes : OnSends(o) \/ OffSends(o))
               \/ OnCalled \/ OffCalled \/ ResetCalled
      BY <2>2 DEF CallSaves, ResetNotifies, OnSends, OffSends, OnCalled, OffCalled, ResetCalled
    <2> QED
      BY <2>1, <2>2 DEF ControllerNext, Runs, StepProceeds, CallProceeds, Disturbs
  <1> QED
    BY <1>1, <1>2, <1>3, <1>4 DEF Waiting

\* Every step keeps it.
LEMMA OffSteps ==
    ASSUME ControllerInv, GraceInv, OffInv, ~SaveFails, [RecordNext]_RecordVars
    PROVE  OffInv'
  <1>1. CASE UNCHANGED RecordVars
    BY <1>1, OthersLeave DEF RecordVars
  <1>2. CASE RecordNext
    <2>0. CASE ~TurnedOff'
      BY <2>0 DEF TurnedOff, OffInv, LeftOff, Off
    <2> SUFFICES ASSUME TurnedOff' PROVE OffInv'
      BY <2>0
    <2>1. ControllerNext /\ retaken' = (~OffTakesOver /\ (retaken \/ Retakes))
      BY <1>2 DEF RecordNext
    <2>2. CASE OnOverrides \/ OffOverrides \/ ResetClears
      BY <2>1, <2>2, OverridesLeave
    <2>3. CASE ~(OnOverrides \/ OffOverrides \/ ResetClears)
      <3>1. (retaken => retaken') /\ (Retakes => retaken')
        BY <2>1, <2>3, OthersWait
      <3> QED
        BY <2>1, <2>3, <3>1, OthersLeave, BeginningsLeave, DecisionsLeave, SavesLeave,
           CommandsLeave, RestartsLeave
           DEF ControllerNext, Runs, StepProceeds, CallProceeds, Disturbs
    <2> QED
      BY <2>2, <2>3
  <1> QED
    BY <1>1, <1>2

\* A stop the user asked for stays, unless the controller has taken it for its own
\* on one of the grounds the record names: with writes that succeed, wherever the
\* step was when the call came and whatever crashes, reloads, resets, lost commands,
\* lingering hashrate, old polls and freezing come between, no other power_on is
\* sent while the user's stop is in force.
THEOREM UserOffHolds ==
    ASSUME ~SaveFails
    PROVE  RecordSpec => []UserOffStays
  <1>1. RecordInit => ControllerInit /\ OffInv /\ GraceInv
    BY DEF RecordInit, ControllerInit, Init, OffInv, GraceInv, LeftOff, Off
  <1>2. [RecordNext]_RecordVars => [ControllerNext]_allVars
    BY DEF RecordNext, RecordVars
  <1>3. (ControllerInv /\ StoreInv) /\ GraceInv /\ [ControllerNext]_allVars => GraceInv'
    BY GraceSteps
  <1>4. (ControllerInv /\ StoreInv) /\ GraceInv /\ OffInv /\ [RecordNext]_RecordVars => OffInv'
    BY OffSteps
  <1>5. OffInv => UserOffStays
    BY DEF OffInv, LeftOff, UserOffStays
  <1>6. ControllerSpec => [](ControllerInv /\ StoreInv)
    BY StoreHolds
  <1> QED
    BY <1>1, <1>2, <1>3, <1>4, <1>5, <1>6, PTL DEF ControllerSpec, RecordSpec

(***************************************************************************)
(* The controller implements StopContract, where the poll is never older   *)
(* than the stop.  The invariants above say what a command rests on and    *)
(* that the shutoff's stop has its owner; the steps are then looked at     *)
(* through the mapping, one by one.                                        *)
(***************************************************************************)

\* A step that is to start the miner owns the stop; one that stops a miner seen
\* hashing under the latch has it.
CommandInv ==
    /\ pc \in {"on_save", "on_send"} => shutoff.owned
    /\ pc = "relock_send" => latched

\* Every step keeps it.
LEMMA CommandSteps ==
    ASSUME ControllerInv, CommandInv, [ControllerNext]_allVars
    PROVE  CommandInv'
  <1>1. CASE UNCHANGED <<pc, latched>> /\ shutoff'.owned = shutoff.owned
    BY <1>1 DEF CommandInv
  <1>2. CASE pc' \notin {"on_save", "on_send", "relock_send"}
    BY <1>2 DEF CommandInv
  <1>3. CASE (\E e \in Environment : DecideStep(e)) \/ (\E o \in Outcomes : TripSend(o))
    <2>1. PICK i \in View : i.latched = latched /\ Deciding(i)
      BY <1>3, DecisionInputs
    <2>2. /\ Owned /\ Decide(i)
          /\ \/ action' \in {"stop", "reassert", "resume", "release", "unlatch"}
                /\ pc' = IF latched' /\ PowersOn(action') THEN "save" ELSE AwaitFor(action')
             \/ pc' = "save"
             \/ Ends(i, latched')
      BY <2>1 DEF Deciding, ControllerInv, OwnerInv, Owned
    <2>3. pc' = "on_save" => action' \in {"resume", "release", "unlatch"}
      BY <2>2 DEF AwaitFor, PowersOn, Ends
    <2>4. pc' = "on_save" => shutoff'.owned
      BY <2>2, <2>3, StartsOwned
    <2>5. pc' # "on_send" /\ (pc' = "relock_send" => latched')
      BY <2>2 DEF AwaitFor, PowersOn, Ends
    <2> QED
      BY <2>4, <2>5 DEF CommandInv
  <1>4. CASE \E e \in Environment : Trip(e)
    BY <1>2, <1>4 DEF Trip
  <1>5. CASE SaveStep
    <2>1. (pc' = "on_send" => pc = "on_save") /\ pc' \notin {"on_save", "relock_send"}
      BY <1>5 DEF SaveStep, Moves
    <2>2. shutoff' = shutoff
      BY <1>5 DEF SaveStep, machine
    <2> QED
      BY <2>1, <2>2 DEF CommandInv
  <1>6. CASE LastSave
    <2>1. pc' \in {"idle", "relock_send"} /\ (pc' = "relock_send" => latched) /\ latched' = latched
      BY <1>6 DEF LastSave, Ends
    <2> QED
      BY <2>1 DEF CommandInv
  <1>7. CASE \E o \in Outcomes : RelockSend(o) \/ ShutoffOff(o) \/ ShutoffOn(o)
    BY <1>2, <1>7 DEF RelockSend, ShutoffOff, ShutoffOn, Moves
  <1>8. CASE (\E fresh \in BOOLEAN : PollStep(fresh)) \/ TimerStep \/ ResetNotifies
    <2>1. pc' = "forecast" \/ UNCHANGED pc
      BY <1>8 DEF PollStep, TimerStep, ResetNotifies, Begins
    <2>2. UNCHANGED <<latched, shutoff>>
      BY <1>8 DEF PollStep, TimerStep, ResetNotifies, machine, memory
    <2> QED
      BY <1>1, <1>2, <2>1, <2>2
  <1>9. CASE OnOverrides \/ OffOverrides \/ ResetClears
    <2>1. pc' = "idle"
      BY <1>9 DEF OnOverrides, OffOverrides, ResetClears, LockFree
    <2> QED
      BY <1>2, <2>1
  <1>10. CASE Passes \/ \E m \in Modes : Crash(m) \/ Reload(m)
    <2>1. pc' = "idle"
      BY <1>10 DEF Passes, Quiet, Crash, Reload, SetsUp
    <2> QED
      BY <1>2, <2>1
  <1>11. CASE \/ Boots \/ Drains \/ StartsByItself
              \/ OnCalled \/ OffCalled \/ ResetCalled
              \/ \E o \in Outcomes : OnSends(o) \/ OffSends(o)
              \/ (\E c \in Calls : CallSaves(c)) \/ DelayedSave
              \/ UNCHANGED allVars
    <2>1. UNCHANGED <<pc, latched, shutoff>>
      BY <1>11 DEF Boots, Drains, StartsByItself, OnCalled, OffCalled, ResetCalled, OnSends,
                   OffSends, CallSaves, DelayedSave, allVars, machine, memory
    <2> QED
      BY <1>1, <2>1
  <1> QED
    BY <1>3, <1>4, <1>5, <1>6, <1>7, <1>8, <1>9, <1>10, <1>11
       DEF ControllerNext, Runs, StepProceeds, CallProceeds, Disturbs

\* What the proof of a step may use before and after it.
ContractInv == ControllerInv /\ StoreInv /\ OrphanInv /\ CommandInv

\* The command a step is at.
LEMMA Commanding ==
    ASSUME PlainTypes
    PROVE  /\ pc = "stop_send" => Command = "stop"
           /\ pc = "on_send" => Command = "start"
           /\ pc \in {"trip_send", "relock_send"} => Command = "lock"
           /\ pc \notin {"stop_send", "on_send", "trip_send", "relock_send"} => Command = "none"
  BY DEF Command

\* It rests on what memory and the Store hold.
LEMMA CommandsGrounded == ContractInv => Contract!Grounded
  <1> SUFFICES ASSUME ContractInv PROVE Contract!Grounded
    OBVIOUS
  <1>1. PlainTypes /\ (pc # "idle" => ~Locked)
    BY DEF ContractInv, ControllerInv, LockInv
  <1>2. CASE pc \notin {"stop_send", "on_send", "trip_send", "relock_send"}
    BY <1>1, <1>2, Commanding DEF Contract!Grounded
  <1>3. CASE pc \in {"stop_send", "on_send", "trip_send", "relock_send"}
    <2>1. /\ disk.latched = latched /\ disk.shutoff.owned = shutoff.owned
      BY <1>1, <1>3 DEF ContractInv, StoreInv
    <2>2. /\ pc \in {"stop_send", "on_send"} => shutoff.owned /\ ~latched
          /\ pc \in {"trip_send", "relock_send"} => latched
      BY DEF ContractInv, ControllerInv, StepInv, CommandInv
    <2> QED
      BY <1>1, <1>3, <2>1, <2>2, Commanding DEF Contract!Grounded, Contract!Memory
  <1> QED
    BY <1>2, <1>3

\* A call of the switch is pressed from its save until its command.
LEMMA Pressing ==
    ASSUME PlainTypes, NEW c \in Calls, NEW from, NEW to \in Waiting, Waits(c, from, to)
    PROVE  /\ c = "reset" \/ (from # "send" /\ to # "send") => Pressed' = Pressed
           /\ c # "reset" /\ to = "send" => Pressed' = Pressed \cup {c}
           /\ c # "reset" /\ from = "send" /\ to # "send" =>
                c \in Pressed /\ Pressed' = Pressed \ {c}
  <1>1. /\ calls[c] = from /\ calls'[c] = to
        /\ \A d \in Calls : d # c => calls'[d] = calls[d]
    BY CallMoves
  <1> QED
    BY <1>1 DEF Pressed

\* What the contract sees none of.
Unseen == UNCHANGED Contract!contractVars

\* Polls, calls that are made, the reset's last step and the miner's hashrate
\* are none of the contract's, and neither is time.
LEMMA ContractOthers ==
    ASSUME ControllerInv,
           \/ (\E fresh \in BOOLEAN : PollStep(fresh)) \/ TimerStep \/ ResetNotifies
           \/ OnCalled \/ OffCalled \/ ResetCalled
           \/ Boots \/ Drains \/ Passes \/ UNCHANGED allVars
    PROVE  Unseen
  <1>1. PlainTypes
    BY DEF ControllerInv
  <1>2. Command' = Command
    <2>1. UNCHANGED pc \/ (pc = "idle" /\ pc' = "forecast")
      BY DEF PollStep, TimerStep, ResetNotifies, Begins, StepMayRun, LockFree, OnCalled,
             OffCalled, ResetCalled, Boots, Drains, Passes, allVars
    <2> QED
      BY <2>1 DEF Command
  <1>3. Pressed' = Pressed
    <2>1. CASE OnCalled \/ OffCalled \/ ResetCalled
      <3>1. PICK c \in Calls : Waits(c, "idle", "wait")
        BY <2>1 DEF OnCalled, OffCalled, ResetCalled
      <3> QED
        BY <1>1, <3>1, Pressing DEF Waiting
    <2>2. CASE ResetNotifies
      <3>1. "reset" \in Calls /\ Waits("reset", "send", "idle")
        BY <2>2 DEF ResetNotifies
      <3> QED
        BY <1>1, <3>1, Pressing DEF Waiting
    <2>3. CASE UNCHANGED calls
      BY <2>3 DEF Pressed
    <2> QED
      BY <2>1, <2>2, <2>3 DEF PollStep, TimerStep, Boots, Drains, Passes, allVars
  <1>4. /\ miner'.on = miner.on /\ offBy' = offBy /\ latched' = latched
        /\ shutoff'.owned = shutoff.owned /\ disk'.shutoff.owned = disk.shutoff.owned
        /\ disk'.latched = disk.latched
    <2>1. CASE Passes
      <3>1. /\ shutoff \in ShutoffState /\ disk.shutoff \in ShutoffState
            /\ disk \in [latched : BOOLEAN, shutoff : ShutoffState]
            /\ Consistent(shutoff, mode) /\ Consistent(disk.shutoff, "observe")
        BY DEF ControllerInv, TypeOK, PlainTypes, OwnerInv, OwnershipInv
      <3>2. /\ shutoff' = Aged(shutoff) /\ disk' = [disk EXCEPT !.shutoff = Aged(@)]
            /\ UNCHANGED <<latched, miner, offBy>>
        BY <2>1 DEF Passes, plant
      <3>3. /\ shutoff'.owned = shutoff.owned /\ disk'.latched = disk.latched
            /\ disk'.shutoff.owned = disk.shutoff.owned
        BY <3>1, <3>2, AgedConsistent
      <3> QED
        BY <3>2, <3>3
    <2>2. CASE Boots \/ Drains
      BY <1>1, <2>2 DEF Boots, Drains, machine, memory, PlainTypes
    <2>3. CASE UNCHANGED <<miner, offBy, latched, shutoff, disk>>
      BY <2>3
    <2> QED
      BY <2>1, <2>2, <2>3 DEF PollStep, TimerStep, ResetNotifies, OnCalled, OffCalled,
                              ResetCalled, machine, memory, plant, allVars
  <1> QED
    BY <1>2, <1>3, <1>4 DEF Unseen, Contract!contractVars

\* A step decides or trips the lockout; the power_off of a trip comes with the
\* decision after it.
LEMMA ContractDecisions ==
    ASSUME ContractInv, ContractInv',
           \/ \E e \in Environment : Trip(e) \/ DecideStep(e)
           \/ \E o \in Outcomes : TripSend(o)
    PROVE  Contract!ContractNext
  <1>1. PlainTypes /\ Contract!Grounded'
    <2>1. Contract!Grounded'
      BY CommandsGrounded, PTL
    <2> QED
      BY <2>1 DEF ContractInv, ControllerInv
  <1>2. CASE \E e \in Environment : Trip(e)
    <2>1. PICK e \in Environment : Trip(e)
      BY <1>2
    <2>2. /\ pc = "forecast" /\ pc' = "trip_save" /\ latched' = TRUE /\ offBy' = "lockout"
          /\ UNCHANGED <<shutoff, calls, disk, miner>> /\ view.latched = latched
      BY <2>1 DEF Trip, machine, plant, ContractInv, ControllerInv, StepInv
    <2>3. ~latched
      BY <2>1, <2>2 DEF Trip, Overheated, WithEnvironment, ContractInv, ControllerInv,
                        PlainTypes, View
    <2>4. Command = "none" /\ Command' = "none" /\ Pressed' = Pressed
      BY <2>2 DEF Command, Pressed
    <2>5. Contract!Trips
      BY <2>2, <2>3, <2>4 DEF Contract!Trips
    <2> QED
      BY <2>5 DEF Contract!ContractNext
  <1>3. CASE (\E e \in Environment : DecideStep(e)) \/ (\E o \in Outcomes : TripSend(o))
    <2>1. PICK i \in View : i.latched = latched /\ Deciding(i)
      BY <1>3, DecisionInputs DEF ContractInv
    <2>2. /\ UNCHANGED <<calls, disk, offBy>>
          /\ latched' = (latched /\ action' # "unlatch")
          /\ pc' # "on_save" => action' # "unlatch"
      BY <2>1, DecisionPlaces DEF ContractInv
    <2>3. latched \in BOOLEAN /\ latched' \in BOOLEAN /\ shutoff'.owned \in BOOLEAN
      <3>1. latched \in BOOLEAN /\ (TypeOK /\ PlainTypes)'
        BY DEF ContractInv, ControllerInv, PlainTypes
      <3> QED
        BY <3>1 DEF TypeOK, PlainTypes, ShutoffState
    <2>4. offBy = "shutoff" => shutoff'.owned
      BY <2>2 DEF ContractInv, OrphanInv, StopOwned, Ours
    <2>5. latched /\ ~latched' => shutoff'.owned
      BY <2>2, <2>3 DEF ContractInv, CommandInv
    <2>6. Contract!MayChange
      BY <2>2, <2>3, <2>4, <2>5 DEF Contract!MayChange
    <2>7. Pressed' = Pressed
      BY <2>2 DEF Pressed
    <2>8. CASE \E e \in Environment : DecideStep(e)
      <3>1. Command = "none" /\ UNCHANGED miner
        BY <2>8 DEF DecideStep, Command
      <3>2. Contract!Decides
        BY <1>1, <2>2, <2>6, <2>7, <3>1 DEF Contract!Decides
      <3> QED
        BY <3>2 DEF Contract!ContractNext
    <2>9. CASE \E o \in Outcomes : TripSend(o)
      <3>1. Command = "lock" /\ \E o \in Outcomes : PoweredOff(o)
        BY <2>9 DEF TripSend, Command
      <3>2. miner'.on = FALSE \/ miner' = miner
        BY <3>1 DEF PoweredOff
      <3>3. Contract!Locks
        BY <1>1, <2>2, <2>6, <2>7, <3>1, <3>2 DEF Contract!Locks
      <3> QED
        BY <3>3 DEF Contract!ContractNext
    <2> QED
      BY <1>3, <2>8, <2>9
  <1> QED
    BY <1>2, <1>3

\* What a save puts into the Store.
LEMMA SavesMemory ==
    ASSUME ControllerInv, ~SaveFails, Saves, UNCHANGED <<latched, shutoff>>
    PROVE  [owned |-> disk'.shutoff.owned, latched |-> disk'.latched]
             = [owned |-> shutoff.owned, latched |-> latched]
  BY Saving

\* The saves of the step, of a call, and the delayed one.
LEMMA ContractSaves ==
    ASSUME ContractInv, ContractInv', ~SaveFails,
           SaveStep \/ LastSave \/ (\E c \in Calls : CallSaves(c)) \/ DelayedSave
    PROVE  Contract!ContractNext \/ Unseen
  <1>1. /\ Saves /\ UNCHANGED <<latched, shutoff, offBy, miner>>
    BY DEF SaveStep, LastSave, CallSaves, DelayedSave, machine, memory, plant
  <1>2. PlainTypes /\ Contract!Grounded /\ Contract!Grounded'
    <2>1. Contract!Grounded /\ Contract!Grounded'
      BY CommandsGrounded, PTL
    <2> QED
      BY <2>1 DEF ContractInv, ControllerInv
  <1>3. [owned |-> disk'.shutoff.owned, latched |-> disk'.latched]
          = [owned |-> shutoff.owned, latched |-> latched]
    BY <1>1, SavesMemory DEF ContractInv
  <1>4. CASE \E c \in Calls : CallSaves(c)
    <2>1. PICK c \in Calls : CallSaves(c)
      BY <1>4
    <2>2. Waits(c, "save", "send") /\ UNCHANGED pc
      BY <2>1 DEF CallSaves
    <2>3. pc = "idle"
      BY <2>2 DEF Waits, Locked, ContractInv, ControllerInv, LockInv
    <2>4. Command = "none" /\ Command' = "none"
      BY <2>2, <2>3 DEF Command
    <2>5. CASE c = "reset"
      <3>1. Pressed' = Pressed
        BY <1>2, <2>2, <2>5, Pressing DEF Waiting
      <3>2. Contract!Saves
        BY <1>1, <1>2, <1>3, <2>4, <3>1 DEF Contract!Saves, Contract!Memory
      <3> QED
        BY <3>2 DEF Contract!ContractNext
    <2>6. CASE c # "reset"
      <3>1. c \in {"on", "off"}
        BY <2>6, ControllerAssumption DEF ControllerAssumption, Services
      <3>2. Pressed' = Pressed \cup {c}
        BY <1>2, <2>2, <2>6, Pressing DEF Waiting
      <3>3. Contract!Presses(c)
        BY <1>1, <1>3, <2>4, <3>2 DEF Contract!Presses, Contract!Memory
      <3> QED
        BY <3>1, <3>3 DEF Contract!ContractNext
    <2> QED
      BY <2>5, <2>6
  <1>5. CASE SaveStep \/ LastSave
    <2>1. Command = "none" /\ Pressed' = Pressed
      BY <1>5 DEF SaveStep, LastSave, Command, Pressed
    <2>2. Contract!Saves
      BY <1>1, <1>2, <1>3, <2>1 DEF Contract!Saves, Contract!Memory
    <2> QED
      BY <2>2 DEF Contract!ContractNext
  <1>6. CASE DelayedSave
    <2>1. Command' = Command /\ Pressed' = Pressed
      BY <1>6 DEF DelayedSave, Command, Pressed
    <2>2. CASE Command = "none"
      <3>1. Contract!Saves
        BY <1>1, <1>2, <1>3, <2>1, <2>2 DEF Contract!Saves, Contract!Memory
      <3> QED
        BY <3>1 DEF Contract!ContractNext
    <2>3. CASE Command # "none"
      <3>1. [owned |-> disk.shutoff.owned, latched |-> disk.latched]
              = [owned |-> shutoff.owned, latched |-> latched]
        BY <1>2, <2>3 DEF Contract!Grounded, Contract!Memory
      <3> QED
        BY <1>1, <1>3, <2>1, <3>1 DEF Unseen, Contract!contractVars
    <2> QED
      BY <2>2, <2>3
  <1> QED
    BY <1>4, <1>5, <1>6

\* The commands of the step, carried out or not.
LEMMA ContractCommands ==
    ASSUME ContractInv, ContractInv',
           \E o \in Outcomes : RelockSend(o) \/ ShutoffOff(o) \/ ShutoffOn(o)
    PROVE  Contract!ContractNext
  <1>1. PICK o \in Outcomes : RelockSend(o) \/ ShutoffOff(o) \/ ShutoffOn(o)
    OBVIOUS
  <1>2. /\ UNCHANGED <<latched, calls, disk>> /\ pc' \in {"idle", "fail_save", "save"}
    BY <1>1 DEF RelockSend, ShutoffOff, ShutoffOn, memory, Moves
  <1>3. /\ ~Lands(o) => miner' = miner /\ offBy' = offBy
        /\ Lands(o) /\ PoweredOff(o) => miner'.on = FALSE
    BY <1>1 DEF RelockSend, ShutoffOff, ShutoffOn, PoweredOff, PoweredOn
  <1>4. shutoff'.owned = shutoff.owned
    <2>1. UNCHANGED machine \/ StopSendFailed \/ ResumeSendFailed
      BY <1>1 DEF RelockSend, ShutoffOff, ShutoffOn
    <2>2. CASE StopSendFailed \/ ResumeSendFailed
      BY <2>2, FailedSends DEF ContractInv, ControllerInv, OwnerInv, SameStop
    <2> QED
      BY <2>1, <2>2 DEF machine
  <1>5. Command' = "none" /\ Pressed' = Pressed
    BY <1>2 DEF Command, Pressed
  <1>6. CASE RelockSend(o)
    <2>1. Command = "lock" /\ PoweredOff(o) /\ (Lands(o) => offBy' = "lockout")
      BY <1>6 DEF RelockSend, Command
    <2>2. /\ latched \in BOOLEAN /\ shutoff.owned \in BOOLEAN /\ (offBy = "shutoff" => shutoff.owned)
      BY DEF ContractInv, ControllerInv, PlainTypes, TypeOK, ShutoffState, OrphanInv, StopOwned,
             Ours
    <2>3. Contract!MayChange
      BY <1>2, <1>4, <2>2 DEF Contract!MayChange
    <2>4. Contract!Locks
      <3>1. Contract!Grounded'
        BY CommandsGrounded, PTL
      <3> QED
        BY <1>2, <1>3, <1>5, <2>1, <2>3, <3>1 DEF Contract!Locks
    <2> QED
      BY <2>4 DEF Contract!ContractNext
  <1>7. CASE ShutoffOff(o)
    <2>1. Command = "stop" /\ PoweredOff(o) /\ (Lands(o) => offBy' = "shutoff")
      BY <1>7 DEF ShutoffOff, Command
    <2>2. Contract!Stops
      BY <1>2, <1>3, <1>4, <1>5, <2>1 DEF Contract!Stops
    <2> QED
      BY <2>2 DEF Contract!ContractNext
  <1>8. CASE ShutoffOn(o)
    <2>1. Command = "start" /\ PoweredOn(o) /\ (Lands(o) => offBy' = "none")
      BY <1>8 DEF ShutoffOn, Command
    <2>2. Lands(o) => miner'.on = TRUE
      BY <2>1 DEF PoweredOn, ContractInv, ControllerInv, PlainTypes
    <2>3. Contract!Starts
      BY <1>2, <1>3, <1>4, <1>5, <2>1, <2>2 DEF Contract!Starts
    <2> QED
      BY <2>3 DEF Contract!ContractNext
  <1> QED
    BY <1>1, <1>6, <1>7, <1>8

\* The user's calls.
LEMMA ContractCalls ==
    ASSUME ContractInv,
           \/ OnOverrides \/ OffOverrides \/ ResetClears
           \/ \E o \in Outcomes : OnSends(o) \/ OffSends(o)
    PROVE  Contract!ContractNext
  <1>1. PlainTypes /\ shutoff \in ShutoffState
    BY DEF ContractInv, ControllerInv, TypeOK
  <1>2. CASE OnOverrides \/ OffOverrides \/ ResetClears
    <2>1. PICK c \in Calls : /\ Waits(c, "wait", "save")
                             /\ c # "reset" => offBy' = "none" /\ latched' = latched
                             /\ c = "reset" => offBy' = offBy /\ latched' = FALSE
      BY <1>2 DEF OnOverrides, OffOverrides, ResetClears, memory
    <2>2. /\ pc = "idle" /\ pc' = pc /\ UNCHANGED <<disk, miner>>
      BY <1>2 DEF OnOverrides, OffOverrides, ResetClears, LockFree, plant
    <2>3. shutoff'.owned = FALSE
      <3>1. Disowned(shutoff) \in ShutoffState /\ Disowned(shutoff).owned = FALSE
        <4>1. Enter(shutoff, "running") \in ShutoffState
          BY <1>1, EnterType DEF ShutoffStates
        <4>2. Disowned(shutoff).owned = FALSE
          BY <4>1 DEF Disowned, ShutoffState
        <4> QED
          BY <1>1, <4>2, DisownedType
      <3>2. \/ shutoff' = Disowned(shutoff)
            \/ shutoff' = [Disowned(shutoff) EXCEPT !.suppressed = TRUE]
        BY <1>2 DEF OnOverrides, OffOverrides, ResetClears, UserMiningOn, UserMiningOff,
                    LockoutReset, Sets
      <3> QED
        BY <3>1, <3>2 DEF ShutoffState
    <2>4. Command = "none" /\ Command' = "none"
      BY <2>2 DEF Command
    <2>5. Pressed' = Pressed
      BY <1>1, <2>1, Pressing DEF Waiting
    <2>6. CASE c # "reset"
      <3>1. Contract!Overrides
        BY <2>1, <2>2, <2>3, <2>4, <2>5, <2>6 DEF Contract!Overrides
      <3> QED
        BY <3>1 DEF Contract!ContractNext
    <2>7. CASE c = "reset"
      <3>1. offBy # "shutoff"
        BY <2>1, <2>7 DEF Waits, ContractInv, OrphanInv, ResetInv, Reset, Ours
      <3>2. Contract!Resets
        BY <2>1, <2>2, <2>3, <2>4, <2>5, <2>7, <3>1 DEF Contract!Resets
      <3> QED
        BY <3>2 DEF Contract!ContractNext
    <2> QED
      BY <2>6, <2>7
  <1>3. ASSUME NEW o \in Outcomes, NEW c \in {"on", "off"}, c \in Calls,
               Waits(c, "send", "idle"), UNCHANGED <<machine, memory, pc, disk>>,
               \/ UNCHANGED <<miner, offBy>>
               \/ c = "on" /\ miner'.on = TRUE /\ offBy' = "none"
               \/ c = "off" /\ miner'.on = FALSE /\ offBy' = "user"
        PROVE  Contract!ContractNext
    <2>1. UNCHANGED <<latched, shutoff, pc, disk>>
      BY <1>3 DEF machine, memory
    <2>2. c \in Pressed /\ Pressed' = Pressed \ {c}
      BY <1>1, <1>3, Pressing DEF Waiting
    <2>3. Command' = Command
      BY <2>1 DEF Command
    <2>4. Contract!Switches(c)
      BY <1>3, <2>1, <2>2, <2>3 DEF Contract!Switches
    <2> QED
      BY <1>3, <2>4 DEF Contract!ContractNext
  <1>4. ASSUME NEW o \in Outcomes, OnSends(o)
        PROVE  Contract!ContractNext
    <2>1. \/ UNCHANGED <<miner, offBy>>
          \/ miner'.on = TRUE /\ offBy' = "none"
      BY <1>1, <1>4 DEF OnSends, PoweredOn, PlainTypes
    <2> QED
      BY <1>3, <1>4, <2>1 DEF OnSends
  <1>5. ASSUME NEW o \in Outcomes, OffSends(o)
        PROVE  Contract!ContractNext
    <2>1. \/ UNCHANGED <<miner, offBy>>
          \/ miner'.on = FALSE /\ offBy' = "user"
      BY <1>1, <1>5 DEF OffSends, PoweredOff, PlainTypes
    <2> QED
      BY <1>3, <1>5, <2>1 DEF OffSends
  <1> QED
    BY <1>2, <1>4, <1>5

\* The miner starts by itself, Home Assistant dies or the entry is reloaded.
LEMMA ContractRestarts ==
    ASSUME ContractInv, ContractInv',
           StartsByItself \/ \E m \in Modes : Crash(m) \/ Reload(m)
    PROVE  Contract!ContractNext
  <1>1. PlainTypes
    BY DEF ContractInv, ControllerInv
  <1>2. CASE StartsByItself
    <2>1. /\ ~miner.on /\ miner'.on = TRUE /\ offBy' = "none"
          /\ UNCHANGED <<latched, shutoff, pc, calls, disk>>
      BY <1>1, <1>2 DEF StartsByItself, PlainTypes, machine, memory
    <2>2. Command' = Command /\ Pressed' = Pressed
      BY <2>1 DEF Command, Pressed
    <2>3. Contract!StartsByItself
      BY <2>1, <2>2 DEF Contract!StartsByItself
    <2> QED
      BY <2>3 DEF Contract!ContractNext
  <1>3. ASSUME NEW m \in Modes, Crash(m) \/ Reload(m)
        PROVE  Contract!ContractNext
    <2>1. /\ latched' = disk'.latched /\ shutoff'.owned = disk'.shutoff.owned
          /\ pc' = "idle" /\ (\A c \in Calls : calls'[c] = "idle")
          /\ UNCHANGED <<miner, offBy>>
      BY <1>3, SettingUp DEF ContractInv
    <2>2. Command' = "none" /\ Pressed' = {}
      BY <2>1 DEF Command, Pressed
    <2>3. CASE Crash(m)
      <3>1. disk' = disk
        BY <2>3 DEF Crash
      <3>2. Contract!Restarts
        BY <2>1, <2>2, <3>1 DEF Contract!Restarts
      <3> QED
        BY <3>2 DEF Contract!ContractNext
    <2>4. CASE Reload(m)
      <3>1. disk'.latched = latched /\ disk'.shutoff = shutoff /\ Quiet
        BY <2>4 DEF Reload, Stored
      <3>2. Command = "none" /\ Pressed = {}
        BY <3>1 DEF Quiet, Command, Pressed
      <3>3. Contract!Grounded'
        BY CommandsGrounded, PTL
      <3>4. Contract!Saves
        BY <2>1, <2>2, <3>1, <3>2, <3>3 DEF Contract!Saves, Contract!Memory
      <3> QED
        BY <3>4 DEF Contract!ContractNext
    <2> QED
      BY <1>3, <2>3, <2>4
  <1> QED
    BY <1>2, <1>3

\* KeepsContract: the controller implements StopContract, for any thresholds,
\* dwells, environment, calls and outcomes of commands, with writes that succeed,
\* a hashrate that ends with a power_off and no step on an old poll.
THEOREM ControllerKeepsContract ==
    ASSUME ~SaveFails, ~Linger, ~SlowPolls, StopRetry > 0
    PROVE  ControllerSpec => KeepsContract
  <1>1. Prompt
    BY DEF Prompt
  <1>2. ControllerInit => ContractInv
    <2> SUFFICES ASSUME ControllerInit PROVE ContractInv
      OBVIOUS
    <2>1. ControllerInv
      BY ControllerBegins
    <2>2. StoreInv
      BY DEF ControllerInit, Init, StoreInv
    <2>3. OrphanInv
      BY DEF ControllerInit, Init, OrphanInv, StopOwned, ResetInv, ReadInv, Ours, Reset
    <2>4. CommandInv
      BY DEF ControllerInit, CommandInv
    <2> QED
      BY <2>1, <2>2, <2>3, <2>4 DEF ContractInv
  <1>3. ContractInv /\ [ControllerNext]_allVars => ContractInv'
    <2> SUFFICES ASSUME ContractInv, [ControllerNext]_allVars PROVE ContractInv'
      OBVIOUS
    <2>1. ControllerInv /\ StoreInv /\ OrphanInv /\ CommandInv
      BY DEF ContractInv
    <2>2. ControllerInv' /\ StoreInv' /\ OrphanInv' /\ CommandInv'
      BY <1>1, <2>1, ControllerSteps, StoreSteps, OrphanSteps, CommandSteps
    <2> QED
      BY <2>2 DEF ContractInv
  <1>4. ControllerInit => Contract!ContractInit
    <2> SUFFICES ASSUME ControllerInit PROVE Contract!ContractInit
      OBVIOUS
    <2>1. /\ miner.on \in BOOLEAN /\ offBy = "none" /\ latched = FALSE
          /\ disk.latched = FALSE /\ shutoff.owned = FALSE /\ disk.shutoff.owned = FALSE
          /\ Command = "none" /\ Pressed = {}
      BY DEF ControllerInit, Init, InitialState, Command, Pressed
    <2> QED
      BY <2>1 DEF Contract!ContractInit, Contract!Memory
  <1>5. ContractInv /\ ContractInv' /\ [ControllerNext]_allVars =>
          [Contract!ContractNext]_(Contract!contractVars)
    <2> SUFFICES ASSUME ContractInv, ContractInv', [ControllerNext]_allVars
                 PROVE  Contract!ContractNext \/ Unseen
      BY DEF Unseen
    <2>1. ControllerInv
      BY DEF ContractInv
    <2> QED
      BY <2>1, ContractOthers, ContractDecisions, ContractSaves, ContractCommands,
         ContractCalls, ContractRestarts
         DEF ControllerNext, Runs, StepProceeds, CallProceeds, Disturbs
  <1> QED
    BY <1>2, <1>3, <1>4, <1>5, PTL DEF ControllerSpec, KeepsContract, Contract!ContractSpec

\* The contract is enough for what it is made for: whatever keeps it orphans no
\* stop and sends no power_on under a latch, in memory or in the Store.
THEOREM ContractSuffices ==
    KeepsContract => [](/\ offBy = "shutoff" => shutoff.owned /\ disk.shutoff.owned
                        /\ Command = "start" => ~latched /\ ~disk.latched)
  <1> DEFINE Kept == /\ Contract!Grounded
                     /\ offBy = "shutoff" => shutoff.owned /\ disk.shutoff.owned
                     /\ Command \in {"none", "stop", "start", "lock"}
  <1>1. Contract!ContractInit => Kept
    BY DEF Contract!ContractInit, Contract!Grounded, Contract!Memory
  <1>2. Kept /\ [Contract!ContractNext]_(Contract!contractVars) => Kept'
    <2> SUFFICES ASSUME Kept, [Contract!ContractNext]_(Contract!contractVars) PROVE Kept'
      OBVIOUS
    <2> USE DEF Contract!Grounded, Contract!Memory
    <2>1. CASE Contract!Decides
      BY <2>1 DEF Contract!Decides, Contract!MayChange
    <2>2. CASE Contract!Trips
      BY <2>2 DEF Contract!Trips
    <2>3. CASE Contract!Saves
      BY <2>3 DEF Contract!Saves
    <2>4. CASE Contract!Stops
      BY <2>4 DEF Contract!Stops
    <2>5. CASE Contract!Starts
      BY <2>5 DEF Contract!Starts
    <2>6. CASE Contract!Locks
      BY <2>6 DEF Contract!Locks, Contract!MayChange
    <2>7. CASE Contract!Overrides
      BY <2>7 DEF Contract!Overrides
    <2>8. CASE Contract!Resets
      BY <2>8 DEF Contract!Resets
    <2>9. ASSUME NEW c \in {"on", "off"}, Contract!Presses(c) \/ Contract!Switches(c)
         PROVE  Kept'
      BY <2>9 DEF Contract!Presses, Contract!Switches
    <2>10. CASE Contract!StartsByItself
      BY <2>10 DEF Contract!StartsByItself
    <2>11. CASE Contract!Restarts
      BY <2>11 DEF Contract!Restarts
    <2>12. CASE UNCHANGED Contract!contractVars
      BY <2>12 DEF Contract!contractVars
    <2> QED
      BY <2>1, <2>2, <2>3, <2>4, <2>5, <2>6, <2>7, <2>8, <2>9, <2>10, <2>11, <2>12 DEF Contract!ContractNext
  <1>3. Kept => /\ offBy = "shutoff" => shutoff.owned /\ disk.shutoff.owned
                /\ Command = "start" => ~latched /\ ~disk.latched
    BY DEF Contract!Grounded, Contract!Memory
  <1> QED
    BY <1>1, <1>2, <1>3, PTL DEF KeepsContract, Contract!ContractSpec
=============================================================================
