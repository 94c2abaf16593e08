--------------------------- MODULE FirmwareService ---------------------------
(***************************************************************************)
(* The update_firmware service of __init__.py for one config entry, over   *)
(* the v3 client, next to the writes of the control step and the switch.   *)
(* An updater is one call of the service: it waits for the executor that   *)
(* reads the file, then for the upload.  The entry may be unloaded and     *)
(* loaded meanwhile: the locks are kept beside the entries' data, not in   *)
(* it.                                                                     *)
(*                                                                         *)
(* The coordinator has no attribute v3, so that in the program as it is    *)
(* every call of the service ends before it takes the lock: ClientFound is *)
(* FALSE.  TRUE shows what the handler does once it finds the client.      *)
(***************************************************************************)
EXTENDS V3Client

CONSTANT ClientFound    \* whether the coordinator has an attribute v3

ASSUME ServiceAssumption == ClientFound \in BOOLEAN

VARIABLES
    reading,  \* the calls that wait for the executor
    refused,  \* history: whether a call has ended for want of the client
    locked,   \* the entry's lock
    loaded    \* whether the entry's data is in hass.data

serviceVars == <<reading, refused, locked, loaded>>
allVars == <<v3Vars, serviceVars>>

TypeOK ==
    /\ V3TypeOK
    /\ reading \subseteq {u \in Updaters : Idle(u)}
    /\ {refused, locked, loaded} \subseteq BOOLEAN

----------------------------------------------------------------------------

\* The checks before the lock, with no await between its test and its
\* acquisition.
ServiceCalled(u) ==
    /\ Idle(u) /\ u \notin reading /\ loaded
    /\ IF ClientFound
       THEN ~locked /\ locked' = TRUE /\ reading' = reading \cup {u} /\ UNCHANGED refused
       ELSE refused' = TRUE /\ UNCHANGED <<reading, locked>>
    /\ UNCHANGED <<v3Vars, loaded>>

FileRefused(u) ==
    /\ u \in reading
    /\ reading' = reading \ {u}
    /\ locked' = FALSE
    /\ UNCHANGED <<v3Vars, refused, loaded>>

\* The bundle is read and its structure is right.
FileRead(u) ==
    /\ u \in reading
    /\ reading' = reading \ {u}
    /\ Call(u)
    /\ UNCHANGED <<refused, locked, loaded>>

\* The handler goes on, and leaves the lock, in the step in which the client
\* returns or raises.
Leaves(c) ==
    /\ locked' = (locked /\ ~(c \in Updaters /\ calls'[c].at = "idle"))
    /\ UNCHANGED <<reading, refused, loaded>>

\* Faulty Reloads: the lock goes with the data of the entry.
ReloadsFaulty ==
    /\ loaded' = ~loaded
    /\ locked' = FALSE
    /\ UNCHANGED <<v3Vars, reading, refused>>

\* async_unload_entry, or async_setup_entry.
Reloads ==
    /\ loaded' = ~loaded
    /\ UNCHANGED <<v3Vars, reading, refused, locked>>

Under(A) == A /\ UNCHANGED serviceVars

Proceeds(c) == Handles(c) /\ Leaves(c)

ServiceInit ==
    /\ V3Init
    /\ reading = {} /\ refused = FALSE
    /\ locked = FALSE /\ loaded = TRUE

ServiceNext ==
    \/ \E w \in Writers : Under(Call(w))
    \/ \E u \in Updaters : ServiceCalled(u) \/ FileRefused(u) \/ FileRead(u)
    \/ \E c \in Callers : Proceeds(c) \/ Under(Network(c))
    \/ Under(Closes)
    \/ Reloads

\* Every await but the drain of the upload has a timeout.
Fairness ==
    \A c \in Callers : WF_allVars(Proceeds(c)) /\ WF_allVars(Under(Loses(c)))

ServiceSpec == ServiceInit /\ [][ServiceNext]_allVars /\ Fairness

----------------------------------------------------------------------------
(* Properties *)

\* "One update per miner at a time": the lock is held for as long as a bundle is
\* on its way, though the entry is unloaded and loaded meanwhile.
UploadHoldsLock == TypeOK /\ \A u \in Updaters : ~Idle(u) => locked

\* A call of the client ends, however often the write API is closed again, but
\* for an upload the miner stops reading.
CallsEnd == \A c \in Callers : ~Idle(c) ~> (Idle(c) \/ calls[c].at = "stream")
=============================================================================
