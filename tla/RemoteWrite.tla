----------------------------- MODULE RemoteWrite -----------------------------
(***************************************************************************)
(* What the rest of the integration relies on when it has the miner carry  *)
(* something out over API v3: a call has it carried out at most once; it   *)
(* returns only when it was; it fails with a code of the miner only when   *)
(* it was not; and when it fails without one nobody knows, because it may  *)
(* have been carried out, or may still be, after the call has ended.       *)
(***************************************************************************)
EXTENDS Naturals

CONSTANT Callers

VARIABLES
    asked,    \* whether a call is under way
    carried,  \* how often the miner has carried out what a call under way asks
    last,     \* how the last call to end has ended
    strays    \* callers that gave up while their request was still on its way

writeVars == <<asked, carried, last, strays>>

WriteInit ==
    /\ asked = [c \in Callers |-> FALSE]
    /\ carried = [c \in Callers |-> 0]
    /\ last = "none"
    /\ strays = {}

Ask(c) ==
    /\ ~asked[c]
    /\ asked' = [asked EXCEPT ![c] = TRUE]
    /\ UNCHANGED <<carried, last, strays>>

CarryOut(c) ==
    /\ asked[c] /\ carried[c] = 0
    /\ carried' = [carried EXCEPT ![c] = 1]
    /\ UNCHANGED <<asked, last, strays>>

Ends(c, how) ==
    /\ asked[c]
    /\ asked' = [asked EXCEPT ![c] = FALSE]
    /\ carried' = [carried EXCEPT ![c] = 0]
    /\ last' = how

Confirm(c) == carried[c] = 1 /\ Ends(c, "done") /\ UNCHANGED strays

Refuse(c) == carried[c] = 0 /\ Ends(c, "refused") /\ UNCHANGED strays

GiveUp(c) == Ends(c, "unknown") /\ UNCHANGED strays

\* The request outlives its call.
GiveUpEarly(c) ==
    /\ carried[c] = 0 /\ c \notin strays
    /\ Ends(c, "unknown")
    /\ strays' = strays \cup {c}

StrayEnds(c) ==
    /\ c \in strays
    /\ strays' = strays \ {c}
    /\ UNCHANGED <<asked, carried, last>>

WriteStep(c) ==
    Ask(c) \/ CarryOut(c) \/ Confirm(c) \/ Refuse(c) \/ GiveUp(c) \/ GiveUpEarly(c) \/ StrayEnds(c)

WriteNext == \E c \in Callers : WriteStep(c)

WriteSpec == WriteInit /\ [][WriteNext]_writeVars
=============================================================================
