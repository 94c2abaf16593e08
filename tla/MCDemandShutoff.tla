-------------------------- MODULE MCDemandShutoff --------------------------
(***************************************************************************)
(* Instance of DemandShutoffHistory for TLC.  The inputs are the           *)
(* combinations a poll can tell apart: a stale poll's mining flag is never *)
(* read, a latched poll reads only the freeze status and the supply, the   *)
(* outdoor mean stops nothing unless every thermostat is idle, and         *)
(* user_off only ever withholds a stop that nothing else withholds.        *)
(***************************************************************************)
EXTENDS DemandShutoffHistory

CONSTANTS Warmths, Heats

Means == Warmths \cup {None}
Supplies == Heats \cup {None}

SeenHashing == [is_mining : {TRUE}, fresh : {TRUE}]
Mining == [is_mining : BOOLEAN, fresh : {TRUE}] \cup [is_mining : {TRUE}, fresh : {FALSE}]

Reading(sum, mean, sup, m, l, f, u) ==
    [summary |-> sum, gate_mean |-> mean, supply |-> sup,
     is_mining |-> m.is_mining, fresh |-> m.fresh, latched |-> l,
     freeze |-> f, user_off |-> u]

Hot == SoftCap + 2

\* What a poll does not read in a case is given one value there: the supply while
\* a thermostat calls or the latch holds and nothing freezes.  A risk of freezing
\* is tried while no thermostat calls, where it is all that speaks for heat, and
\* an unknown one with a supply below the soft cap and one close to the latch,
\* without the outdoor mean, which alone could tell that it is warm.
MCInputs ==
    { Reading("all_idle", mean, sup, m, FALSE, "clear", FALSE) :
        mean \in Means, sup \in Supplies, m \in Mining }
    \cup
    { Reading("calling", mean, Hot, m, FALSE, "clear", FALSE) :
        mean \in Warmths, m \in Mining }
    \cup
    { Reading("unknown", mean, sup, m, FALSE, "clear", FALSE) :
        mean \in Warmths, sup \in Supplies, m \in Mining }
    \cup
    { Reading("all_idle", mean, sup, m, FALSE, "active", FALSE) :
        mean \in Warmths, sup \in {None, Hot}, m \in Mining }
    \cup
    { Reading("all_idle", None, sup, m, FALSE, "unknown", FALSE) :
        sup \in {SoftCap - 4, Lockout - 4}, m \in Mining }
    \cup
    { Reading("all_idle", mean, sup, m, FALSE, "unknown", FALSE) :
        mean \in Warmths, sup \in {SoftCap - 4, Lockout - 4}, m \in SeenHashing }
    \cup
    { Reading("all_idle", mean, sup, m, FALSE, "clear", TRUE) :
        mean \in Warmths, sup \in Supplies, m \in SeenHashing }
    \cup
    { Reading("all_idle", None, None, m, TRUE, "clear", FALSE) : m \in Mining }
    \cup
    { Reading("all_idle", None, sup, m, TRUE, "active", FALSE) :
        sup \in {None, Hot}, m \in Mining }
=============================================================================
