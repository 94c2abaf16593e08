------------------------------- MODULE MinerApi -------------------------------
(***************************************************************************)
(* Stopping and starting the miner: WhatsminerAPI._set_mining of           *)
(* coordinator.py, which sends set.miner.service over API v3 and falls     *)
(* back to power_off / power_on over v2, what it remembers between two     *)
(* commands, and the status polls that correct that memory.                *)
(*                                                                         *)
(* A command is under way for each caller: the control step, and the       *)
(* switch once it has left the step lock.  Each request is sent in one     *)
(* action, served by the miner in a second and its reply handled in a      *)
(* third, so that whatever the other caller, a poll or a reboot does comes *)
(* between them.  A command's at is the request it waits for; the reply is *)
(* "none" until the miner has served the request or it has failed.         *)
(*                                                                         *)
(* Left out: v3_fallback and the log, which nothing here reads; the        *)
(* framing and the cryptography, of which a key that fits or does not is   *)
(* what remains; set.miner.power and adjust_power_limit.                   *)
(***************************************************************************)
EXTENDS Naturals, FiniteSets

CONSTANTS
    Callers,      \* who may have a command under way
    Firmwares,    \* what the miner may run: "old" without v3, "new" with it
    Reprobe       \* V3_REPROBE_S, in ticks

ASSUME MinerApiAssumption ==
    /\ Firmwares \subseteq {"old", "new"}
    /\ Reprobe \in Nat \ {0}

VARIABLES
    api,       \* what the WhatsminerAPI object remembers
    commands,  \* each caller's command
    poll,      \* the miner's status as the poll under way has read it
    miner,     \* its firmware, and what keeps it from mining
    known,     \* history: whether a poll has seen the miner as it is
    missed     \* history: ticks since a probe missed

vars == <<api, commands, poll, miner, known, missed>>

NoCommand == [at |-> "idle", on |-> FALSE, must |-> FALSE, reply |-> "none",
              token |-> "none", fits |-> FALSE, alone |-> FALSE, carried |-> FALSE]

NewApi == [v3 |-> "unknown", stopped_via_v3 |-> FALSE, checked |-> Reprobe,
           firmware |-> "unknown", key |-> "none"]

Idle(c) == commands[c].at = "idle"

TypeOK ==
    /\ api \in [v3 : {"unknown", "yes", "no"}, stopped_via_v3 : BOOLEAN, checked : 0..Reprobe,
                firmware : {"unknown"} \cup Firmwares, key : {"none", "good", "stale"}]
    /\ commands \in [Callers ->
          [at : {"idle", "probe", "service", "token", "legacy", "renew", "retry"},
           on : BOOLEAN, must : BOOLEAN, reply : {"none", "ok", "denied", "failed"},
           token : {"none", "good", "stale"}, fits : BOOLEAN, alone : BOOLEAN,
           carried : BOOLEAN]]
    /\ \A c \in Callers : Idle(c) => commands[c] = NoCommand
    /\ poll \in {"none", "mining", "off", "off by whatsminer api"}
    /\ miner \in [firmware : Firmwares, off : {"no", "v2", "service"}]
    /\ known \in {"no", "reading", "yes"} /\ missed \in 0..Reprobe

----------------------------------------------------------------------------
(* The memory of the API object *)

\* note_status, the firmware's date being known by then.
NotesStatus(status) ==
    \/ status = "off by whatsminer api" /\ miner.firmware = "new"
    \/ status # "mining" /\ api.stopped_via_v3

V3Expected == api.firmware = "new"

\* Faulty MustV3: a start does not ask how the miner was stopped.
MustV3Faulty(on) == FALSE

MustV3(on) == on /\ api.stopped_via_v3

\* Faulty ProbedRecently: a miss of the probe is never forgotten.
ProbedRecentlyFaulty == api.v3 = "no"

ProbedRecently == api.v3 = "no" /\ api.checked < Reprobe

\* _use_v3 without its await: the v3 write, the v2 command, or the probe.
Route ==
    IF api.v3 = "yes" \/ api.stopped_via_v3 \/ V3Expected THEN "v3"
    ELSE IF api.firmware = "old" \/ ProbedRecently THEN "v2"
    ELSE "probe"

\* The v2 command goes out with the token in hand, or waits for a new one.
V2Request == IF api.key # "none" THEN "legacy" ELSE "token"

----------------------------------------------------------------------------
(* The command of one caller: what it sends and how it ends *)

\* The command cmd with its next request out, sent with the given token.  What
\* v3 carried out does not count for v2.
Sends(cmd, at, token) ==
    [cmd EXCEPT !.at = at, !.reply = "none", !.token = token, !.fits = token # "none",
                !.carried = @ /\ cmd.at # "service"]

\* The other commands under way can read no reply to what they sent with a
\* key that is gone.
Others(replaced) ==
    [d \in Callers |-> [commands[d] EXCEPT !.fits = commands[d].fits /\ ~replaced]]

\* Caller c sends its next request.
Request(c, at, token) ==
    commands' = [commands EXCEPT ![c] = Sends(commands[c], at, token)]

RequestV2(c) == Request(c, V2Request, IF V2Request = "legacy" THEN api.key ELSE "none")

\* The call returns, or raises.
Ends(c) == commands' = [commands EXCEPT ![c] = NoCommand]

Undisturbed(c) == known = "yes" /\ \A d \in Callers \ {c} : Idle(d)

\* power_on() or power_off() is called.
Call(c, on) ==
    /\ Idle(c)
    /\ api' = [api EXCEPT !.v3 = IF Route = "v2" /\ api.firmware = "old" THEN "no" ELSE api.v3,
                          !.checked = IF Route = "probe" THEN 0 ELSE api.checked]
    /\ LET cmd == [NoCommand EXCEPT !.on = on, !.must = MustV3(on), !.alone = Undisturbed(c)]
           at  == CASE Route = "v3" -> "service" [] Route = "v2" -> V2Request [] OTHER -> "probe"
       IN commands' = [d \in Callers |->
                IF d = c THEN Sends(cmd, at, IF at = "legacy" THEN api.key ELSE "none")
                ELSE [commands[d] EXCEPT !.alone = FALSE]]
    /\ known' = "no"
    /\ UNCHANGED <<poll, miner, missed>>

Waits(c, at, reply) == commands[c].at = at /\ commands[c].reply = reply

ProbeAnswered(c, answered) ==
    /\ Waits(c, "probe", IF answered THEN "ok" ELSE "failed")
    /\ api' = [api EXCEPT !.v3 = IF answered THEN "yes" ELSE "no"]
    /\ IF answered THEN Request(c, "service", "none") ELSE RequestV2(c)
    /\ missed' = IF answered THEN missed ELSE 0
    /\ UNCHANGED <<poll, miner, known>>

ServiceDone(c) ==
    /\ Waits(c, "service", "ok")
    /\ api' = [api EXCEPT !.v3 = "yes", !.stopped_via_v3 = ~commands[c].on]
    /\ Ends(c)
    /\ UNCHANGED <<poll, miner, known, missed>>

\* The v3 write is given up: the v2 command goes out instead.
FallsBack(c) ==
    /\ api' = [api EXCEPT !.v3 = "unknown"]
    /\ RequestV2(c)

ServiceFailed(c) ==
    /\ Waits(c, "service", "failed")
    /\ FallsBack(c)
    /\ UNCHANGED <<poll, miner, known, missed>>

\* _initialize_write_access: every other command loses its key.
TokenArrives(c) ==
    /\ Waits(c, "token", "ok") \/ Waits(c, "renew", "ok")
    /\ api' = [api EXCEPT !.key = commands[c].token]
    /\ commands' = [Others(TRUE) EXCEPT ![c] =
            Sends(commands[c], IF commands[c].at = "token" THEN "legacy" ELSE "retry",
                  commands[c].token)]
    /\ UNCHANGED <<poll, miner, known, missed>>

TokenFails(c) ==
    /\ Waits(c, "token", "failed") \/ Waits(c, "renew", "failed")
    /\ Ends(c)
    /\ UNCHANGED <<api, poll, miner, known, missed>>

\* The reply has to be decrypted with the key of the moment.
LegacyReturns(c) ==
    /\ Waits(c, "legacy", "ok") \/ Waits(c, "retry", "ok")
    /\ commands[c].fits /\ ~commands[c].must
    /\ Ends(c)
    /\ UNCHANGED <<api, poll, miner, known, missed>>

\* The miner refuses the token: a new one, and the command once more.
LegacyDenied(c) ==
    /\ Waits(c, "legacy", "denied")
    /\ api' = [api EXCEPT !.key = "none"]
    /\ commands' = [Others(TRUE) EXCEPT ![c] = Sends(commands[c], "renew", "none")]
    /\ UNCHANGED <<poll, miner, known, missed>>

\* Faulty LegacyRaises: no reply is taken for a refusal and sent again.
LegacyRaisesFaulty(c) ==
    /\ Waits(c, "legacy", "failed")
    /\ Request(c, "renew", "none")
    /\ UNCHANGED <<api, poll, miner, known, missed>>

LegacyRaises(c) ==
    /\ Waits(c, "legacy", "failed") \/ Waits(c, "retry", "failed") \/ Waits(c, "retry", "denied")
       \/ /\ Waits(c, "legacy", "ok") \/ Waits(c, "retry", "ok")
          /\ ~commands[c].fits \/ commands[c].must
    /\ Ends(c)
    /\ UNCHANGED <<api, poll, miner, known, missed>>

Handles(c) ==
    \/ \E answered \in BOOLEAN : ProbeAnswered(c, answered)
    \/ ServiceDone(c) \/ ServiceFailed(c) \/ TokenArrives(c) \/ TokenFails(c)
    \/ LegacyReturns(c) \/ LegacyDenied(c) \/ LegacyRaises(c)

----------------------------------------------------------------------------
(* The miner *)

\* The reply that command cmd waits for comes, or fails; what the request was
\* sent with only matters to a reply that there is.
Gets(cmd, reply) ==
    IF reply = "ok" THEN [cmd EXCEPT !.reply = reply]
    ELSE [cmd EXCEPT !.reply = reply, !.token = "none", !.fits = FALSE]

Replies(c, reply) ==
    /\ commands' = [commands EXCEPT ![c] = Gets(@, reply)]
    /\ UNCHANGED <<api, poll, known, missed>>

\* A request or its reply is lost, or refused for a reason of the miner's own.
Fails(c) ==
    /\ ~Idle(c) /\ commands[c].reply = "none"
    /\ Replies(c, "failed")
    /\ UNCHANGED miner

AnswersProbe(c) ==
    /\ Waits(c, "probe", "none") /\ miner.firmware = "new"
    /\ Replies(c, "ok")
    /\ UNCHANGED miner

\* The miner carries out the v2 or v3 command; its reply may be lost.
Carries(c, off, reply) ==
    /\ miner' = [miner EXCEPT !.off = off]
    /\ commands' = [commands EXCEPT ![c] = [Gets(@, reply) EXCEPT !.carried = TRUE]]
    /\ UNCHANGED <<api, poll, known, missed>>

Serves(c, reply) ==
    /\ Waits(c, "service", "none") /\ miner.firmware = "new"
    /\ Carries(c, IF commands[c].on THEN "no" ELSE "service", reply)

IssuesToken(c) ==
    /\ Waits(c, "token", "none") \/ Waits(c, "renew", "none")
    /\ commands' = [commands EXCEPT ![c].reply = "ok", ![c].token = "good"]
    /\ UNCHANGED <<api, poll, miner, known, missed>>

\* v2 power_on is not known to undo a stop by set.miner.service.
Legacy(c, reply) ==
    /\ Waits(c, "legacy", "none") \/ Waits(c, "retry", "none")
    /\ commands[c].token = "good"
    /\ Carries(c, IF miner.off = "service" THEN "service"
                  ELSE IF commands[c].on THEN "no" ELSE "v2", reply)

DeniesToken(c) ==
    /\ Waits(c, "legacy", "none") \/ Waits(c, "retry", "none")
    /\ commands[c].token = "stale"
    /\ Replies(c, "denied")
    /\ UNCHANGED miner

Miner(c) ==
    \/ Fails(c) \/ AnswersProbe(c) \/ IssuesToken(c) \/ DeniesToken(c)
    \/ \E reply \in {"ok", "failed"} : Serves(c, reply) \/ Legacy(c, reply)

\* A stop or a start behind the integration's back: the miner's own web UI, or
\* a v2 stop that does not hold.
ChangesItself(off) ==
    /\ off # miner.off /\ (off = "service" => miner.firmware = "new")
    /\ miner' = [miner EXCEPT !.off = off]
    /\ commands' = [c \in Callers |-> [commands[c] EXCEPT !.alone = FALSE]]
    /\ known' = "no"
    /\ UNCHANGED <<api, poll, missed>>

\* btminer restarts: the tokens it gave out are void.
Reboots ==
    /\ api' = [api EXCEPT !.key = IF @ = "good" THEN "stale" ELSE @]
    /\ commands' = [c \in Callers |->
            [commands[c] EXCEPT !.token = IF @ = "good" THEN "stale" ELSE @]]
    /\ UNCHANGED <<poll, miner, known, missed>>

----------------------------------------------------------------------------
(* Polls, time, restarts *)

PollReads ==
    /\ poll = "none"
    /\ poll' = CASE miner.off = "no" -> "mining"
                 [] miner.off = "v2" -> "off"
                 [] OTHER            -> "off by whatsminer api"
    /\ known' = IF \A c \in Callers : Idle(c) THEN "reading" ELSE "no"
    /\ UNCHANGED <<api, commands, miner, missed>>

\* The rest of the poll is in: the firmware's date and the status are noted.
PollApplies ==
    /\ poll # "none" /\ poll' = "none"
    /\ api' = [api EXCEPT !.firmware = miner.firmware, !.stopped_via_v3 = NotesStatus(poll)]
    /\ known' = IF known = "reading" THEN "yes" ELSE known
    /\ UNCHANGED <<commands, miner, missed>>

\* 30 minutes after it was issued.
TokenAges ==
    /\ api.key # "none"
    /\ api' = [api EXCEPT !.key = "none"]
    /\ UNCHANGED <<commands, poll, miner, known, missed>>

Tick ==
    /\ api.checked < Reprobe \/ missed < Reprobe
    /\ api' = [api EXCEPT !.checked = IF @ < Reprobe THEN @ + 1 ELSE @]
    /\ missed' = IF missed < Reprobe THEN missed + 1 ELSE missed
    /\ UNCHANGED <<commands, poll, miner, known>>

\* The config entry is loaded anew: the API object is a new one.
Restart ==
    /\ api' = NewApi
    /\ commands' = [c \in Callers |-> NoCommand]
    /\ poll' = "none" /\ known' = "no"
    /\ UNCHANGED <<miner, missed>>

Init ==
    /\ api = NewApi
    /\ commands = [c \in Callers |-> NoCommand]
    /\ poll = "none" /\ known = "no" /\ missed = Reprobe
    /\ miner \in [firmware : Firmwares, off : {"no"}]

Next ==
    \/ \E c \in Callers : Handles(c) \/ Miner(c) \/ \E on \in BOOLEAN : Call(c, on)
    \/ \E off \in {"no", "v2", "service"} : ChangesItself(off)
    \/ PollReads \/ PollApplies \/ TokenAges \/ Tick \/ Reboots \/ Restart

Spec == Init /\ [][Next]_vars

----------------------------------------------------------------------------
(* Properties *)

Returns(c) == ServiceDone(c) \/ LegacyReturns(c)

\* A start that returns has started the miner, v2 power_on included, when the
\* last poll saw the miner as it was and nothing but this call came between:
\* "v2 power_on is not known to undo set.miner.service stop".
NoFalseStart ==
    [][\A c \in Callers : Returns(c) /\ commands[c].on /\ commands[c].alone
                            => miner.off = "no"]_vars

\* Over either API a call has the miner carry out its command at most once:
\* what was carried out is never waited for again, however its reply was lost
\* and whoever replaced the token meanwhile (power_on and adjust_power_limit
\* restart btminer).
CarriedOnce ==
    TypeOK /\ \A c \in Callers : commands[c].carried => commands[c].reply # "none"

\* A command skips v3 only on firmware dated before it, while another command's
\* probe is out, or within Reprobe of a probe that missed: a miss never pins
\* stops to the v2 power_off that does not hold.
NotPinned ==
    [][\A c \in Callers : Idle(c) /\ commands'[c].at \in {"token", "legacy"}
          => \/ miner.firmware = "old" \/ missed < Reprobe
             \/ \E d \in Callers : commands[d].at = "probe"]_vars
=============================================================================
