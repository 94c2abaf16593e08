---------------------------- MODULE MinerApiProofs ----------------------------
(***************************************************************************)
(* Proofs about stopping and starting the miner, for any number of callers *)
(* with a command under way, either firmware and any V3_REPROBE_S: a call  *)
(* has its command carried out once, however tokens are replaced under it; *)
(* a start that nobody disturbed has started the miner when it returns;    *)
(* and a probe that missed does not pin the commands to v2.                *)
(***************************************************************************)
EXTENDS MinerApi, TLAPS

CommandType ==
    [at : {"idle", "probe", "service", "token", "legacy", "renew", "retry"},
     on : BOOLEAN, must : BOOLEAN, reply : {"none", "ok", "denied", "failed"},
     token : {"none", "good", "stale"}, fits : BOOLEAN, alone : BOOLEAN,
     carried : BOOLEAN]

\* The miner carries out a write, and then its reply says nothing or that it did.
CarriedInv ==
    \A c \in Callers : commands[c].carried =>
        /\ commands[c].at \in {"service", "legacy", "retry"}
        /\ commands[c].reply \in {"ok", "failed"}

\* A date the API object knows is the firmware's, and only firmware with v3 is
\* stopped by its service.
FirmwareInv ==
    /\ api.firmware \in {"unknown", miner.firmware}
    /\ miner.off = "service" => miner.firmware = "new"

\* Where v3 is held to be missing, a probe is out or has missed no earlier than
\* the object's own clock says, unless the firmware is dated before v3.
ProbeInv ==
    api.v3 = "no" => \/ miner.firmware = "old" \/ missed <= api.checked
                     \/ \E d \in Callers : commands[d].at = "probe"

\* While a poll's view of the miner holds, no command is under way, and the
\* object knows of a stop that v2 does not undo.
KnownInv ==
    /\ known # "no" => \A c \in Callers : Idle(c)
    /\ known = "reading" /\ miner.off = "service" => poll = "off by whatsminer api"
    /\ known = "yes" => poll = "none" /\ (miner.off = "service" => api.stopped_via_v3)

\* A start nobody disturbs is the only command under way; unless it must go over
\* v3 the miner is not stopped by its service; and once it is confirmed the
\* miner is not stopped.
StartInv ==
    \A c \in Callers : commands[c].alone =>
        /\ \A d \in Callers \ {c} : Idle(d)
        /\ commands[c].on /\ ~commands[c].must => miner.off # "service"
        /\ commands[c].on /\ commands[c].reply = "ok" =>
              /\ commands[c].at = "service" => miner.off = "no"
              /\ commands[c].at \in {"legacy", "retry"} /\ ~commands[c].must => miner.off = "no"

ApiInv == TypeOK /\ CarriedInv /\ FirmwareInv /\ ProbeInv /\ KnownInv /\ StartInv

----------------------------------------------------------------------------
(* What a step makes of the commands under way *)

Typed ==
    /\ commands' \in [Callers -> CommandType]
    /\ \A d \in Callers : Idle(d)' => commands'[d] = NoCommand

\* All that is left of command d is its token, and whether its key fits.
Kept(d) ==
    /\ commands'[d].at = commands[d].at /\ commands'[d].reply = commands[d].reply
    /\ commands'[d].on = commands[d].on /\ commands'[d].must = commands[d].must
    /\ commands'[d].alone = commands[d].alone /\ commands'[d].carried = commands[d].carried

OthersKept(c) == Typed /\ \A d \in Callers \ {c} : Kept(d)

Ended(c) == OthersKept(c) /\ commands'[c] = NoCommand

Sent(c, at) ==
    /\ OthersKept(c)
    /\ commands'[c].at = at /\ commands'[c].reply = "none"
    /\ commands'[c].on = commands[c].on /\ commands'[c].must = commands[c].must
    /\ commands'[c].alone = commands[c].alone
    /\ commands'[c].carried => commands[c].carried /\ commands[c].at # "service"

Got(c, reply, carried) ==
    /\ OthersKept(c)
    /\ commands'[c].at = commands[c].at /\ commands'[c].reply = reply
    /\ commands'[c].on = commands[c].on /\ commands'[c].must = commands[c].must
    /\ commands'[c].alone = commands[c].alone
    /\ commands'[c].carried <=> carried \/ commands[c].carried

Ats == {"probe", "service", "token", "legacy", "renew", "retry"}
Tokens == {"none", "good", "stale"}

\* The next request of a command is one of its kinds, and asks for the same.
LEMMA NextRequest ==
    ASSUME NEW cmd \in CommandType, NEW at \in Ats, NEW token \in Tokens
    PROVE  /\ Sends(cmd, at, token) \in CommandType
           /\ Sends(cmd, at, token).at = at /\ Sends(cmd, at, token).reply = "none"
           /\ Sends(cmd, at, token).on = cmd.on /\ Sends(cmd, at, token).must = cmd.must
           /\ Sends(cmd, at, token).alone = cmd.alone
           /\ Sends(cmd, at, token).carried = (cmd.carried /\ cmd.at # "service")
  BY ZenonT(60) DEF Sends, CommandType, Ats, Tokens

\* A reply is noted, and nothing else but what only matters to a reply.
LEMMA NextReply ==
    ASSUME NEW cmd \in CommandType, NEW reply \in {"ok", "denied", "failed"}
    PROVE  /\ Gets(cmd, reply) \in CommandType
           /\ Gets(cmd, reply).at = cmd.at /\ Gets(cmd, reply).reply = reply
           /\ Gets(cmd, reply).on = cmd.on /\ Gets(cmd, reply).must = cmd.must
           /\ Gets(cmd, reply).alone = cmd.alone /\ Gets(cmd, reply).carried = cmd.carried
  BY DEF Gets, CommandType

KeyLost(cmd) == [cmd EXCEPT !.fits = FALSE]

\* When a token is replaced the other commands lose their key, and no more.
LEMMA KeysLost ==
    ASSUME TypeOK, NEW new \in CommandType, NEW c \in Callers, new.at # "idle",
           commands' = [Others(TRUE) EXCEPT ![c] = new]
    PROVE  OthersKept(c) /\ commands'[c] = new
  <1>1. /\ commands \in [Callers -> CommandType]
        /\ \A d \in Callers : commands[d].at = "idle" => commands[d] = NoCommand
    BY DEF TypeOK, CommandType, Idle
  <1>2. \A cmd \in CommandType :
           /\ KeyLost(cmd) \in CommandType
           /\ KeyLost(cmd).at = cmd.at /\ KeyLost(cmd).reply = cmd.reply
           /\ KeyLost(cmd).on = cmd.on /\ KeyLost(cmd).must = cmd.must
           /\ KeyLost(cmd).alone = cmd.alone /\ KeyLost(cmd).carried = cmd.carried
    BY DEF CommandType, KeyLost
  <1>3. KeyLost(NoCommand) = NoCommand
    <2>1. /\ NoCommand \in CommandType /\ NoCommand.fits = FALSE
      BY DEF NoCommand, CommandType
    <2>2. \A cmd \in CommandType : cmd.fits = FALSE => KeyLost(cmd) = cmd
      BY DEF CommandType, KeyLost
    <2> QED
      BY <2>1, <2>2
  <1>4. Others(TRUE) = [d \in Callers |-> KeyLost(commands[d])]
    BY <1>1 DEF Others, KeyLost, CommandType
  <1>5. commands' = [[d \in Callers |-> KeyLost(commands[d])] EXCEPT ![c] = new]
    BY <1>4
  <1>6. /\ commands' \in [Callers -> CommandType] /\ commands'[c] = new
        /\ \A d \in Callers \ {c} : commands'[d] = KeyLost(commands[d])
    BY ZenonT(60), <1>1, <1>2, <1>5
  <1> HIDE DEF KeyLost
  <1>7. ASSUME NEW d \in Callers \ {c}
        PROVE  Kept(d) /\ (Idle(d)' => commands'[d] = NoCommand)
    <2>1. commands[d] \in CommandType /\ commands'[d] = KeyLost(commands[d])
      BY <1>1, <1>6
    <2>2. Kept(d)
      BY <1>2, <2>1 DEF Kept
    <2> QED
      BY <1>1, <1>3, <2>1, <2>2 DEF Kept, Idle
  <1>8. ~Idle(c)'
    BY <1>6 DEF Idle
  <1> QED
    BY <1>6, <1>7, <1>8 DEF OthersKept, Typed

\* A step of one command's leaves the others alone.
LEMMA OneChanges ==
    ASSUME TypeOK, NEW c \in Callers, NEW new \in CommandType,
           new.at = "idle" => new = NoCommand,
           commands' = [commands EXCEPT ![c] = new]
    PROVE  OthersKept(c) /\ commands'[c] = new
  <1>1. /\ commands \in [Callers -> CommandType]
        /\ \A d \in Callers : commands[d].at = "idle" => commands[d] = NoCommand
    BY DEF TypeOK, CommandType, Idle
  <1>2. /\ commands' \in [Callers -> CommandType] /\ commands'[c] = new
        /\ \A d \in Callers \ {c} : commands'[d] = commands[d]
    BY <1>1
  <1> QED
    BY <1>1, <1>2 DEF OthersKept, Typed, Kept, Idle

\* A request goes out.
LEMMA Requested ==
    ASSUME TypeOK, NEW c \in Callers, NEW at \in Ats, NEW token \in Tokens,
           Request(c, at, token)
    PROVE  Sent(c, at)
  <1>1. commands[c] \in CommandType
    BY DEF TypeOK, CommandType
  <1> DEFINE new == Sends(commands[c], at, token)
  <1>2. /\ new \in CommandType /\ new.at = at /\ new.reply = "none"
        /\ new.on = commands[c].on /\ new.must = commands[c].must
        /\ new.alone = commands[c].alone
        /\ new.carried = (commands[c].carried /\ commands[c].at # "service")
    BY <1>1, NextRequest
  <1>3. commands' = [commands EXCEPT ![c] = new]
    BY DEF Request
  <1> HIDE DEF new
  <1>4. OthersKept(c) /\ commands'[c] = new
    BY <1>2, <1>3, OneChanges DEF Ats
  <1> QED
    BY <1>2, <1>4 DEF Sent

\* A v2 request goes out, with the token in hand or for a new one.
LEMMA RequestedV2 ==
    ASSUME TypeOK, NEW c \in Callers, RequestV2(c)
    PROVE  Sent(c, "legacy") \/ Sent(c, "token")
  <1>1. api.key \in Tokens
    BY DEF TypeOK, Tokens
  <1>2. CASE api.key # "none"
    BY <1>1, <1>2, Requested DEF RequestV2, V2Request, Ats
  <1>3. CASE api.key = "none"
    BY <1>3, Requested DEF RequestV2, V2Request, Ats, Tokens
  <1> QED
    BY <1>2, <1>3

\* A call ends.
LEMMA CallEnds ==
    ASSUME TypeOK, NEW c \in Callers, Ends(c)
    PROVE  Ended(c)
  <1>1. NoCommand \in CommandType
    BY DEF NoCommand, CommandType
  <1> QED
    BY <1>1, OneChanges DEF Ends, Ended

\* A reply comes, or fails to.
LEMMA Replied ==
    ASSUME TypeOK, NEW c \in Callers, ~Idle(c), NEW reply \in {"ok", "denied", "failed"},
           Replies(c, reply)
    PROVE  Got(c, reply, FALSE)
  <1>1. commands[c] \in CommandType
    BY DEF TypeOK, CommandType
  <1> DEFINE new == Gets(commands[c], reply)
  <1>2. /\ new \in CommandType /\ new.at = commands[c].at /\ new.reply = reply
        /\ new.on = commands[c].on /\ new.must = commands[c].must
        /\ new.alone = commands[c].alone /\ new.carried = commands[c].carried
    BY <1>1, NextReply
  <1>3. commands' = [commands EXCEPT ![c] = new]
    BY <1>1 DEF Replies, TypeOK
  <1> HIDE DEF new
  <1>4. OthersKept(c) /\ commands'[c] = new
    BY <1>2, <1>3, OneChanges DEF Idle
  <1> QED
    BY <1>2, <1>4 DEF Got

\* A command is carried out, and its reply comes or is lost.
LEMMA CarriedOut ==
    ASSUME TypeOK, NEW c \in Callers, ~Idle(c), NEW reply \in {"ok", "failed"}, NEW off,
           Carries(c, off, reply)
    PROVE  Got(c, reply, TRUE)
  <1>1. commands[c] \in CommandType
    BY DEF TypeOK, CommandType
  <1> DEFINE got == Gets(commands[c], reply)  new == [got EXCEPT !.carried = TRUE]
  <1>2. /\ got \in CommandType /\ got.at = commands[c].at /\ got.reply = reply
        /\ got.on = commands[c].on /\ got.must = commands[c].must
        /\ got.alone = commands[c].alone
    BY <1>1, NextReply
  <1>3. commands' = [commands EXCEPT ![c] = new]
    BY <1>1 DEF Carries, TypeOK
  <1> HIDE DEF got
  <1>4. /\ new \in CommandType /\ new.at = got.at /\ new.reply = got.reply
        /\ new.on = got.on /\ new.must = got.must
        /\ new.alone = got.alone /\ new.carried = TRUE
    BY <1>2 DEF CommandType
  <1> HIDE DEF new
  <1>5. OthersKept(c) /\ commands'[c] = new
    BY <1>2, <1>3, <1>4, OneChanges DEF Idle
  <1> QED
    BY <1>2, <1>4, <1>5 DEF Got

----------------------------------------------------------------------------
(* What each kind of step keeps of the invariant *)

\* A call that ends leaves nothing behind, whatever the others do.
LEMMA EndingKeeps ==
    ASSUME ApiInv, NEW c \in Callers, Ended(c), UNCHANGED miner
    PROVE  CarriedInv' /\ StartInv'
  <1>1. /\ Idle(c)' /\ commands'[c].carried = FALSE /\ commands'[c].alone = FALSE
        /\ \A d \in Callers \ {c} : Kept(d)
    BY DEF Ended, OthersKept, NoCommand, Idle
  <1>2. CarriedInv'
    BY <1>1 DEF ApiInv, CarriedInv, Kept
  <1>3. StartInv'
    BY <1>1 DEF ApiInv, StartInv, Kept, Idle
  <1> QED
    BY <1>2, <1>3

\* A command that goes on was not carried out, unless it goes on over v2.
LEMMA SendingKeeps ==
    ASSUME ApiInv, NEW c \in Callers, NEW at \in Ats, Sent(c, at), UNCHANGED miner,
           ~Idle(c), commands[c].carried => commands[c].at = "service"
    PROVE  CarriedInv' /\ StartInv'
  <1>1. /\ commands'[c].reply = "none" /\ ~commands'[c].carried
        /\ commands'[c].on = commands[c].on /\ commands'[c].must = commands[c].must
        /\ commands'[c].alone = commands[c].alone
        /\ \A d \in Callers \ {c} : Kept(d)
    BY DEF Sent, OthersKept
  <1>2. CarriedInv'
    BY <1>1 DEF ApiInv, CarriedInv, Kept
  <1>3. StartInv'
    BY <1>1 DEF ApiInv, StartInv, Kept, Idle
  <1> QED
    BY <1>2, <1>3

\* A reply that says nothing of the miner is not taken for one that does.
LEMMA ReplyKeeps ==
    ASSUME ApiInv, NEW c \in Callers, NEW reply \in {"ok", "denied", "failed"},
           Got(c, reply, FALSE), UNCHANGED miner, ~Idle(c), commands[c].reply = "none",
           reply = "ok" => commands[c].at \in {"probe", "token", "renew"}
    PROVE  CarriedInv' /\ StartInv'
  <1>1. /\ commands'[c].reply = reply /\ commands'[c].at = commands[c].at
        /\ commands'[c].on = commands[c].on /\ commands'[c].must = commands[c].must
        /\ commands'[c].alone = commands[c].alone
        /\ commands'[c].carried => commands[c].carried
        /\ \A d \in Callers \ {c} : Kept(d)
    BY DEF Got, OthersKept
  <1>2. ~commands[c].carried
    BY DEF ApiInv, CarriedInv
  <1>3. CarriedInv'
    BY <1>1, <1>2 DEF ApiInv, CarriedInv, Kept
  <1>4. StartInv'
    BY <1>1 DEF ApiInv, StartInv, Kept, Idle
  <1> QED
    BY <1>3, <1>4

\* A command carried out while it is alone leaves the miner as it asks, if it
\* must not go over v3 or does; while it is not, it says nothing to a start.
LEMMA CarryingKeeps ==
    ASSUME ApiInv, NEW c \in Callers, NEW reply \in {"ok", "failed"}, Got(c, reply, TRUE),
           commands[c].at \in {"service", "legacy", "retry"}, ~Idle(c),
           NEW off \in {"no", "v2", "service"}, miner' = [miner EXCEPT !.off = off],
           commands[c].on =>
              off = IF commands[c].at # "service" /\ miner.off = "service" THEN "service" ELSE "no"
    PROVE  CarriedInv' /\ StartInv'
  <1>1. /\ commands'[c].reply = reply /\ commands'[c].at = commands[c].at
        /\ commands'[c].on = commands[c].on /\ commands'[c].must = commands[c].must
        /\ commands'[c].alone = commands[c].alone
        /\ \A d \in Callers \ {c} : Kept(d)
    BY DEF Got, OthersKept
  <1>2. miner'.off = off
    BY DEF ApiInv, TypeOK
  <1>3. CarriedInv'
    BY <1>1 DEF ApiInv, CarriedInv, Kept
  <1>4. \A d \in Callers \ {c} : ~commands'[d].alone
    BY <1>1 DEF ApiInv, StartInv, Kept
  <1>5. StartInv'
    BY <1>1, <1>2, <1>4 DEF ApiInv, StartInv, Kept, Idle
  <1> QED
    BY <1>3, <1>5

\* Only the answer to a probe ends what the probe still says.
LEMMA ProbeKeeps ==
    ASSUME ApiInv, NEW c \in Callers, OthersKept(c),
           commands[c].at # "probe" \/ commands'[c].at = "probe",
           UNCHANGED missed, miner'.firmware = miner.firmware,
           api'.v3 = "no" => api.v3 = "no", api'.checked = api.checked
    PROVE  ProbeInv'
  <1> SUFFICES ASSUME api'.v3 = "no", ~(miner'.firmware = "old" \/ missed' <= api'.checked)
               PROVE  \E d \in Callers : commands'[d].at = "probe"
    BY DEF ProbeInv
  <1>1. PICK d \in Callers : commands[d].at = "probe"
    BY DEF ApiInv, ProbeInv
  <1> QED
    BY <1>1 DEF OthersKept, Kept

ApiType ==
    [v3 : {"unknown", "yes", "no"}, stopped_via_v3 : BOOLEAN, checked : 0..Reprobe,
     firmware : {"unknown"} \cup Firmwares, key : {"none", "good", "stale"}]
MinerType == [firmware : Firmwares, off : {"no", "v2", "service"}]

\* The parts of the type invariant.
LEMMA TypesFrom ==
    ASSUME Typed, api' \in ApiType, miner' \in MinerType,
           poll' \in {"none", "mining", "off", "off by whatsminer api"},
           known' \in {"no", "reading", "yes"}, missed' \in 0..Reprobe
    PROVE  TypeOK'
  BY DEF Typed, CommandType, ApiType, MinerType, TypeOK

----------------------------------------------------------------------------
(* Every step keeps the invariant *)

\* What a caller makes of a reply.
LEMMA HandlingKeeps ==
    ASSUME ApiInv, NEW c \in Callers, Handles(c)
    PROVE  ApiInv'
  <1>0. /\ TypeOK /\ CarriedInv /\ FirmwareInv /\ ProbeInv
        /\ api \in ApiType /\ miner \in MinerType /\ missed \in 0..Reprobe
        /\ commands[c] \in CommandType
    BY DEF ApiInv, TypeOK, ApiType, MinerType, CommandType
  <1>1. ~Idle(c) /\ UNCHANGED <<poll, miner, known>> /\ known = "no"
    <2>1. ~Idle(c) /\ UNCHANGED <<poll, miner, known>>
      BY DEF Handles, Waits, Idle, ProbeAnswered, ServiceDone, ServiceFailed, TokenArrives,
             TokenFails, LegacyReturns, LegacyDenied, LegacyRaises
    <2> QED
      BY <2>1 DEF ApiInv, KnownInv
  <1>2. ASSUME Typed, api' \in ApiType, missed' \in 0..Reprobe,
               api'.firmware = api.firmware, CarriedInv', StartInv', ProbeInv'
        PROVE  ApiInv'
    BY <1>0, <1>1, <1>2, TypesFrom DEF ApiInv, TypeOK, FirmwareInv, KnownInv, MinerType
  <1>3. ASSUME NEW answered \in BOOLEAN, ProbeAnswered(c, answered)
        PROVE  ApiInv'
    <2>1. ~commands[c].carried /\ commands[c].at = "probe"
      BY <1>0, <1>3 DEF ProbeAnswered, Waits, CarriedInv
    <2>2. /\ api' \in ApiType /\ api'.firmware = api.firmware /\ api'.checked = api.checked
          /\ api'.v3 = IF answered THEN "yes" ELSE "no"
      BY <1>0, <1>3 DEF ProbeAnswered, ApiType
    <2>3. CASE answered
      <3>1. Sent(c, "service")
        BY <1>0, <1>3, <2>3, Requested DEF ProbeAnswered, Ats, Tokens
      <3>2. CarriedInv' /\ StartInv'
        BY <1>1, <2>1, <3>1, SendingKeeps DEF Ats
      <3> QED
        BY <1>0, <1>2, <1>3, <2>2, <2>3, <3>1, <3>2 DEF ProbeAnswered, ProbeInv, Sent, OthersKept
    <2>4. CASE ~answered
      <3>1. Sent(c, "legacy") \/ Sent(c, "token")
        BY <1>0, <1>3, <2>4, RequestedV2 DEF ProbeAnswered
      <3>2. CarriedInv' /\ StartInv'
        BY <1>1, <2>1, <3>1, SendingKeeps DEF Ats
      <3>3. missed' = 0 /\ missed' \in 0..Reprobe
        BY <1>3, <2>4, MinerApiAssumption DEF ProbeAnswered
      <3>4. ProbeInv'
        BY <2>2, <3>3 DEF ProbeInv, ApiType
      <3> QED
        BY <1>2, <2>2, <3>1, <3>2, <3>3, <3>4 DEF Sent, OthersKept
    <2> QED
      BY <2>3, <2>4
  <1>4. CASE ServiceDone(c)
    <2>1. /\ api' \in ApiType /\ api'.firmware = api.firmware /\ api'.v3 = "yes"
      BY <1>0, <1>4 DEF ServiceDone, ApiType, CommandType
    <2>2. Ended(c)
      BY <1>0, <1>4, CallEnds DEF ServiceDone
    <2> QED
      BY <1>0, <1>1, <1>2, <1>4, <2>1, <2>2, EndingKeeps
         DEF ServiceDone, ProbeInv, Ended, OthersKept
  <1>5. CASE ServiceFailed(c)
    <2>1. /\ api' \in ApiType /\ api'.firmware = api.firmware /\ api'.v3 = "unknown"
      BY <1>0, <1>5 DEF ServiceFailed, FallsBack, ApiType
    <2>2. Sent(c, "legacy") \/ Sent(c, "token")
      BY <1>0, <1>5, RequestedV2 DEF ServiceFailed, FallsBack
    <2>3. CarriedInv' /\ StartInv'
      BY <1>1, <1>5, <2>2, SendingKeeps DEF ServiceFailed, Waits, Ats
    <2> QED
      BY <1>0, <1>2, <1>5, <2>1, <2>2, <2>3 DEF ServiceFailed, ProbeInv, Sent, OthersKept
  <1>6. CASE TokenArrives(c)
    <2>1. commands[c].at \in {"token", "renew"} /\ ~commands[c].carried
      BY <1>0, <1>6 DEF TokenArrives, Waits, CarriedInv
    <2>2. /\ api' \in ApiType /\ api'.firmware = api.firmware /\ api'.v3 = api.v3
          /\ api'.checked = api.checked
      BY <1>0, <1>6 DEF TokenArrives, ApiType, CommandType
    <2> DEFINE at == IF commands[c].at = "token" THEN "legacy" ELSE "retry"
               new == Sends(commands[c], at, commands[c].token)
    <2>3. at \in {"legacy", "retry"} /\ at \in Ats /\ commands[c].token \in Tokens
      BY <1>0 DEF Ats, Tokens, CommandType
    <2>4. commands' = [Others(TRUE) EXCEPT ![c] = new]
      BY <1>6 DEF TokenArrives
    <2> HIDE DEF at
    <2>5. /\ new \in CommandType /\ new.at = at /\ new.reply = "none"
          /\ new.on = commands[c].on /\ new.must = commands[c].must
          /\ new.alone = commands[c].alone
          /\ new.carried = (commands[c].carried /\ commands[c].at # "service")
      BY <1>0, <2>3, NextRequest
    <2> HIDE DEF new
    <2>6. OthersKept(c) /\ commands'[c] = new
      BY <1>0, <2>3, <2>4, <2>5, KeysLost
    <2>7. Sent(c, at)
      BY <2>1, <2>5, <2>6 DEF Sent
    <2>8. CarriedInv' /\ StartInv'
      BY <1>1, <2>1, <2>3, <2>7, SendingKeeps
    <2>9. ProbeInv'
      BY <1>1, <1>6, <2>1, <2>2, <2>6, ProbeKeeps DEF TokenArrives
    <2> QED
      BY <1>0, <1>2, <1>6, <2>2, <2>6, <2>8, <2>9 DEF TokenArrives, OthersKept
  <1>7. CASE LegacyDenied(c)
    <2>1. commands[c].at = "legacy" /\ ~commands[c].carried
      BY <1>0, <1>7 DEF LegacyDenied, Waits, CarriedInv
    <2>2. /\ api' \in ApiType /\ api'.firmware = api.firmware /\ api'.v3 = api.v3
          /\ api'.checked = api.checked
      BY <1>0, <1>7 DEF LegacyDenied, ApiType
    <2> DEFINE new == Sends(commands[c], "renew", "none")
    <2>4. commands' = [Others(TRUE) EXCEPT ![c] = new]
      BY <1>7 DEF LegacyDenied
    <2>5. /\ new \in CommandType /\ new.at = "renew" /\ new.reply = "none"
          /\ new.on = commands[c].on /\ new.must = commands[c].must
          /\ new.alone = commands[c].alone
          /\ new.carried = (commands[c].carried /\ commands[c].at # "service")
      BY <1>0, NextRequest DEF Ats, Tokens
    <2> HIDE DEF new
    <2>6. OthersKept(c) /\ commands'[c] = new
      BY <1>0, <2>4, <2>5, KeysLost
    <2>7. Sent(c, "renew")
      BY <2>1, <2>5, <2>6 DEF Sent
    <2>8. CarriedInv' /\ StartInv'
      BY <1>1, <2>1, <2>7, SendingKeeps DEF Ats
    <2>9. ProbeInv'
      BY <1>1, <1>7, <2>1, <2>2, <2>6, ProbeKeeps DEF LegacyDenied
    <2> QED
      BY <1>0, <1>2, <1>7, <2>2, <2>6, <2>8, <2>9 DEF LegacyDenied, OthersKept
  <1>8. CASE TokenFails(c) \/ LegacyReturns(c) \/ LegacyRaises(c)
    <2>1. /\ UNCHANGED <<api, missed>> /\ Ends(c)
          /\ commands[c].at \in {"token", "renew", "legacy", "retry"}
      BY <1>8 DEF TokenFails, LegacyReturns, LegacyRaises, Waits
    <2>2. Ended(c)
      BY <1>0, <2>1, CallEnds
    <2>3. CarriedInv' /\ StartInv'
      BY <1>1, <2>2, EndingKeeps
    <2>4. ProbeInv'
      BY <1>1, <2>1, <2>2, ProbeKeeps DEF Ended
    <2> QED
      BY <1>0, <1>2, <2>1, <2>2, <2>3, <2>4 DEF Ended, OthersKept
  <1> QED
    BY <1>3, <1>4, <1>5, <1>6, <1>7, <1>8 DEF Handles

\* What the miner makes of a request, or the network of it or of its reply.
LEMMA MinerKeeps ==
    ASSUME ApiInv, NEW c \in Callers, Miner(c)
    PROVE  ApiInv'
  <1>0. /\ TypeOK /\ CarriedInv /\ FirmwareInv /\ ProbeInv
        /\ api \in ApiType /\ miner \in MinerType /\ missed \in 0..Reprobe
        /\ commands[c] \in CommandType
    BY DEF ApiInv, TypeOK, ApiType, MinerType, CommandType
  <1>1. /\ ~Idle(c) /\ UNCHANGED <<api, poll, known, missed>> /\ known = "no"
        /\ commands[c].reply = "none"
    <2>1. /\ ~Idle(c) /\ UNCHANGED <<api, poll, known, missed>> /\ commands[c].reply = "none"
      BY DEF Miner, Waits, Idle, Fails, AnswersProbe, IssuesToken, DeniesToken, Serves, Legacy,
             Carries, Replies
    <2> QED
      BY <2>1 DEF ApiInv, KnownInv
  <1>2. ASSUME OthersKept(c), commands'[c].at = commands[c].at, miner' \in MinerType,
               miner'.firmware = miner.firmware,
               miner'.off = "service" => miner.firmware = "new", CarriedInv', StartInv'
        PROVE  ApiInv'
    <2>1. ProbeInv'
      BY <1>1, <1>2, ProbeKeeps
    <2> QED
      BY <1>0, <1>1, <1>2, <2>1, TypesFrom DEF ApiInv, TypeOK, FirmwareInv, KnownInv, OthersKept
  <1>3. ASSUME NEW reply \in {"ok", "denied", "failed"}, UNCHANGED miner, Replies(c, reply),
               reply = "ok" => commands[c].at = "probe"
        PROVE  ApiInv'
    <2>1. Got(c, reply, FALSE)
      BY <1>0, <1>1, <1>3, Replied
    <2>2. CarriedInv' /\ StartInv'
      BY <1>1, <1>3, <2>1, ReplyKeeps
    <2> QED
      BY <1>0, <1>2, <1>3, <2>1, <2>2 DEF Got, FirmwareInv
  <1>4. CASE Fails(c) \/ AnswersProbe(c) \/ DeniesToken(c)
    BY <1>3, <1>4 DEF Fails, AnswersProbe, DeniesToken, Waits
  <1>5. CASE IssuesToken(c)
    <2> DEFINE new == [commands[c] EXCEPT !.reply = "ok", !.token = "good"]
    <2>1. commands' = [commands EXCEPT ![c] = new] /\ UNCHANGED miner
      BY <1>5 DEF IssuesToken
    <2>2. /\ new \in CommandType /\ new.at = commands[c].at /\ new.reply = "ok"
          /\ new.on = commands[c].on /\ new.must = commands[c].must
          /\ new.alone = commands[c].alone /\ new.carried = commands[c].carried
      BY <1>0 DEF CommandType
    <2> HIDE DEF new
    <2>3. OthersKept(c) /\ commands'[c] = new
      BY <1>0, <1>1, <2>1, <2>2, OneChanges DEF Idle
    <2>4. Got(c, "ok", FALSE)
      BY <2>2, <2>3 DEF Got
    <2>5. CarriedInv' /\ StartInv'
      BY <1>1, <1>5, <2>1, <2>4, ReplyKeeps DEF IssuesToken, Waits
    <2> QED
      BY <1>0, <1>2, <2>1, <2>2, <2>3, <2>5 DEF FirmwareInv
  <1>6. ASSUME NEW reply \in {"ok", "failed"}, NEW off \in {"no", "v2", "service"},
               Carries(c, off, reply), commands[c].at \in {"service", "legacy", "retry"},
               off = "service" => miner.firmware = "new",
               commands[c].on => off = IF commands[c].at # "service" /\ miner.off = "service"
                                       THEN "service" ELSE "no"
        PROVE  ApiInv'
    <2>1. Got(c, reply, TRUE)
      BY <1>0, <1>1, <1>6, CarriedOut
    <2>2. miner' = [miner EXCEPT !.off = off]
      BY <1>6 DEF Carries
    <2>3. miner' \in MinerType /\ miner'.firmware = miner.firmware /\ miner'.off = off
      BY <1>0, <2>2 DEF MinerType
    <2>4. CarriedInv' /\ StartInv'
      BY <1>1, <1>6, <2>1, <2>2, CarryingKeeps
    <2> QED
      BY <1>2, <1>6, <2>1, <2>3, <2>4 DEF Got
  <1>7. ASSUME NEW reply \in {"ok", "failed"}, Serves(c, reply)
        PROVE  ApiInv'
    BY <1>6, <1>7 DEF Serves, Waits
  <1>8. ASSUME NEW reply \in {"ok", "failed"}, Legacy(c, reply)
        PROVE  ApiInv'
    BY <1>0, <1>6, <1>8 DEF Legacy, Waits, FirmwareInv
  <1> QED
    BY <1>4, <1>5, <1>7, <1>8 DEF Miner

\* A call begins: nothing it has asked for has been carried out, and a start
\* that nobody disturbs goes over v3 if v2 would not do.
LEMMA CallingKeeps ==
    ASSUME ApiInv, NEW c \in Callers, NEW on \in BOOLEAN, Call(c, on)
    PROVE  /\ ApiInv' /\ Idle(c)
           /\ commands'[c].at \in {"token", "legacy"} =>
                 \/ miner.firmware = "old" \/ missed < Reprobe
                 \/ \E d \in Callers : commands[d].at = "probe"
  <1>0. /\ TypeOK /\ CarriedInv /\ FirmwareInv /\ ProbeInv
        /\ api \in ApiType /\ miner \in MinerType /\ missed \in 0..Reprobe
        /\ commands \in [Callers -> CommandType]
        /\ Idle(c) /\ UNCHANGED <<poll, miner, missed>> /\ known' = "no"
        /\ \A d \in Callers : Idle(d) => commands[d] = NoCommand
    BY DEF ApiInv, TypeOK, ApiType, MinerType, CommandType, Call
  <1> DEFINE cmd == [NoCommand EXCEPT !.on = on, !.must = MustV3(on), !.alone = Undisturbed(c)]
             at  == CASE Route = "v3" -> "service" [] Route = "v2" -> V2Request [] OTHER -> "probe"
             token == IF at = "legacy" THEN api.key ELSE "none"
             Left(d) == [commands[d] EXCEPT !.alone = FALSE]
             new == Sends(cmd, at, token)
  <1>1. at \in Ats /\ token \in Tokens
    BY <1>0 DEF Ats, Tokens, Route, V2Request, ApiType
  <1>2. /\ cmd \in CommandType /\ cmd.on = on /\ cmd.must = MustV3(on)
        /\ cmd.alone = Undisturbed(c) /\ cmd.carried = FALSE
    <2>1. MustV3(on) \in BOOLEAN /\ Undisturbed(c) \in BOOLEAN
      BY <1>0 DEF MustV3, Undisturbed, ApiType
    <2> QED
      BY <2>1 DEF NoCommand, CommandType
  <1>3. \A d \in Callers :
           /\ Left(d) \in CommandType
           /\ Left(d).at = commands[d].at /\ Left(d).carried = commands[d].carried
           /\ Left(d).reply = commands[d].reply /\ Left(d).alone = FALSE
           /\ Idle(d) => Left(d) = NoCommand
    <2>1. [NoCommand EXCEPT !.alone = FALSE] = NoCommand
      <3>1. NoCommand \in CommandType /\ NoCommand.alone = FALSE
        BY DEF NoCommand, CommandType
      <3>2. \A k \in CommandType : k.alone = FALSE => [k EXCEPT !.alone = FALSE] = k
        BY DEF CommandType
      <3> QED
        BY <3>1, <3>2
    <2>2. \A k \in CommandType :
             /\ [k EXCEPT !.alone = FALSE] \in CommandType
             /\ [k EXCEPT !.alone = FALSE].at = k.at
             /\ [k EXCEPT !.alone = FALSE].carried = k.carried
             /\ [k EXCEPT !.alone = FALSE].reply = k.reply
             /\ [k EXCEPT !.alone = FALSE].alone = FALSE
      BY DEF CommandType
    <2> QED
      BY <1>0, <2>1, <2>2
  <1>4. commands' = [d \in Callers |-> IF d = c THEN new ELSE Left(d)]
    BY DEF Call
  <1> HIDE DEF cmd, token, Left
  <1>5. /\ new \in CommandType /\ new.at = at /\ new.reply = "none"
        /\ new.on = on /\ new.must = MustV3(on)
        /\ new.alone = Undisturbed(c) /\ new.carried = FALSE
    <2> HIDE DEF at
    <2> QED
      BY <1>1, <1>2, NextRequest
  <1> HIDE DEF new
  <1>6. /\ commands'[c] = new /\ \A d \in Callers \ {c} : commands'[d] = Left(d)
        /\ commands' \in [Callers -> CommandType]
    BY <1>3, <1>4, <1>5
  <1>7. Typed
    <2> HIDE DEF at
    <2> QED
      BY <1>1, <1>3, <1>5, <1>6 DEF Typed, Idle, Ats
  <1>8. /\ api' \in ApiType /\ api'.firmware = api.firmware
        /\ api'.v3 = IF Route = "v2" /\ api.firmware = "old" THEN "no" ELSE api.v3
        /\ api'.checked = IF Route = "probe" THEN 0 ELSE api.checked
    <2> DEFINE v3 == IF Route = "v2" /\ api.firmware = "old" THEN "no" ELSE api.v3
               checked == IF Route = "probe" THEN 0 ELSE api.checked
    <2>1. v3 \in {"unknown", "yes", "no"} /\ checked \in 0..Reprobe
      BY <1>0, MinerApiAssumption DEF ApiType
    <2>2. api' = [api EXCEPT !.v3 = v3, !.checked = checked]
      BY DEF Call
    <2> HIDE DEF v3, checked
    <2>3. api' \in ApiType /\ api'.firmware = api.firmware /\ api'.v3 = v3 /\ api'.checked = checked
      BY <1>0, <2>1, <2>2 DEF ApiType
    <2> QED
      BY <2>3 DEF v3, checked
  <1>9. CarriedInv'
    BY <1>0, <1>3, <1>5, <1>6 DEF CarriedInv
  <1>10. StartInv'
    <2>1. \A d \in Callers : commands'[d].alone => d = c /\ Undisturbed(c)
      BY <1>3, <1>5, <1>6
    <2>2. Undisturbed(c) => /\ \A d \in Callers \ {c} : Idle(d)'
                            /\ miner.off = "service" => api.stopped_via_v3
      BY <1>3, <1>6 DEF Undisturbed, ApiInv, KnownInv, Idle
    <2> QED
      BY <1>0, <1>5, <1>6, <2>1, <2>2 DEF StartInv, MustV3
  <1>11. ProbeInv'
    <2>1. CASE Route = "probe"
      BY <1>5, <1>6, <2>1 DEF ProbeInv
    <2>2. CASE Route = "v2" /\ api.firmware = "old"
      BY <1>0, <2>2 DEF ProbeInv, FirmwareInv
    <2>3. CASE Route # "probe" /\ ~(Route = "v2" /\ api.firmware = "old")
      <3>1. \A d \in Callers : commands[d].at = "probe" => commands'[d].at = "probe"
        BY <1>0, <1>3, <1>6 DEF Idle
      <3> QED
        BY <1>0, <1>8, <2>3, <3>1 DEF ProbeInv
    <2> QED
      BY <2>1, <2>2, <2>3
  <1>12. ApiInv'
    BY <1>0, <1>7, <1>8, <1>9, <1>10, <1>11, TypesFrom
       DEF ApiInv, TypeOK, FirmwareInv, KnownInv
  <1>13. commands'[c].at \in {"token", "legacy"} =>
            \/ miner.firmware = "old" \/ missed < Reprobe
            \/ \E d \in Callers : commands[d].at = "probe"
    <2> SUFFICES ASSUME at \in {"token", "legacy"}, miner.firmware # "old"
                 PROVE  missed < Reprobe \/ \E d \in Callers : commands[d].at = "probe"
      BY <1>5, <1>6
    <2>1. Route = "v2" /\ api.firmware # "old"
      BY <1>0 DEF Route, FirmwareInv
    <2>2. api.v3 = "no" /\ api.checked < Reprobe
      BY <2>1 DEF Route, ProbedRecently
    <2> QED
      BY <1>0, <2>2, MinerApiAssumption DEF ProbeInv, ApiType
  <1> QED
    BY <1>0, <1>12, <1>13

\* What neither a caller nor the miner does on its behalf.
LEMMA BesideKeeps ==
    ASSUME ApiInv,
           \/ \E off \in {"no", "v2", "service"} : ChangesItself(off)
           \/ PollReads \/ PollApplies \/ TokenAges \/ Tick \/ Reboots \/ Restart
           \/ UNCHANGED vars
    PROVE  ApiInv' /\ \A c \in Callers : commands'[c].at \in {commands[c].at, "idle"}
  <1>0. /\ TypeOK /\ CarriedInv /\ FirmwareInv /\ ProbeInv /\ KnownInv /\ StartInv
        /\ api \in ApiType /\ miner \in MinerType /\ missed \in 0..Reprobe
        /\ commands \in [Callers -> CommandType]
        /\ poll \in {"none", "mining", "off", "off by whatsminer api"}
        /\ known \in {"no", "reading", "yes"}
        /\ \A d \in Callers : Idle(d) => commands[d] = NoCommand
    BY DEF ApiInv, TypeOK, ApiType, MinerType, CommandType
  <1>n. NoCommand \in CommandType /\ NoCommand.alone = FALSE /\ NoCommand.token = "none"
    BY DEF NoCommand, CommandType
  <1>1. ASSUME NEW off \in {"no", "v2", "service"}, ChangesItself(off)
        PROVE  ApiInv' /\ \A c \in Callers : commands'[c].at \in {commands[c].at, "idle"}
    <2> DEFINE Left(d) == [commands[d] EXCEPT !.alone = FALSE]
    <2>1. \A k \in CommandType :
             /\ [k EXCEPT !.alone = FALSE] \in CommandType
             /\ [k EXCEPT !.alone = FALSE].at = k.at
             /\ [k EXCEPT !.alone = FALSE].carried = k.carried
             /\ [k EXCEPT !.alone = FALSE].reply = k.reply
             /\ [k EXCEPT !.alone = FALSE].alone = FALSE
             /\ k.alone = FALSE => [k EXCEPT !.alone = FALSE] = k
      BY DEF CommandType
    <2>2. \A d \in Callers :
             /\ Left(d) \in CommandType
             /\ Left(d).at = commands[d].at /\ Left(d).carried = commands[d].carried
             /\ Left(d).reply = commands[d].reply /\ Left(d).alone = FALSE
             /\ Idle(d) => Left(d) = NoCommand
      BY <1>0, <1>n, <2>1
    <2>3. /\ commands' = [d \in Callers |-> Left(d)] /\ known' = "no"
          /\ miner' = [miner EXCEPT !.off = off] /\ UNCHANGED <<api, poll, missed>>
          /\ off = "service" => miner.firmware = "new"
      BY <1>1 DEF ChangesItself
    <2> HIDE DEF Left
    <2>4. Typed
      BY <2>2, <2>3 DEF Typed, Idle
    <2>5. miner' \in MinerType /\ miner'.firmware = miner.firmware /\ miner'.off = off
      BY <1>0, <2>3 DEF MinerType
    <2>6. CarriedInv' /\ StartInv'
      BY <1>0, <2>2, <2>3 DEF CarriedInv, StartInv
    <2>7. ProbeInv'
      BY <1>0, <2>2, <2>3, <2>5 DEF ProbeInv
    <2>8. FirmwareInv' /\ KnownInv'
      BY <1>0, <2>3, <2>5 DEF FirmwareInv, KnownInv
    <2>9. TypeOK'
      BY <1>0, <2>3, <2>4, <2>5, TypesFrom
    <2> QED
      BY <2>2, <2>3, <2>6, <2>7, <2>8, <2>9 DEF ApiInv
  <1>2. CASE PollReads
    <2>1. /\ UNCHANGED <<api, commands, miner, missed>>
          /\ poll' \in {"mining", "off", "off by whatsminer api"}
          /\ miner.off = "service" => poll' = "off by whatsminer api"
          /\ known' \in {"no", "reading"} /\ (known' # "no" => \A c \in Callers : Idle(c))
      BY <1>2 DEF PollReads
    <2>2. TypeOK'
      BY <1>0, <2>1 DEF TypeOK, Idle
    <2>3. CarriedInv' /\ StartInv' /\ ProbeInv' /\ FirmwareInv' /\ KnownInv'
      BY <1>0, <2>1 DEF CarriedInv, StartInv, ProbeInv, FirmwareInv, KnownInv, Idle
    <2> QED
      BY <2>1, <2>2, <2>3 DEF ApiInv
  <1>3. CASE PollApplies
    <2>1. /\ UNCHANGED <<commands, miner, missed>> /\ poll # "none" /\ poll' = "none"
          /\ api' = [api EXCEPT !.firmware = miner.firmware, !.stopped_via_v3 = NotesStatus(poll)]
          /\ known' = IF known = "reading" THEN "yes" ELSE known
      BY <1>3 DEF PollApplies
    <2>2. NotesStatus(poll) \in BOOLEAN
      BY <1>0 DEF NotesStatus, ApiType
    <2>3. /\ api' \in ApiType /\ api'.v3 = api.v3 /\ api'.checked = api.checked
          /\ api'.firmware = miner.firmware /\ api'.stopped_via_v3 = NotesStatus(poll)
      BY <1>0, <2>1, <2>2 DEF ApiType, MinerType
    <2>4. known' = "yes" => /\ \A c \in Callers : Idle(c)
                            /\ miner.off = "service" => api'.stopped_via_v3
      BY <1>0, <2>1, <2>3 DEF KnownInv, FirmwareInv, NotesStatus
    <2>5. Typed
      BY <1>0, <2>1 DEF Typed, Idle
    <2>6. TypeOK'
      BY <1>0, <2>1, <2>3, <2>5, TypesFrom
    <2>7. CarriedInv' /\ StartInv' /\ ProbeInv' /\ FirmwareInv' /\ KnownInv'
      BY <1>0, <2>1, <2>3, <2>4 DEF CarriedInv, StartInv, ProbeInv, FirmwareInv, KnownInv, Idle
    <2> QED
      BY <2>1, <2>6, <2>7 DEF ApiInv
  <1>4. CASE TokenAges
    <2>1. UNCHANGED <<commands, poll, miner, known, missed>> /\ api' = [api EXCEPT !.key = "none"]
      BY <1>4 DEF TokenAges
    <2>2. /\ api' \in ApiType /\ api'.v3 = api.v3 /\ api'.checked = api.checked
          /\ api'.firmware = api.firmware /\ api'.stopped_via_v3 = api.stopped_via_v3
      BY <1>0, <2>1 DEF ApiType
    <2>3. Typed
      BY <1>0, <2>1 DEF Typed, Idle
    <2>4. TypeOK'
      BY <1>0, <2>1, <2>2, <2>3, TypesFrom
    <2>5. CarriedInv' /\ StartInv' /\ ProbeInv' /\ FirmwareInv' /\ KnownInv'
      BY <1>0, <2>1, <2>2 DEF CarriedInv, StartInv, ProbeInv, FirmwareInv, KnownInv, Idle
    <2> QED
      BY <2>1, <2>4, <2>5 DEF ApiInv
  <1>5. CASE Tick
    <2> DEFINE checked == IF api.checked < Reprobe THEN api.checked + 1 ELSE api.checked
    <2>1. /\ UNCHANGED <<commands, poll, miner, known>>
          /\ api' = [api EXCEPT !.checked = checked]
          /\ missed' = IF missed < Reprobe THEN missed + 1 ELSE missed
      BY <1>5 DEF Tick
    <2>2. /\ checked \in 0..Reprobe /\ missed' \in 0..Reprobe
          /\ missed <= api.checked => missed' <= checked
      <3>1. api.checked \in 0..Reprobe /\ missed \in 0..Reprobe /\ Reprobe \in Nat
        BY <1>0, MinerApiAssumption DEF ApiType
      <3> QED
        BY <2>1, <3>1
    <2> HIDE DEF checked
    <2>3. /\ api' \in ApiType /\ api'.v3 = api.v3 /\ api'.checked = checked
          /\ api'.firmware = api.firmware /\ api'.stopped_via_v3 = api.stopped_via_v3
      BY <1>0, <2>1, <2>2 DEF ApiType
    <2>4. Typed
      BY <1>0, <2>1 DEF Typed, Idle
    <2>5. TypeOK'
      BY <1>0, <2>1, <2>2, <2>3, <2>4, TypesFrom
    <2>6. CarriedInv' /\ StartInv' /\ ProbeInv' /\ FirmwareInv' /\ KnownInv'
      BY <1>0, <2>1, <2>2, <2>3 DEF CarriedInv, StartInv, ProbeInv, FirmwareInv, KnownInv, Idle
    <2> QED
      BY <2>1, <2>5, <2>6 DEF ApiInv
  <1>6. CASE Reboots
    <2> DEFINE Voided(k) == [k EXCEPT !.token = IF @ = "good" THEN "stale" ELSE @]
               key == IF api.key = "good" THEN "stale" ELSE api.key
    <2>1. /\ UNCHANGED <<poll, miner, known, missed>>
          /\ api' = [api EXCEPT !.key = key]
          /\ commands' = [d \in Callers |-> Voided(commands[d])]
      BY <1>6 DEF Reboots
    <2>2. \A k \in CommandType :
             /\ Voided(k) \in CommandType
             /\ Voided(k).at = k.at /\ Voided(k).carried = k.carried
             /\ Voided(k).reply = k.reply /\ Voided(k).alone = k.alone
             /\ Voided(k).on = k.on /\ Voided(k).must = k.must
             /\ k.token = "none" => Voided(k) = k
      BY DEF CommandType
    <2>3. key \in {"none", "good", "stale"}
      BY <1>0 DEF ApiType
    <2> HIDE DEF Voided, key
    <2>4. /\ api' \in ApiType /\ api'.v3 = api.v3 /\ api'.checked = api.checked
          /\ api'.firmware = api.firmware /\ api'.stopped_via_v3 = api.stopped_via_v3
      BY <1>0, <2>1, <2>3 DEF ApiType
    <2>5. \A d \in Callers : commands'[d] = Voided(commands[d]) /\ Kept(d)
      BY <1>0, <2>1, <2>2 DEF Kept
    <2>6. Typed
      <3>1. commands' \in [Callers -> CommandType]
        BY <1>0, <2>1, <2>2
      <3>2. \A d \in Callers : Idle(d)' => Idle(d)
        BY <2>5 DEF Kept, Idle
      <3>3. Voided(NoCommand) = NoCommand
        BY <1>n, <2>2
      <3> QED
        BY <1>0, <2>5, <3>1, <3>2, <3>3 DEF Typed
    <2>7. TypeOK'
      BY <1>0, <2>1, <2>4, <2>6, TypesFrom
    <2>8. CarriedInv' /\ StartInv'
      <3>1. CarriedInv'
        BY <1>0, <2>5 DEF CarriedInv, Kept
      <3>2. UNCHANGED miner /\ StartInv
        BY <1>0, <2>1
      <3>3. StartInv'
        BY <2>5, <3>2 DEF StartInv, Idle, Kept
      <3> QED
        BY <3>1, <3>3
    <2>9. ProbeInv' /\ FirmwareInv' /\ KnownInv'
      BY <1>0, <2>1, <2>4, <2>5 DEF ProbeInv, FirmwareInv, KnownInv, Idle, Kept
    <2> QED
      BY <2>5, <2>7, <2>8, <2>9 DEF ApiInv, Kept
  <1>7. CASE Restart
    <2>1. /\ api' = NewApi /\ \A d \in Callers : commands'[d] = NoCommand
          /\ commands' \in [Callers -> CommandType]
          /\ poll' = "none" /\ known' = "no" /\ UNCHANGED <<miner, missed>>
      BY <1>7, <1>n DEF Restart
    <2>2. api' \in ApiType /\ api'.v3 = "unknown" /\ api'.firmware = "unknown"
      BY <2>1, MinerApiAssumption DEF NewApi, ApiType
    <2>3. \A d \in Callers : commands'[d].at = "idle" /\ ~commands'[d].alone /\ ~commands'[d].carried
      BY <2>1 DEF NoCommand
    <2>4. TypeOK'
      BY <1>0, <2>1, <2>2, TypesFrom DEF Typed
    <2>5. CarriedInv' /\ StartInv' /\ ProbeInv' /\ FirmwareInv' /\ KnownInv'
      BY <1>0, <2>1, <2>2, <2>3 DEF CarriedInv, StartInv, ProbeInv, FirmwareInv, KnownInv
    <2> QED
      BY <2>3, <2>4, <2>5 DEF ApiInv
  <1>8. CASE UNCHANGED vars
    <2>1. TypeOK'
      BY <1>0, <1>8 DEF TypeOK, Idle, vars
    <2>2. CarriedInv' /\ StartInv' /\ ProbeInv' /\ FirmwareInv' /\ KnownInv'
      BY <1>0, <1>8 DEF CarriedInv, StartInv, ProbeInv, FirmwareInv, KnownInv, Idle, vars
    <2> QED
      BY <1>8, <2>1, <2>2 DEF ApiInv, vars
  <1> QED
    BY <1>1, <1>2, <1>3, <1>4, <1>5, <1>6, <1>7, <1>8

\* A fresh object knows nothing, and nobody has called.
LEMMA ApiBegins == Init => ApiInv
  <1> SUFFICES ASSUME Init PROVE ApiInv
    OBVIOUS
  <1>1. /\ api = NewApi /\ \A c \in Callers : commands[c] = NoCommand
        /\ commands = [c \in Callers |-> NoCommand]
        /\ poll = "none" /\ known = "no" /\ missed = Reprobe
        /\ miner \in MinerType /\ miner.off = "no"
    BY DEF Init, MinerType
  <1>2. /\ NoCommand \in CommandType /\ NoCommand.at = "idle"
        /\ ~NoCommand.alone /\ ~NoCommand.carried
    BY DEF NoCommand, CommandType
  <1>3. api \in ApiType /\ api.v3 = "unknown" /\ api.firmware = "unknown"
    BY <1>1, MinerApiAssumption DEF NewApi, ApiType
  <1>4. missed \in 0..Reprobe
    BY <1>1, MinerApiAssumption
  <1>5. TypeOK
    BY <1>1, <1>2, <1>3, <1>4 DEF TypeOK, CommandType, ApiType, MinerType
  <1>6. CarriedInv /\ StartInv /\ ProbeInv /\ FirmwareInv /\ KnownInv
    BY <1>1, <1>2, <1>3 DEF CarriedInv, StartInv, ProbeInv, FirmwareInv, KnownInv
  <1> QED
    BY <1>5, <1>6 DEF ApiInv

\* No step disturbs the invariant.
LEMMA ApiSteps == ApiInv /\ [Next]_vars => ApiInv'
  <1> SUFFICES ASSUME ApiInv, [Next]_vars PROVE ApiInv'
    OBVIOUS
  <1>1. ASSUME NEW c \in Callers, Handles(c) \/ Miner(c) \/ \E on \in BOOLEAN : Call(c, on)
        PROVE  ApiInv'
    BY <1>1, HandlingKeeps, MinerKeeps, CallingKeeps
  <1> QED
    BY <1>1, BesideKeeps DEF Next

\* The invariant holds throughout.
LEMMA ApiInductive == Spec => []ApiInv
  BY ApiBegins, ApiSteps, PTL DEF Spec

\* What a command is at once it has been called is not where an idle one goes.
LEMMA OnlyCallsStart ==
    ASSUME ApiInv, NEW c \in Callers, Idle(c), ~Idle(c)', [Next]_vars
    PROVE  \E on \in BOOLEAN : Call(c, on)
  <1>1. ASSUME NEW d \in Callers, Handles(d)
        PROVE  FALSE
    <2>1. ~Idle(d)
      BY <1>1 DEF Handles, Waits, Idle, ProbeAnswered, ServiceDone, ServiceFailed, TokenArrives,
                  TokenFails, LegacyReturns, LegacyDenied, LegacyRaises
    <2>2. \A e \in Callers : e # d => commands'[e].at = commands[e].at
      <3>1. TypeOK
        BY DEF ApiInv
      <3>2. CASE TokenArrives(d) \/ LegacyDenied(d)
        <4>1. DOMAIN commands = Callers
          BY <3>1 DEF TypeOK
        <4>2. PICK s : commands' = [Others(TRUE) EXCEPT ![d] = s]
          BY <3>2 DEF TokenArrives, LegacyDenied
        <4>3. ASSUME NEW e \in Callers, e # d
              PROVE  commands'[e] = [commands[e] EXCEPT !.fits = commands[e].fits /\ ~TRUE]
          BY <4>2, <4>3 DEF Others
        <4>4. ASSUME NEW e \in Callers
              PROVE  [commands[e] EXCEPT !.fits = commands[e].fits /\ ~TRUE].at = commands[e].at
          BY <3>1 DEF TypeOK
        <4> QED
          BY <4>3, <4>4
      <3>3. CASE ~(TokenArrives(d) \/ LegacyDenied(d))
        BY <1>1, <3>1, <3>3 DEF Handles, ProbeAnswered, ServiceDone, ServiceFailed, FallsBack,
             TokenFails, LegacyReturns, LegacyRaises, Ends, RequestV2, Request, TypeOK
      <3> QED
        BY <3>2, <3>3
    <2> QED
      BY <2>1, <2>2 DEF Idle
  <1>2. ASSUME NEW d \in Callers, Miner(d)
        PROVE  FALSE
    <2>1. ~Idle(d)
      BY <1>2 DEF Miner, Waits, Idle, Fails, AnswersProbe, IssuesToken, DeniesToken, Serves, Legacy
    <2>2. \A e \in Callers : e # d => commands'[e] = commands[e]
      BY <1>2 DEF Miner, Fails, AnswersProbe, IssuesToken, DeniesToken, Serves, Legacy, Carries,
                  Replies, ApiInv, TypeOK
    <2> QED
      BY <2>1, <2>2 DEF Idle
  <1>3. ASSUME NEW d \in Callers, NEW on \in BOOLEAN, Call(d, on), d # c
        PROVE  FALSE
    <2>1. commands'[c].at = commands[c].at
      BY ZenonT(60), <1>3 DEF Call, ApiInv, TypeOK
    <2> QED
      BY <2>1 DEF Idle
  <1> QED
    BY <1>1, <1>2, <1>3, BesideKeeps DEF Next, Idle

----------------------------------------------------------------------------
(* The theorems *)

\* However the replies are lost and whoever replaces the token meanwhile, what
\* _set_mining and _v3_write ask of the miner is carried out once for a call, by
\* each of the two APIs it goes over.
THEOREM CarriesOnce == Spec => []CarriedOnce
  <1>1. ApiInv => CarriedOnce
    BY DEF ApiInv, CarriedInv, CarriedOnce
  <1> QED
    BY <1>1, ApiInductive, PTL

\* A miss of the probe lets commands skip v3 for V3_REPROBE_S and no longer.
THEOREM MissForgotten == Spec => NotPinned
  <1>1. ASSUME ApiInv, [Next]_vars, NEW c \in Callers, Idle(c),
               commands'[c].at \in {"token", "legacy"}
        PROVE  \/ miner.firmware = "old" \/ missed < Reprobe
               \/ \E d \in Callers : commands[d].at = "probe"
    <2>1. PICK on \in BOOLEAN : Call(c, on)
      BY <1>1, OnlyCallsStart DEF Idle
    <2> QED
      BY <1>1, <2>1, CallingKeeps
  <1>2. ApiInv /\ [Next]_vars =>
           [\A c \in Callers : Idle(c) /\ commands'[c].at \in {"token", "legacy"}
               => \/ miner.firmware = "old" \/ missed < Reprobe
                  \/ \E d \in Callers : commands[d].at = "probe"]_vars
    BY <1>1
  <1> QED
    BY <1>2, ApiInductive, PTL DEF Spec, NotPinned

\* A start that nobody disturbed, since the poll that last saw the miner, has
\* started it when it returns, over whichever API it went.
THEOREM StartsTruly == Spec => NoFalseStart
  <1>1. ASSUME ApiInv, NEW c \in Callers, Returns(c), commands[c].on, commands[c].alone
        PROVE  miner.off = "no"
    <2>1. CASE ServiceDone(c)
      BY <1>1, <2>1 DEF ServiceDone, Waits, ApiInv, StartInv
    <2>2. CASE LegacyReturns(c)
      BY <1>1, <2>2 DEF LegacyReturns, Waits, ApiInv, StartInv
    <2> QED
      BY <1>1, <2>1, <2>2 DEF Returns
  <1>2. ApiInv /\ [Next]_vars =>
           [\A c \in Callers : Returns(c) /\ commands[c].on /\ commands[c].alone
                                 => miner.off = "no"]_vars
    BY <1>1
  <1> QED
    BY <1>2, ApiInductive, PTL DEF Spec, NoFalseStart
=============================================================================
