------------------------------- MODULE V3Client -------------------------------
(***************************************************************************)
(* The API v3 client, api_v3.py: the writes that stop, start and power the *)
(* miner, the firmware upload, and the open_write_api handshake on the v2  *)
(* port that a write answered -4 triggers, once for each admin password    *)
(* the client tries.  Every request is a connection of its own, so callers *)
(* share nothing but the miner.  A call's at is the request it waits for;  *)
(* reply is "none" until the request has been answered or has failed:      *)
(*   "lost" or "late"   nothing readable came within the timeout, and the  *)
(*                      request is gone, or may still reach the miner      *)
(*   "refused"          a code of the miner's that is not 0 and not -4     *)
(*   "odd"              JSON that is not an object, where the client would *)
(*                      not look before it uses it                         *)
(*                                                                         *)
(* Left out: the framing and the tokens, of which an admin password that   *)
(* fits or does not is what remains; what is asked for; probe and the      *)
(* plain reads, which change nothing.                                      *)
(***************************************************************************)
EXTENDS Naturals, FiniteSets

CONSTANTS
    Writers,      \* callers of set_miner_service and set_miner_power
    Updaters,     \* callers of update_firmware
    Candidates    \* admin passwords the client tries: the configured one and "admin"

Callers == Writers \cup Updaters

ASSUME V3Assumption == Candidates \in {1, 2} /\ Writers \cap Updaters = {}

VARIABLES
    calls,    \* each caller's call
    last,     \* history: how the last call to end has ended
    strays,   \* history: the callers whose given-up request is still on its way
    miner     \* whether its write API is open, and which candidate opens it

v3Vars == <<calls, last, strays, miner>>

NewCall == [at |-> "salt", tried |-> 0, reply |-> "none", carried |-> 0]

NoCall == [at |-> "idle", tried |-> 0, reply |-> "none", carried |-> 0]

Idle(c) == calls[c].at = "idle"

V3TypeOK ==
    /\ calls \in [Callers -> [at : {"idle", "salt", "write", "challenge", "token", "stream", "final"},
                              tried : 0..Candidates,
                              reply : {"none", "ok", "ready", "denied", "refused", "lost", "late", "odd"},
                              carried : 0..1]]
    /\ \A c \in Callers : Idle(c) => calls[c] = NoCall
    /\ last \in {"none", "done", "refused", "unknown", "crashed"}
    /\ strays \subseteq Callers
    /\ miner \in [open : BOOLEAN, admin : 0..Candidates]

Waits(c, at, reply) == calls[c].at = at /\ calls[c].reply = reply

----------------------------------------------------------------------------
(* The client *)

Moves(c, at) ==
    /\ calls' = [calls EXCEPT ![c].at = at, ![c].reply = "none"]
    /\ UNCHANGED <<last, strays, miner>>

\* The call ends: "done", with a code ("refused"), without one ("unknown"), or
\* with an exception the caller does not expect ("crashed").
EndsAs(c, how) ==
    /\ calls' = [calls EXCEPT ![c] = NoCall]
    /\ last' = how
    /\ strays' = IF calls[c].reply = "late" THEN strays \cup {c} ELSE strays
    /\ UNCHANGED miner

\* set_miner_service, set_miner_power or update_firmware: the salt first.
Call(c) ==
    /\ Idle(c)
    /\ calls' = [calls EXCEPT ![c] = NewCall]
    /\ UNCHANGED <<last, strays, miner>>

\* Faulty NextCandidate: the password that was tried is tried again.
NextCandidateFaulty(c) ==
    /\ calls' = [calls EXCEPT ![c].at = "challenge", ![c].reply = "none"]
    /\ UNCHANGED <<last, strays, miner>>

\* The next password of _admin_candidates, or the end of the loop.
NextCandidate(c) ==
    IF calls[c].tried < Candidates
    THEN /\ calls' = [calls EXCEPT ![c].at = "challenge", ![c].reply = "none", ![c].tried = @ + 1]
         /\ UNCHANGED <<last, strays, miner>>
    ELSE EndsAs(c, "refused")

SaltArrives(c) == Waits(c, "salt", "ok") /\ Moves(c, "write")

SaltRefused(c) == Waits(c, "salt", "refused") /\ EndsAs(c, "refused")

Gone(c, at) == Waits(c, at, "lost") \/ Waits(c, at, "late")

\* _rpc raises; so does the upload, before it or at its end.
Unanswered(c) ==
    /\ \E at \in {"salt", "write", "stream", "final"} : Gone(c, at)
    /\ EndsAs(c, "unknown")

\* A write was carried out, or the image accepted.
Confirmed(c) ==
    /\ (c \in Writers /\ Waits(c, "write", "ok")) \/ Waits(c, "final", "ok")
    /\ EndsAs(c, "done")

\* -4, from the upload's final reply as well.
Denied(c) ==
    /\ Waits(c, "write", "denied") \/ Waits(c, "final", "denied")
    /\ NextCandidate(c)

Refused(c) ==
    /\ Waits(c, "write", "refused") \/ Waits(c, "final", "refused")
    /\ EndsAs(c, "refused")

\* Faulty InitAnswered: a code 0 that does not say "ready" is a success.
InitAnsweredFaulty(c) ==
    /\ c \in Updaters
    /\ \/ Waits(c, "write", "ready") /\ Moves(c, "stream")
       \/ Waits(c, "write", "ok") /\ EndsAs(c, "done")

\* The upload starts only on "ready": a code-0 "busy" is refused.
InitAnswered(c) ==
    /\ c \in Updaters
    /\ \/ Waits(c, "write", "ready") /\ Moves(c, "stream")
       \/ Waits(c, "write", "ok") /\ EndsAs(c, "refused")

\* The last chunk is drained.
Streamed(c) == Waits(c, "stream", "ok") /\ Moves(c, "final")

\* The challenge, the token and the upload's replies are used as objects.
Crashes(c) == calls[c].reply = "odd" /\ EndsAs(c, "crashed")

ChallengeArrives(c) == Waits(c, "challenge", "ok") /\ Moves(c, "token")

\* A wrong password may just drop the socket: the next one.
ChallengeFails(c) == Waits(c, "challenge", "lost") /\ NextCandidate(c)

\* The reply to the token is logged, whatever it is; the write is made anew.
TokenAnswered(c) ==
    /\ calls[c].at = "token" /\ calls[c].reply # "none"
    /\ Moves(c, "salt")

Handles(c) ==
    \/ SaltArrives(c) \/ SaltRefused(c) \/ Unanswered(c) \/ Confirmed(c) \/ Denied(c)
    \/ Refused(c) \/ InitAnswered(c) \/ Streamed(c) \/ Crashes(c)
    \/ ChallengeArrives(c) \/ ChallengeFails(c) \/ TokenAnswered(c)

----------------------------------------------------------------------------
(* The miner and the network *)

Waiting(c, at) == Waits(c, at, "none")

Answers(c, reply) ==
    /\ calls' = [calls EXCEPT ![c].reply = reply]
    /\ UNCHANGED <<last, strays, miner>>

\* The connection fails or times out.  What asks for something to be carried
\* out may still get there, one such request at a time.
Loses(c) ==
    /\ ~Idle(c) /\ calls[c].reply = "none" /\ calls[c].at # "stream"
    /\ \/ Answers(c, "lost")
       \/ /\ (c \in Writers /\ calls[c].at = "write") \/ calls[c].at = "final"
          /\ strays = {}
          /\ Answers(c, "late")

\* drain() has no timeout: the stream ends, breaks, or hangs as long as the
\* miner does not read.
Streams(c) ==
    /\ Waiting(c, "stream")
    /\ \E reply \in {"ok", "lost"} : Answers(c, reply)

AnswersSalt(c) ==
    /\ Waiting(c, "salt")
    /\ \E reply \in {"ok", "refused"} : Answers(c, reply)

CarriesOut(c, reply) ==
    /\ calls' = [calls EXCEPT ![c].carried = @ + 1, ![c].reply = reply]
    /\ UNCHANGED <<last, strays, miner>>

AnswersWrite(c) ==
    /\ Waiting(c, "write")
    /\ \/ ~miner.open /\ Answers(c, "denied")
       \/ Answers(c, "refused")
       \/ miner.open /\ c \in Updaters /\ \E reply \in {"ready", "ok"} : Answers(c, reply)
       \/ miner.open /\ c \in Writers /\ \E reply \in {"ok", "lost"} : CarriesOut(c, reply)
       \/ c \in Updaters /\ Answers(c, "odd")

\* The image is flashed, or refused; the confirmation may get lost.
AnswersUpload(c) ==
    /\ Waiting(c, "final")
    /\ \/ \E reply \in {"ok", "lost", "odd"} : CarriesOut(c, reply)
       \/ \E reply \in {"refused", "denied", "odd"} : Answers(c, reply)

AnswersChallenge(c) ==
    /\ Waiting(c, "challenge")
    /\ \E reply \in {"ok", "odd"} : Answers(c, reply)

\* The token opens the write API if the password fits; the reply may be lost.
TakesToken(c) ==
    /\ Waiting(c, "token")
    /\ miner' = [miner EXCEPT !.open = @ \/ calls[c].tried = miner.admin]
    /\ \E reply \in {"ok", "lost"} : calls' = [calls EXCEPT ![c].reply = reply]
    /\ UNCHANGED <<last, strays>>

\* A request given up on reaches the miner after all, or is dropped.
StrayEnds(c) ==
    /\ c \in strays
    /\ strays' = strays \ {c}
    /\ UNCHANGED <<calls, last, miner>>

Network(c) ==
    \/ Loses(c) \/ Streams(c) \/ AnswersSalt(c) \/ AnswersWrite(c) \/ AnswersUpload(c)
    \/ AnswersChallenge(c) \/ TakesToken(c) \/ StrayEnds(c)

\* A reboot, or the miner's owner, closes the write API.
Closes ==
    /\ miner.open
    /\ miner' = [miner EXCEPT !.open = FALSE]
    /\ UNCHANGED <<calls, last, strays>>

V3Init ==
    /\ calls = [c \in Callers |-> NoCall]
    /\ last = "none" /\ strays = {}
    /\ miner \in [open : BOOLEAN, admin : 0..Candidates]

V3Next ==
    \/ \E c \in Callers : Call(c) \/ Handles(c) \/ Network(c)
    \/ Closes

V3Spec == V3Init /\ [][V3Next]_v3Vars

----------------------------------------------------------------------------
(* What the callers rely on *)

\* An exception of another class tells the caller as little as one without a
\* code.
Remote == INSTANCE RemoteWrite WITH
    asked   <- [c \in Callers |-> ~Idle(c)],
    carried <- [c \in Callers |-> calls[c].carried],
    last    <- IF last = "crashed" THEN "unknown" ELSE last

\* The client implements RemoteWrite: whatever is lost, refused, unlocked and
\* sent again, the miner carries out what a call asks for at most once, a call
\* that returns was carried out, and one that raises with a code was not
\* (_write_unlocked, update_firmware: a retry only on -4).
CarriedAtMostOnce == Remote!WriteSpec
=============================================================================
