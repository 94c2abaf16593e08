---------------------------- MODULE V3ClientProofs ----------------------------
(***************************************************************************)
(* Proof that the API v3 client implements RemoteWrite, for every number   *)
(* of callers and passwords.  The invariant says where a call can be when  *)
(* what it asks for has been carried out: at a reply that makes the client *)
(* end the call, never at one that makes it ask again.  The firmware       *)
(* service over it is proved to hold the entry's lock for as long as a     *)
(* bundle is under way, and to be no more to the miner than such a client. *)
(***************************************************************************)
EXTENDS FirmwareService, TLAPS

\* What a call's place and reply say about what the miner has done for it.
Sound(c) ==
    /\ calls[c].carried = 1 =>
          \/ c \in Writers /\ calls[c].at = "write" /\ calls[c].reply \in {"ok", "lost"}
          \/ calls[c].at = "final" /\ calls[c].reply \in {"ok", "lost", "odd"}
    /\ c \in Writers /\ calls[c].at = "write" /\ calls[c].reply = "ok" => calls[c].carried = 1
    /\ calls[c].at = "final" /\ calls[c].reply = "ok" => calls[c].carried = 1
    /\ calls[c].at \in {"stream", "final"} => c \in Updaters
    /\ calls[c].reply = "late" =>
          /\ c \notin strays
          /\ (c \in Writers /\ calls[c].at = "write") \/ calls[c].at = "final"

V3Inv == V3TypeOK /\ \A c \in Callers : Sound(c)

----------------------------------------------------------------------------
(* What the steps have in common *)

\* A caller's record.
CallType ==
    [at : {"idle", "salt", "write", "challenge", "token", "stream", "final"},
     tried : 0..Candidates,
     reply : {"none", "ok", "ready", "denied", "refused", "lost", "late", "odd"},
     carried : 0..1]

\* A caller is a writer or an updater, not both.
LEMMA Roles == \A c \in Callers : (c \in Writers) = (c \notin Updaters)
  BY V3Assumption DEF Callers

\* A new call, and none, have their type.
LEMMA FreshCalls == NewCall \in CallType /\ NoCall \in CallType /\ NoCall.at = "idle"
  BY V3Assumption DEF NewCall, NoCall, CallType

\* A step that replaces c's call by k, and c alone by c's, keeps the invariant
\* when k has its type and is sound.
LEMMA Replaces ==
    ASSUME V3Inv, NEW c \in Callers, NEW k \in CallType,
           calls' = [calls EXCEPT ![c] = k],
           k.at = "idle" => k = NoCall,
           miner' \in [open : BOOLEAN, admin : 0..Candidates],
           last' \in {"none", "done", "refused", "unknown", "crashed"},
           strays' \in {strays, strays \cup {c}},
           Sound(c)'
    PROVE  V3Inv'
  <1>1. V3TypeOK'
    BY DEF V3Inv, V3TypeOK, CallType, Idle
  <1>2. ASSUME NEW d \in Callers, d # c PROVE Sound(d)'
    <2>1. calls'[d] = calls[d] /\ (d \in strays' <=> d \in strays)
      BY <1>2 DEF V3Inv, V3TypeOK
    <2> QED
      BY <2>1 DEF V3Inv, Sound
  <1> QED
    BY <1>1, <1>2 DEF V3Inv

\* A call that ends leaves nothing behind but perhaps its request.
LEMMA Ending ==
    ASSUME V3Inv, NEW c \in Callers, NEW how \in {"done", "refused", "unknown", "crashed"},
           EndsAs(c, how)
    PROVE  V3Inv'
  <1>1. calls'[c] = NoCall /\ calls' = [calls EXCEPT ![c] = NoCall]
    BY DEF EndsAs, V3Inv, V3TypeOK
  <1>2. Sound(c)'
    BY <1>1 DEF Sound, NoCall, NewCall
  <1>3. miner' \in [open : BOOLEAN, admin : 0..Candidates]
        /\ last' \in {"none", "done", "refused", "unknown", "crashed"}
        /\ strays' \in {strays, strays \cup {c}}
    BY DEF EndsAs, V3Inv, V3TypeOK
  <1> QED
    BY <1>1, <1>2, <1>3, FreshCalls, Replaces

\* A step of RemoteWrite, or none.
Maps(c) == Remote!WriteStep(c) \/ UNCHANGED Remote!writeVars

\* A call that goes on, with the miner having done no more for it: nothing
\* RemoteWrite sees.
LEMMA GoingOn ==
    ASSUME V3Inv, NEW c \in Callers, NEW k \in CallType,
           calls' = [calls EXCEPT ![c] = k],
           calls[c].at # "idle", k.at # "idle", k.carried = calls[c].carried,
           UNCHANGED <<last, strays>>,
           miner' \in [open : BOOLEAN, admin : 0..Candidates],
           Sound(c)'
    PROVE  V3Inv' /\ Maps(c)
  <1>1. V3Inv'
    BY Replaces DEF V3Inv, V3TypeOK
  <1>2. \A d \in Callers : Idle(d)' = Idle(d) /\ calls'[d].carried = calls[d].carried
    BY DEF V3Inv, V3TypeOK, Idle
  <1>3. UNCHANGED Remote!writeVars
    BY <1>2 DEF Remote!writeVars
  <1> QED
    BY <1>1, <1>3 DEF Maps

\* A call that ends, as RemoteWrite sees it.
LEMMA Ended ==
    ASSUME V3Inv, NEW c \in Callers, NEW how \in {"done", "refused", "unknown", "crashed"},
           calls[c].at # "idle", EndsAs(c, how),
           how = "done" => calls[c].carried = 1 /\ calls[c].reply # "late",
           how = "refused" => calls[c].carried = 0 /\ calls[c].reply # "late",
           how = "crashed" => calls[c].reply # "late"
    PROVE  V3Inv' /\ Maps(c)
  <1>1. V3Inv'
    BY Ending
  <1>2. calls' = [calls EXCEPT ![c] = NoCall] /\ NoCall.at = "idle" /\ NoCall.carried = 0
    BY DEF EndsAs, NoCall
  <1>3. \A d \in Callers : (~Idle(d))' = (IF d = c THEN FALSE ELSE ~Idle(d))
                           /\ calls'[d].carried = (IF d = c THEN 0 ELSE calls[d].carried)
    BY <1>2 DEF V3Inv, V3TypeOK, Idle
  <1>4. /\ [d \in Callers |-> ~Idle(d)][c]
        /\ [d \in Callers |-> ~Idle(d)]' = [[d \in Callers |-> ~Idle(d)] EXCEPT ![c] = FALSE]
        /\ [d \in Callers |-> calls[d].carried]'
              = [[d \in Callers |-> calls[d].carried] EXCEPT ![c] = 0]
        /\ [d \in Callers |-> calls[d].carried][c] = calls[c].carried
    BY <1>3 DEF Idle
  <1>5. last' = how
    BY DEF EndsAs
  <1>6. CASE how = "done"
    <2>1. Remote!Ends(c, "done")
      BY <1>4, <1>5, <1>6 DEF Remote!Ends
    <2>2. Remote!Confirm(c)
      BY <2>1, <1>4, <1>6 DEF Remote!Confirm, EndsAs
    <2> QED
      BY <2>2, <1>1 DEF Maps, Remote!WriteStep
  <1>7. CASE how = "refused"
    <2>1. Remote!Ends(c, "refused")
      BY <1>4, <1>5, <1>7 DEF Remote!Ends
    <2>2. Remote!Refuse(c)
      BY <2>1, <1>4, <1>7 DEF Remote!Refuse, EndsAs
    <2> QED
      BY <2>2, <1>1 DEF Maps, Remote!WriteStep
  <1>8. CASE how \in {"unknown", "crashed"}
    <2>1. Remote!Ends(c, "unknown")
      BY <1>4, <1>5, <1>8 DEF Remote!Ends
    <2>2. CASE calls[c].reply = "late"
      <3>1. calls[c].carried = 0 /\ c \notin strays
        BY <2>2 DEF V3Inv, V3TypeOK, Sound
      <3>2. Remote!GiveUpEarly(c)
        BY <2>1, <2>2, <3>1, <1>4 DEF Remote!GiveUpEarly, EndsAs
      <3> QED
        BY <3>2, <1>1 DEF Maps, Remote!WriteStep
    <2>3. CASE calls[c].reply # "late"
      <3>1. Remote!GiveUp(c)
        BY <2>1, <2>3 DEF Remote!GiveUp, EndsAs
      <3> QED
        BY <3>1, <1>1 DEF Maps, Remote!WriteStep
    <2> QED
      BY <2>2, <2>3
  <1> QED
    BY <1>6, <1>7, <1>8

----------------------------------------------------------------------------
(* The client's steps *)

\* Moving on to the next request, with nothing carried out yet.
LEMMA Moving ==
    ASSUME V3Inv, NEW c \in Callers, NEW at \in {"salt", "write", "token", "stream", "final"},
           calls[c].at # "idle", calls[c].carried = 0, Moves(c, at),
           at \in {"stream", "final"} => c \in Updaters
    PROVE  V3Inv' /\ Maps(c)
  <1> DEFINE k == [calls[c] EXCEPT !.at = at, !.reply = "none"]
  <1>1. k \in CallType /\ k.at = at /\ k.reply = "none" /\ k.carried = 0
    BY ZenonT(60) DEF V3Inv, V3TypeOK, CallType
  <1>2. calls' = [calls EXCEPT ![c] = k] /\ calls'[c] = k
    BY DEF Moves, V3Inv, V3TypeOK
  <1>3. UNCHANGED <<last, strays>> /\ miner' \in [open : BOOLEAN, admin : 0..Candidates]
    BY DEF Moves, V3Inv, V3TypeOK
  <1> HIDE DEF k
  <1>4. Sound(c)'
    BY <1>1, <1>2 DEF Sound
  <1> QED
    BY <1>1, <1>2, <1>3, <1>4, GoingOn

\* Trying the next password.
LEMMA Trying ==
    ASSUME V3Inv, NEW c \in Callers, NextCandidate(c),
           calls[c].at # "idle", calls[c].carried = 0, calls[c].reply # "late"
    PROVE  V3Inv' /\ Maps(c)
  <1>1. CASE calls[c].tried < Candidates
    <2> DEFINE k == [calls[c] EXCEPT !.at = "challenge", !.reply = "none", !.tried = @ + 1]
    <2>0. calls[c] \in CallType /\ calls[c].tried + 1 \in 0..Candidates
      BY <1>1, V3Assumption DEF V3Inv, V3TypeOK, CallType
    <2>1. k \in CallType /\ k.at = "challenge" /\ k.reply = "none" /\ k.carried = 0
      BY <2>0 DEF CallType
    <2>2. calls' = [calls EXCEPT ![c] = k] /\ calls'[c] = k
      BY <1>1 DEF NextCandidate, V3Inv, V3TypeOK
    <2>3. UNCHANGED <<last, strays>> /\ miner' \in [open : BOOLEAN, admin : 0..Candidates]
      BY <1>1 DEF NextCandidate, V3Inv, V3TypeOK
    <2> HIDE DEF k
    <2>4. Sound(c)'
      BY <2>1, <2>2 DEF Sound
    <2> QED
      BY <2>1, <2>2, <2>3, <2>4, GoingOn
  <1>2. CASE ~(calls[c].tried < Candidates)
    <2>1. EndsAs(c, "refused")
      BY <1>2 DEF NextCandidate
    <2> QED
      BY <2>1, Ended
  <1> QED
    BY <1>1, <1>2

\* What a caller makes of the reply it got.
LEMMA Handling ==
    ASSUME V3Inv, NEW c \in Callers, Handles(c)
    PROVE  V3Inv' /\ Maps(c)
  <1> USE DEF Waits
  <1>0. Sound(c) /\ calls[c] \in CallType
    BY DEF V3Inv, V3TypeOK, CallType
  <1>00. calls[c].carried \in {0, 1} /\ (c \in Updaters => c \notin Writers)
         /\ (c \in Writers \/ c \in Updaters)
    BY <1>0, Roles DEF CallType, Callers
  <1>1. CASE SaltArrives(c)
    BY <1>1, <1>0, <1>00, Moving DEF SaltArrives, Sound
  <1>2. CASE SaltRefused(c)
    BY <1>2, <1>0, <1>00, Ended DEF SaltRefused, Sound
  <1>3. CASE Unanswered(c)
    <2>1. EndsAs(c, "unknown") /\ calls[c].at # "idle"
      BY <1>3 DEF Unanswered, Gone
    <2> QED
      BY <2>1, Ended
  <1>4. CASE Confirmed(c)
    <2>1. EndsAs(c, "done") /\ calls[c].at # "idle" /\ calls[c].reply = "ok" /\ calls[c].carried = 1
      BY <1>4, <1>0 DEF Confirmed, Sound
    <2> QED
      BY <2>1, Ended
  <1>5. CASE Denied(c)
    <2>1. NextCandidate(c) /\ calls[c].at # "idle" /\ calls[c].reply = "denied" /\ calls[c].carried = 0
      BY <1>5, <1>0, <1>00 DEF Denied, Sound
    <2> QED
      BY <2>1, Trying
  <1>6. CASE Refused(c)
    <2>1. EndsAs(c, "refused") /\ calls[c].at # "idle" /\ calls[c].reply = "refused" /\ calls[c].carried = 0
      BY <1>6, <1>0, <1>00 DEF Refused, Sound
    <2> QED
      BY <2>1, Ended
  <1>7. CASE InitAnswered(c)
    <2>1. c \in Updaters /\ calls[c].at = "write" /\ calls[c].carried = 0
      BY <1>7, <1>0, <1>00 DEF InitAnswered, Sound
    <2>2. CASE Waits(c, "write", "ready") /\ Moves(c, "stream")
      BY <2>1, <2>2, Moving
    <2>3. CASE Waits(c, "write", "ok") /\ EndsAs(c, "refused")
      BY <2>1, <2>3, Ended
    <2> QED
      BY <1>7, <2>2, <2>3 DEF InitAnswered
  <1>8. CASE Streamed(c)
    <2>1. calls[c].at = "stream" /\ calls[c].carried = 0 /\ Moves(c, "final") /\ c \in Updaters
      BY <1>8, <1>0, <1>00 DEF Streamed, Sound
    <2> QED
      BY <2>1, Moving
  <1>9. CASE Crashes(c)
    <2>1. EndsAs(c, "crashed") /\ calls[c].reply = "odd"
      BY <1>9 DEF Crashes
    <2>2. calls[c].at # "idle"
      BY <2>1 DEF V3Inv, V3TypeOK, Idle, NoCall
    <2> QED
      BY <2>1, <2>2, Ended
  <1>10. CASE ChallengeArrives(c)
    <2>1. calls[c].at = "challenge" /\ calls[c].carried = 0 /\ Moves(c, "token")
      BY <1>10, <1>0, <1>00 DEF ChallengeArrives, Sound
    <2> QED
      BY <2>1, Moving
  <1>11. CASE ChallengeFails(c)
    <2>1. calls[c].at = "challenge" /\ calls[c].reply = "lost" /\ calls[c].carried = 0
          /\ NextCandidate(c)
      BY <1>11, <1>0, <1>00 DEF ChallengeFails, Sound
    <2> QED
      BY <2>1, Trying
  <1>12. CASE TokenAnswered(c)
    <2>1. calls[c].at = "token" /\ calls[c].carried = 0 /\ Moves(c, "salt")
      BY <1>12, <1>0, <1>00 DEF TokenAnswered, Sound
    <2> QED
      BY <2>1, Moving
  <1> QED
    BY <1>1, <1>2, <1>3, <1>4, <1>5, <1>6, <1>7, <1>8, <1>9, <1>10, <1>11, <1>12 DEF Handles

----------------------------------------------------------------------------
(* The miner's and the network's steps *)

\* A reply to a call that had none, with nothing carried out.
LEMMA Answering ==
    ASSUME V3Inv, NEW c \in Callers,
           NEW reply \in {"ok", "ready", "denied", "refused", "lost", "late", "odd"},
           calls[c].at # "idle", calls[c].reply = "none", Answers(c, reply),
           reply = "late" => strays = {} /\ ((c \in Writers /\ calls[c].at = "write")
                                               \/ calls[c].at = "final"),
           c \in Writers /\ calls[c].at = "write" => reply # "ok",
           calls[c].at = "final" => reply # "ok"
    PROVE  V3Inv' /\ Maps(c)
  <1> DEFINE k == [calls[c] EXCEPT !.reply = reply]
  <1>1. k \in CallType /\ k.at = calls[c].at /\ k.reply = reply /\ k.carried = calls[c].carried
    BY DEF V3Inv, V3TypeOK, CallType
  <1>2. calls' = [calls EXCEPT ![c] = k] /\ calls'[c] = k
    BY DEF Answers, V3Inv, V3TypeOK
  <1>3. UNCHANGED <<last, strays>> /\ miner' \in [open : BOOLEAN, admin : 0..Candidates]
    BY DEF Answers, V3Inv, V3TypeOK
  <1>4. calls[c].carried = 0 /\ (calls[c].at \in {"stream", "final"} => c \in Updaters)
    BY DEF V3Inv, V3TypeOK, Sound
  <1> HIDE DEF k
  <1>5. Sound(c)'
    BY <1>1, <1>2, <1>3, <1>4 DEF Sound
  <1> QED
    BY <1>1, <1>2, <1>3, <1>5, GoingOn

\* The miner does what a call asks for: RemoteWrite's CarryOut.
LEMMA CarryingOut ==
    ASSUME V3Inv, NEW c \in Callers, NEW reply \in {"ok", "lost", "odd"},
           calls[c].reply = "none", CarriesOut(c, reply),
           (c \in Writers /\ calls[c].at = "write" /\ reply # "odd") \/ calls[c].at = "final"
    PROVE  V3Inv' /\ Maps(c)
  <1> DEFINE k == [calls[c] EXCEPT !.carried = @ + 1, !.reply = reply]
  <1>1. calls[c] \in CallType /\ calls[c].carried = 0 /\ calls[c].at # "idle"
        /\ (calls[c].at = "final" => c \in Updaters)
    BY DEF V3Inv, V3TypeOK, CallType, Sound
  <1>2. k \in CallType /\ k.at = calls[c].at /\ k.reply = reply /\ k.carried = 1
    <2>1. calls[c].carried + 1 = 1 /\ 1 \in 0..1
      BY <1>1
    <2> QED
      BY <1>1, <2>1 DEF CallType
  <1>3. calls' = [calls EXCEPT ![c] = k] /\ calls'[c] = k
    BY DEF CarriesOut, V3Inv, V3TypeOK
  <1>4. UNCHANGED <<last, strays, miner>> /\ miner \in [open : BOOLEAN, admin : 0..Candidates]
        /\ last \in {"none", "done", "refused", "unknown", "crashed"}
    BY DEF CarriesOut, V3Inv, V3TypeOK
  <1> HIDE DEF k
  <1>5. Sound(c)'
    BY <1>1, <1>2, <1>3 DEF Sound
  <1>6. V3Inv'
    BY <1>1, <1>2, <1>3, <1>4, <1>5, Replaces
  <1>7. \A d \in Callers : (~Idle(d))' = ~Idle(d)
                           /\ calls'[d].carried = (IF d = c THEN 1 ELSE calls[d].carried)
    BY <1>1, <1>2, <1>3 DEF V3Inv, V3TypeOK, Idle
  <1>8. /\ [d \in Callers |-> ~Idle(d)][c] /\ [d \in Callers |-> calls[d].carried][c] = 0
        /\ [d \in Callers |-> ~Idle(d)]' = [d \in Callers |-> ~Idle(d)]
        /\ [d \in Callers |-> calls[d].carried]'
              = [[d \in Callers |-> calls[d].carried] EXCEPT ![c] = 1]
    BY <1>1, <1>7 DEF Idle
  <1>9. Remote!CarryOut(c)
    BY <1>4, <1>8 DEF Remote!CarryOut
  <1> QED
    BY <1>6, <1>9 DEF Maps, Remote!WriteStep

\* Everything that reaches a caller, or gets lost on the way to it.
LEMMA Networking ==
    ASSUME V3Inv, NEW c \in Callers, Network(c)
    PROVE  V3Inv' /\ Maps(c)
  <1> USE DEF Waits, Waiting
  <1>0. calls[c] \in CallType /\ (c \in Updaters => c \notin Writers)
    BY Roles DEF V3Inv, V3TypeOK, CallType
  <1>1. CASE Loses(c)
    <2>1. calls[c].at # "idle" /\ calls[c].reply = "none"
      BY <1>1 DEF Loses, Idle
    <2>2. CASE Answers(c, "lost")
      BY <2>1, <2>2, Answering
    <2>3. CASE /\ (c \in Writers /\ calls[c].at = "write") \/ calls[c].at = "final"
               /\ strays = {}
               /\ Answers(c, "late")
      BY <2>1, <2>3, Answering
    <2> QED
      BY <1>1, <2>2, <2>3 DEF Loses
  <1>2. CASE Streams(c)
    BY <1>2, Answering DEF Streams
  <1>3. CASE AnswersSalt(c)
    BY <1>3, Answering DEF AnswersSalt
  <1>4. CASE AnswersWrite(c)
    <2>1. calls[c].at = "write" /\ calls[c].reply = "none"
      BY <1>4 DEF AnswersWrite
    <2>2. CASE Answers(c, "denied") \/ Answers(c, "refused") \/ Answers(c, "odd")
      BY <2>1, <2>2, Answering
    <2>3. CASE c \in Updaters /\ \E reply \in {"ready", "ok"} : Answers(c, reply)
      BY <2>1, <2>3, <1>0, Answering
    <2>4. CASE c \in Writers /\ \E reply \in {"ok", "lost"} : CarriesOut(c, reply)
      BY <2>1, <2>4, CarryingOut
    <2> QED
      BY <1>4, <2>2, <2>3, <2>4 DEF AnswersWrite
  <1>5. CASE AnswersUpload(c)
    <2>1. calls[c].at = "final" /\ calls[c].reply = "none"
      BY <1>5 DEF AnswersUpload
    <2>2. CASE \E reply \in {"ok", "lost", "odd"} : CarriesOut(c, reply)
      BY <2>1, <2>2, CarryingOut
    <2>3. CASE \E reply \in {"refused", "denied", "odd"} : Answers(c, reply)
      BY <2>1, <2>3, Answering
    <2> QED
      BY <1>5, <2>2, <2>3 DEF AnswersUpload
  <1>6. CASE AnswersChallenge(c)
    BY <1>6, Answering DEF AnswersChallenge
  <1>7. CASE TakesToken(c)
    <2> PICK reply \in {"ok", "lost"} : calls' = [calls EXCEPT ![c].reply = reply]
      BY <1>7 DEF TakesToken
    <2> DEFINE k == [calls[c] EXCEPT !.reply = reply]
    <2>1. k \in CallType /\ k.at = "token" /\ k.reply = reply /\ k.carried = calls[c].carried
          /\ calls[c].at = "token"
      BY <1>0, <1>7 DEF TakesToken, CallType
    <2>2. calls' = [calls EXCEPT ![c] = k] /\ calls'[c] = k
      BY DEF V3Inv, V3TypeOK
    <2>3. UNCHANGED <<last, strays>> /\ miner' \in [open : BOOLEAN, admin : 0..Candidates]
      BY <1>7 DEF TakesToken, V3Inv, V3TypeOK
    <2>4. calls[c].carried # 1
      BY <2>1, <1>7 DEF V3Inv, Sound, TakesToken
    <2> HIDE DEF k
    <2>5. Sound(c)'
      BY <2>1, <2>2, <2>4 DEF Sound
    <2> QED
      BY <2>1, <2>2, <2>3, <2>5, GoingOn
  <1>8. CASE StrayEnds(c)
    <2>1. UNCHANGED <<calls, last, miner>> /\ strays' = strays \ {c} /\ c \in strays
      BY <1>8 DEF StrayEnds
    <2>2. \A d \in Callers : Sound(d)'
      BY <2>1 DEF V3Inv, Sound
    <2>3. V3Inv'
      BY <2>1, <2>2 DEF V3Inv, V3TypeOK, Idle
    <2>4. Remote!StrayEnds(c)
      BY <2>1 DEF Remote!StrayEnds, Idle
    <2> QED
      BY <2>3, <2>4 DEF Maps, Remote!WriteStep
  <1> QED
    BY <1>1, <1>2, <1>3, <1>4, <1>5, <1>6, <1>7, <1>8 DEF Network

\* A new call: RemoteWrite's Ask.
LEMMA Calling ==
    ASSUME V3Inv, NEW c \in Callers, Call(c)
    PROVE  V3Inv' /\ Maps(c)
  <1>1. calls' = [calls EXCEPT ![c] = NewCall] /\ calls'[c] = NewCall /\ calls[c].at = "idle"
        /\ calls[c].carried = 0 /\ NewCall.at = "salt" /\ NewCall.carried = 0
        /\ NewCall.reply = "none"
    BY DEF Call, V3Inv, V3TypeOK, Idle, NewCall, NoCall
  <1>2. UNCHANGED <<last, strays, miner>> /\ miner \in [open : BOOLEAN, admin : 0..Candidates]
        /\ last \in {"none", "done", "refused", "unknown", "crashed"}
    BY DEF Call, V3Inv, V3TypeOK
  <1>3. Sound(c)'
    BY <1>1 DEF Sound
  <1>4. V3Inv'
    BY <1>1, <1>2, <1>3, FreshCalls, Replaces
  <1>5. \A d \in Callers : (~Idle(d))' = (IF d = c THEN TRUE ELSE ~Idle(d))
                           /\ calls'[d].carried = calls[d].carried
    BY <1>1 DEF V3Inv, V3TypeOK, Idle
  <1>6. /\ ~[d \in Callers |-> ~Idle(d)][c]
        /\ [d \in Callers |-> ~Idle(d)]' = [[d \in Callers |-> ~Idle(d)] EXCEPT ![c] = TRUE]
        /\ [d \in Callers |-> calls[d].carried]' = [d \in Callers |-> calls[d].carried]
    BY <1>1, <1>5 DEF Idle
  <1>7. Remote!Ask(c)
    BY <1>2, <1>6 DEF Remote!Ask
  <1> QED
    BY <1>4, <1>7 DEF Maps, Remote!WriteStep

\* Every step, then, keeps the invariant and is a step of RemoteWrite or none.
LEMMA Steps ==
    ASSUME V3Inv, [V3Next]_v3Vars
    PROVE  V3Inv' /\ [Remote!WriteNext]_(Remote!writeVars)
  <1>1. ASSUME NEW c \in Callers, Call(c) \/ Handles(c) \/ Network(c)
        PROVE  V3Inv' /\ [Remote!WriteNext]_(Remote!writeVars)
    <2>1. V3Inv' /\ Maps(c)
      BY <1>1, Calling, Handling, Networking
    <2> QED
      BY <2>1 DEF Maps, Remote!WriteNext
  <1>2. CASE Closes
    <2>1. UNCHANGED <<calls, last, strays>> /\ miner' \in [open : BOOLEAN, admin : 0..Candidates]
      BY <1>2 DEF Closes, V3Inv, V3TypeOK
    <2>2. V3Inv'
      BY <2>1 DEF V3Inv, V3TypeOK, Sound, Idle
    <2>3. UNCHANGED Remote!writeVars
      BY <2>1 DEF Remote!writeVars, Idle
    <2> QED
      BY <2>2, <2>3
  <1>3. CASE UNCHANGED v3Vars
    <2>1. V3Inv'
      BY <1>3 DEF v3Vars, V3Inv, V3TypeOK, Sound, Idle
    <2>2. UNCHANGED Remote!writeVars
      BY <1>3 DEF v3Vars, Remote!writeVars, Idle
    <2> QED
      BY <2>1, <2>2
  <1> QED
    BY <1>1, <1>2, <1>3 DEF V3Next

----------------------------------------------------------------------------
(* The theorems *)

\* A call's reply always tells the client enough: what was carried out never
\* meets a reply that makes it ask again (_write_unlocked, update_firmware).
THEOREM V3Inductive == V3Spec => []V3Inv
  <1>1. V3Init => V3Inv
    BY V3Assumption DEF V3Init, V3Inv, V3TypeOK, Sound, NoCall, Idle
  <1>2. V3Inv /\ [V3Next]_v3Vars => V3Inv'
    BY Steps
  <1> QED
    BY <1>1, <1>2, PTL DEF V3Spec

\* The API v3 client implements RemoteWrite, for any number of callers and
\* either number of passwords (api_v3.py).
THEOREM ImplementsRemoteWrite == V3Spec => CarriedAtMostOnce
  <1>1. V3Init => Remote!WriteInit
    <2> SUFFICES ASSUME V3Init PROVE Remote!WriteInit
      OBVIOUS
    <2>1. \A c \in Callers : (~Idle(c)) = FALSE /\ calls[c].carried = 0
      BY DEF V3Init, Idle, NoCall
    <2>2. last = "none" /\ strays = {}
      BY DEF V3Init
    <2>3. [c \in Callers |-> ~Idle(c)] = [c \in Callers |-> FALSE]
      BY <2>1
    <2>4. [c \in Callers |-> calls[c].carried] = [c \in Callers |-> 0]
      BY <2>1
    <2> QED
      BY <2>2, <2>3, <2>4 DEF Remote!WriteInit
  <1>2. V3Inv /\ [V3Next]_v3Vars => [Remote!WriteNext]_(Remote!writeVars)
    BY Steps
  <1> QED
    BY <1>1, <1>2, V3Inductive, PTL DEF V3Spec, CarriedAtMostOnce, Remote!WriteSpec

----------------------------------------------------------------------------
(* The firmware service *)

\* A call of the service has taken the lock and has not left it.
Uploads(u) == ~Idle(u) \/ u \in reading

\* Who uploads holds the lock, and nobody else uploads: a lock that does not say
\* by whom it is held would be left by the first of two.
LockInv ==
    /\ \A u \in Updaters : Uploads(u) => locked
    /\ \A u, v \in Updaters : Uploads(u) /\ Uploads(v) => u = v

ServiceInv == V3Inv /\ TypeOK /\ LockInv

\* A step of one caller's leaves the other callers where they were.
LEMMA OthersStay ==
    ASSUME V3Inv, NEW c \in Callers, Call(c) \/ Handles(c) \/ Network(c)
    PROVE  \A d \in Callers : d # c => calls'[d] = calls[d]
  BY DEF V3Inv, V3TypeOK, Call, Handles, Network, Waits, Waiting, Moves, EndsAs, NextCandidate,
         SaltArrives, SaltRefused, Unanswered, Confirmed, Denied, Refused, InitAnswered,
         Streamed, Crashes, ChallengeArrives, ChallengeFails, TokenAnswered, Answers, Loses,
         Streams, AnswersSalt, CarriesOut, AnswersWrite, AnswersUpload, AnswersChallenge,
         TakesToken, StrayEnds

\* Neither what a caller makes of a reply nor what reaches it begins a call.
LEMMA OnlyCallsBegin ==
    ASSUME V3Inv, NEW c \in Callers, Handles(c) \/ Network(c), Idle(c)
    PROVE  Idle(c)'
  BY DEF V3Inv, V3TypeOK, Idle, NoCall, Handles, Network, Waits, Waiting, Moves, EndsAs,
         SaltArrives, SaltRefused, Unanswered, Gone, Confirmed, Denied, Refused, InitAnswered,
         Streamed, Crashes, ChallengeArrives, ChallengeFails, TokenAnswered, Loses,
         Streams, AnswersSalt, AnswersWrite, AnswersUpload, AnswersChallenge,
         TakesToken, StrayEnds

\* Nothing is made of a reply where there is no call.
LEMMA OnlyCallsHandle ==
    ASSUME V3Inv, NEW c \in Callers, Handles(c)
    PROVE  ~Idle(c)
  BY DEF V3Inv, V3TypeOK, Idle, NoCall, Handles, Waits, SaltArrives, SaltRefused, Unanswered,
         Gone, Confirmed, Denied, Refused, InitAnswered, Streamed, Crashes, ChallengeArrives,
         ChallengeFails, TokenAnswered

\* At first nobody calls and nobody uploads.
LEMMA ServiceBegins == ServiceInit => V3Init /\ ServiceInv
  <1> SUFFICES ASSUME ServiceInit PROVE V3Init /\ ServiceInv
    OBVIOUS
  <1>1. V3Init /\ \A c \in Callers : calls[c] = NoCall /\ Idle(c)
    BY DEF ServiceInit, V3Init, Idle, NoCall
  <1>2. V3Inv
    BY <1>1, FreshCalls DEF V3Init, V3Inv, V3TypeOK, CallType, Sound, NoCall
  <1> QED
    BY <1>1, <1>2 DEF ServiceInit, ServiceInv, V3Inv, LockInv, Uploads, TypeOK, Callers

\* A step of the service or of the callers beside it keeps the lock with who
\* uploads, and is to the client a step of its own or none.
LEMMA ServiceSteps ==
    ASSUME ServiceInv, [ServiceNext]_allVars
    PROVE  ServiceInv' /\ [V3Next]_v3Vars
  <1> USE DEF ServiceInv
  <1>0. /\ \A u \in Updaters : u \in Callers /\ u \notin Writers
        /\ \A w \in Writers : w \in Callers
    BY Roles DEF Callers
  <1>1. ASSUME NEW w \in Writers, Under(Call(w))
        PROVE  ServiceInv' /\ [V3Next]_v3Vars
    <2>1. V3Inv' /\ [V3Next]_v3Vars
      BY <1>0, <1>1, Steps DEF Under, V3Next
    <2>2. \A u \in Updaters : Idle(u)' = Idle(u)
      BY <1>0, <1>1, OthersStay DEF Under, Idle
    <2> QED
      BY <1>0, <1>1, <2>1, <2>2 DEF Under, serviceVars, LockInv, Uploads, TypeOK, V3Inv
  <1>2. ASSUME NEW u \in Updaters, ServiceCalled(u)
        PROVE  ServiceInv' /\ [V3Next]_v3Vars
    <2>1. UNCHANGED v3Vars
      BY <1>2 DEF ServiceCalled
    <2>2. V3Inv' /\ \A v \in Updaters : Idle(v)' = Idle(v)
      BY <2>1, Steps DEF v3Vars, Idle
    <2>3. CASE ClientFound
      BY <1>2, <2>1, <2>2, <2>3 DEF ServiceCalled, LockInv, Uploads, TypeOK, V3Inv
    <2>4. CASE ~ClientFound
      BY <1>2, <2>1, <2>2, <2>4 DEF ServiceCalled, LockInv, Uploads, TypeOK, V3Inv
    <2> QED
      BY <2>3, <2>4
  <1>3. ASSUME NEW u \in Updaters, FileRefused(u)
        PROVE  ServiceInv' /\ [V3Next]_v3Vars
    <2>1. UNCHANGED v3Vars /\ Uploads(u)
      BY <1>3 DEF FileRefused, Uploads
    <2>2. V3Inv' /\ \A v \in Updaters : Idle(v)' = Idle(v)
      BY <2>1, Steps DEF v3Vars, Idle
    <2>3. \A v \in Updaters : ~Uploads(v)'
      BY <1>3, <2>1, <2>2 DEF FileRefused, LockInv, Uploads, TypeOK
    <2> QED
      BY <1>3, <2>1, <2>2, <2>3 DEF FileRefused, LockInv, TypeOK, V3Inv
  <1>4. ASSUME NEW u \in Updaters, FileRead(u)
        PROVE  ServiceInv' /\ [V3Next]_v3Vars
    <2>1. V3Inv' /\ [V3Next]_v3Vars /\ Uploads(u)
      BY <1>0, <1>4, Steps DEF FileRead, V3Next, Uploads
    <2>2. \A v \in Updaters : v # u => Idle(v)' = Idle(v)
      BY <1>0, <1>4, OthersStay DEF FileRead, Idle
    <2>3. \A v \in Updaters : Uploads(v)' => Uploads(v)
      BY <1>4, <2>1, <2>2 DEF FileRead, Uploads
    <2>4. u \notin reading' /\ reading' \subseteq reading
      BY <1>4 DEF FileRead
    <2> QED
      BY <1>4, <2>1, <2>2, <2>3, <2>4 DEF FileRead, LockInv, TypeOK, V3Inv
  <1>5. ASSUME NEW c \in Callers, Proceeds(c)
        PROVE  ServiceInv' /\ [V3Next]_v3Vars
    <2>1. V3Inv' /\ [V3Next]_v3Vars
      BY <1>5, Steps DEF Proceeds, V3Next
    <2>2. /\ \A v \in Updaters : v # c => Idle(v)' = Idle(v)
          /\ Idle(c) => Idle(c)'
      BY <1>0, <1>5, OthersStay, OnlyCallsBegin DEF Proceeds, Idle
    <2>3. \A v \in Updaters : Uploads(v)' => Uploads(v)
      BY <1>5, <2>2 DEF Proceeds, Leaves, Uploads
    <2>4. CASE c \in Updaters /\ Idle(c)'
      <3>1. ~Idle(c)
        BY <1>5, OnlyCallsHandle DEF Proceeds
      <3>2. c \notin reading /\ reading' = reading
        BY <1>5, <3>1 DEF Proceeds, Leaves, TypeOK
      <3>3. \A v \in Updaters : ~Uploads(v)'
        BY <2>3, <2>4, <3>1, <3>2 DEF LockInv, Uploads
      <3> QED
        BY <1>5, <2>1, <2>2, <3>3 DEF Proceeds, Leaves, LockInv, TypeOK, V3Inv
    <2>5. CASE ~(c \in Updaters /\ Idle(c)')
      <3>1. UNCHANGED <<locked, reading, refused, loaded>>
        BY <1>5, <2>5 DEF Proceeds, Leaves, Idle, TypeOK
      <3> QED
        BY <2>1, <2>2, <2>3, <3>1 DEF LockInv, TypeOK, V3Inv
    <2> QED
      BY <2>4, <2>5
  <1>6. ASSUME NEW c \in Callers, Under(Network(c))
        PROVE  ServiceInv' /\ [V3Next]_v3Vars
    <2>1. V3Inv' /\ [V3Next]_v3Vars /\ UNCHANGED serviceVars
      BY <1>6, Steps DEF Under, V3Next
    <2>2. /\ \A v \in Updaters : v # c => Idle(v)' = Idle(v)
          /\ Idle(c) => Idle(c)'
      BY <1>0, <1>6, OthersStay, OnlyCallsBegin DEF Under, Idle
    <2> QED
      BY <2>1, <2>2 DEF serviceVars, LockInv, Uploads, TypeOK, V3Inv
  <1>7. CASE Under(Closes) \/ Reloads \/ UNCHANGED allVars
    <2>1. V3Inv' /\ [V3Next]_v3Vars
      BY <1>7, Steps DEF Under, Reloads, V3Next, allVars
    <2>2. UNCHANGED <<calls, reading, refused, locked>> /\ loaded' \in BOOLEAN
      BY <1>7 DEF Under, Closes, Reloads, allVars, v3Vars, serviceVars, TypeOK
    <2> QED
      BY <2>1, <2>2 DEF LockInv, Uploads, TypeOK, V3Inv, Idle
  <1> QED
    BY <1>1, <1>2, <1>3, <1>4, <1>5, <1>6, <1>7 DEF ServiceNext

\* For any number of callers, and however often the entry is unloaded and
\* loaded meanwhile, a bundle is under way under the entry's lock only, and one
\* at a time (_async_update_firmware).
THEOREM LockIsHeld == ServiceSpec => []UploadHoldsLock
  <1>1. ServiceInit => ServiceInv
    BY ServiceBegins
  <1>2. ServiceInv /\ [ServiceNext]_allVars => ServiceInv'
    BY ServiceSteps
  <1>3. ServiceInv => UploadHoldsLock
    BY DEF ServiceInv, LockInv, Uploads, UploadHoldsLock
  <1> QED
    BY <1>1, <1>2, <1>3, PTL DEF ServiceSpec

\* The service beside the writes of the step is a v3 client, and so nothing
\* that it or they ask of the miner is carried out twice.
THEOREM ServiceIsClient == ServiceSpec => V3Spec /\ CarriedAtMostOnce
  <1>1. ServiceInit => V3Init /\ ServiceInv
    BY ServiceBegins
  <1>2. ServiceInv /\ [ServiceNext]_allVars => ServiceInv' /\ [V3Next]_v3Vars
    BY ServiceSteps
  <1> QED
    BY <1>1, <1>2, ImplementsRemoteWrite, PTL DEF ServiceSpec, V3Spec
=============================================================================
