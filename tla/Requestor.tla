----------------------------- MODULE Requestor -----------------------------
(***************************************************************************)
(* The sizes cRequestor::doJob asks for: the settings give a range for     *)
(* requests and one for responses, which doJob draws from at random or     *)
(* sweeps through, and a byte limit of either direction makes it shorten   *)
(* the last messages and stop.  The sizes are C++ unsigned.  How a request *)
(* and its response travel is in Babbler.                                  *)
(***************************************************************************)
EXTENDS Integers, Sequences

CONSTANTS
  MinLen,     (* MIN_LEN, 32 in the code                                   *)
  HeaderSize, (* sizeof (cProtocolHeader), 24 in the code                  *)
  Word,       (* 2^32: the number of values of an unsigned                 *)
  Options,    (* values of --proto-settings: the numbers between commas    *)
  Limits      (* values of --send-bytes and --recv-bytes, 0 for no limit   *)

ASSUME RequestorAssumption ==
  /\ HeaderSize \in Nat \ {0} /\ MinLen \in Nat /\ HeaderSize < MinLen
  /\ Word \in Nat /\ 2 * MinLen < Word
  /\ Options \subseteq Seq(0 .. Word - 1)
  /\ Limits \subseteq Nat

VARIABLES
  settings,   (* m_comSettings                                             *)
  sendLimit, recvLimit,   (* m_sendLimitOctets, m_recvLimitOctets          *)
  req, resp,  (* m_currReqSize, m_currRespSize                             *)
  sent, received,         (* octets m_stats has counted in each direction  *)
  pc          (* between two jobs, in one, or after the last               *)

vars == <<settings, sendLimit, recvLimit, req, resp, sent, received, pc>>

Lesser(a, b) == IF a <= b THEN a ELSE b

(* The unsigned value of x, which is at most one word out of range.        *)
Unsigned(x) == IF x < 0 THEN x + Word ELSE IF x >= Word THEN x - Word ELSE x

(***************************************************************************)
(* cComSettings: the option as it was given is not checked any further, so *)
(* a range may be reversed.                                                *)
(***************************************************************************)

(* One or two numbers are for requests and responses alike.                *)
Parsed(v) ==
  IF Len(v) <= 2
  THEN [reqMin |-> v[1], reqMax |-> v[Len(v)], respMin |-> v[1], respMax |-> v[Len(v)],
        step |-> 0]
  ELSE [reqMin |-> v[1], reqMax |-> v[2], respMin |-> v[3], respMax |-> v[4],
        step |-> IF Len(v) = 5 THEN v[5] ELSE 0]

(* Mutation: the size of the responses is what is checked.                 *)
AcceptedByResponse(v) ==
  Len(v) \in {1, 2, 4, 5} /\ Parsed(v).respMin >= MinLen /\ Parsed(v).respMax >= MinLen

(* Three numbers always throw: the third is looked for in the fourth place.*)
Accepted(v) ==
  Len(v) \in {1, 2, 4, 5} /\ Parsed(v).reqMin >= MinLen /\ Parsed(v).reqMax >= MinLen

Settings == {Parsed(v) : v \in {o \in Options : Accepted(o)}}
-----------------------------------------------------------------------------
(***************************************************************************)
(* isLimitReached.                                                         *)
(***************************************************************************)

(* Mutation: the limit may just be reached.                                *)
ReachedLate(limit, done) == limit > 0 /\ done > limit

Reached(limit, done) == limit > 0 /\ done >= limit

(* Mutation: nothing is left over for a last message.                      *)
ShortenedToLimit(size, rest) == Lesser(size, rest)

(* As much as the limit still allows, but less when what is left over then *)
(* would be too small for a message.                                       *)
Shortened(size, rest) ==
  LET most == Lesser(size, rest)
  IN  IF rest - most < MinLen /\ most < rest
      THEN Unsigned(most - (MinLen - (rest - most)))
      ELSE most

(* Mutation: a size is not raised to a message's.                          *)
FittedSmall(size, limit, done) ==
  IF limit > 0 THEN Shortened(size, limit - done) ELSE size

(* The size of the next message of one direction.                          *)
Fitted(size, limit, done) ==
  IF limit = 0 THEN size
  ELSE LET shortened == Shortened(size, limit - done)
       IN  IF shortened < MinLen THEN MinLen ELSE shortened
-----------------------------------------------------------------------------
(* The BUG_ONs of sendRequest; no response at all may be asked for.        *)
TooSmall == req' < HeaderSize \/ resp' \in 1 .. HeaderSize - 1

(* Mutation: a request is fitted to the whole limit every time.            *)
StartIgnoresSent ==
  /\ pc = "ready"
  /\ ~Reached(sendLimit, sent)
  /\ ~Reached(recvLimit, received)
  /\ req'  = Fitted(req, sendLimit, 0)
  /\ resp' = Fitted(resp, recvLimit, received)
  /\ pc' = IF TooSmall THEN "bug" ELSE "job"
  /\ UNCHANGED <<settings, sendLimit, recvLimit, sent, received>>

(* doJob with no limit reached: the request is sent.                       *)
Start ==
  /\ pc = "ready"
  /\ ~Reached(sendLimit, sent)
  /\ ~Reached(recvLimit, received)
  /\ req'  = Fitted(req, sendLimit, sent)
  /\ resp' = Fitted(resp, recvLimit, received)
  /\ pc' = IF TooSmall THEN "bug" ELSE "job"
  /\ UNCHANGED <<settings, sendLimit, recvLimit, sent, received>>

(* Mutation: only the limit of the requests ends the jobs.                 *)
StopBySendLimit ==
  /\ pc = "ready"
  /\ Reached(sendLimit, sent)
  /\ UNCHANGED req
  /\ pc' = "limit"
  /\ UNCHANGED <<settings, sendLimit, recvLimit, resp, sent, received>>

(* doJob with a limit reached throws eventException; the request has been  *)
(* fitted when the limit is the one of the responses.                      *)
Stop ==
  /\ pc = "ready"
  /\ \/ Reached(sendLimit, sent) /\ UNCHANGED req
     \/ /\ ~Reached(sendLimit, sent)
        /\ Reached(recvLimit, received)
        /\ req' = Fitted(req, sendLimit, sent)
  /\ pc' = "limit"
  /\ UNCHANGED <<settings, sendLimit, recvLimit, resp, sent, received>>

isFixed == settings.reqMin = settings.reqMax /\ settings.respMin = settings.respMax

(* Mutation: the maximum is compared with the size before the step.        *)
SweptLate(size, min, max) ==
  IF size > max THEN min ELSE size + settings.step

(* The next size of a sweep.                                               *)
Swept(size, min, max) ==
  LET next == Unsigned(size + settings.step)
  IN  IF next > max THEN min ELSE next

(* A distribution from 0 to max - min is drawn from and added to min; when *)
(* max is below min it is almost every unsigned.                           *)
Drawn(min, max) == {Unsigned(min + d) : d \in 0 .. Unsigned(max - min)}

(* The sizes of the next job, before they are fitted.                      *)
Draw ==
  LET s == settings
  IN  IF isFixed
      THEN req' = s.reqMin /\ resp' = s.respMin
      ELSE IF s.step = 0
      THEN req' \in Drawn(s.reqMin, s.reqMax) /\ resp' \in Drawn(s.respMin, s.respMax)
      ELSE /\ req'  = Swept(req, s.reqMin, s.reqMax)
           /\ resp' = Swept(resp, s.respMin, s.respMax)

(* send() transmits nothing of a message that is only a header: of such a  *)
(* request, and of the answer to a request for such a response.            *)
Octets(size) == IF size = HeaderSize THEN 0 ELSE size

(* Then the response the client waits for never comes.                     *)
NeverAnswered == resp # 0 /\ HeaderSize \in {req, resp}

(* The request is sent and its response, if one is wanted, is received.    *)
Finish ==
  /\ pc = "job"
  /\ ~NeverAnswered
  /\ sent' = sent + Octets(req)
  /\ received' = received + resp
  /\ Draw
  /\ pc' = "ready"
  /\ UNCHANGED <<settings, sendLimit, recvLimit>>

(* The connection is lost or the client is cancelled on the way; what was  *)
(* transferred of the messages is counted.                                 *)
Break ==
  /\ pc = "job"
  /\ sent' \in sent .. sent + Octets(req)
  /\ received' \in received .. received + (IF NeverAnswered THEN 0 ELSE resp)
  /\ received' > received => sent' = sent + req
  /\ pc' = "broken"
  /\ UNCHANGED <<settings, sendLimit, recvLimit, req, resp>>

Over == pc \in {"limit", "broken", "bug"} /\ UNCHANGED vars
-----------------------------------------------------------------------------
Init ==
  /\ settings \in Settings
  /\ sendLimit \in Limits /\ recvLimit \in Limits
  /\ sendLimit + recvLimit > 0
  /\ req  = settings.reqMin
  /\ resp = settings.respMin
  /\ sent = 0 /\ received = 0
  /\ pc = "ready"

Next == Start \/ Stop \/ Finish \/ Break \/ Over

Spec == Init /\ [][Next]_vars

(* The thread runs and its responder answers what reaches it: over TCP a   *)
(* job whose messages have a payload ends (JobEnds of Babbler).            *)
FairSpec == Spec /\ WF_vars(Start \/ Stop \/ Finish)
-----------------------------------------------------------------------------
(***************************************************************************)
(* Properties.                                                             *)
(***************************************************************************)

(* Every variable holds a value of its type; the sizes fit in an unsigned. *)
TypeOK ==
  /\ settings \in Settings /\ sendLimit \in Limits /\ recvLimit \in Limits
  /\ req \in 0 .. Word - 1 /\ resp \in 0 .. Word - 1
  /\ sent \in Nat /\ received \in Nat
  /\ pc \in {"ready", "job", "limit", "broken", "bug"}

(* The requests have a range, and a sweep through it never reaches 2^32,   *)
(* where it would start again near 0.                                      *)
Unwrapped ==
  settings.reqMin <= settings.reqMax /\ settings.reqMax + settings.step < Word

(* The same for responses, all of them messages.                           *)
Replies ==
  /\ MinLen <= settings.respMin /\ settings.respMin <= settings.respMax
  /\ settings.respMax + settings.step < Word

(* No response is ever asked for.                                          *)
Silent == settings.respMin = 0 /\ settings.respMax = 0

(* The BUG_ONs of sendRequest (protocol.cpp:55, 58) fire only for settings *)
(* whose ranges are reversed, wrap around, or have responses too small for *)
(* a message: shortening for a limit never makes such a size of others.    *)
BugOnlyOnSizes == pc = "bug" => ~Unwrapped \/ ~(Replies \/ Silent)

(* A request is never too small for a message and never above its maximum, *)
(* and it is below its minimum only when less than its minimum and a       *)
(* smallest message remain to be sent: what a sweep goes on with after it  *)
(* was shortened is never below the minimum again.                         *)
RequestInRange ==
  pc = "job" /\ Unwrapped =>
    /\ req \in MinLen .. settings.reqMax
    /\ req < settings.reqMin => sendLimit - sent < settings.reqMin + MinLen

(* --send-bytes is overshot by less than a smallest message, even when it  *)
(* is smaller than that itself.                                            *)
SentWithin == sendLimit > 0 /\ Unwrapped => sent < sendLimit + MinLen

(* The limit and the settings leave room for a last message.               *)
RoomForLast ==
  Unwrapped /\ sendLimit >= MinLen /\ settings.reqMin >= 2 * MinLen - 1

(* Then the client stops after exactly the bytes it was told to send.      *)
StopsExactly ==
  RoomForLast /\ pc = "limit" /\ Reached(sendLimit, sent) => sent = sendLimit

(* --recv-bytes: "Stop after receiveing N bytes from the server", with the *)
(* allowance SentWithin grants the other direction.  Settings without      *)
(* responses do not keep it: there the limit makes the client ask for one, *)
(* and near the limit for one of almost 2^32 bytes (requestor.hpp:54).     *)
ReceivedWithin ==
  recvLimit > 0 /\ Replies => received < recvLimit + MinLen

(* A client with a limit stops, whichever limit it is and whatever sizes it*)
(* was told to use, unless a job asks for a response of only a header, or  *)
(* for any response with a request of only a header: such a size is never  *)
(* sent, and the client waits for ever (protocol.cpp:104).                 *)
LimitStops ==
  pc = "job" ~> pc \in {"limit", "broken", "bug"} \/ (pc = "job" /\ NeverAnswered)
-----------------------------------------------------------------------------
(***************************************************************************)
(* The inductive invariant: what is known of the request before it is      *)
(* fitted, and of what will be left of the limit when it is sent.          *)
(***************************************************************************)

Left == sendLimit - sent

(* The size doJob finds: it is below the minimum only after a sweep from a *)
(* shortened size.                                                         *)
DrawnInRange ==
  /\ req \in MinLen .. settings.reqMax
  /\ req < settings.reqMin => sendLimit > 0 /\ Left < settings.reqMin + MinLen

LimitKept ==
  /\ pc = "job" => req < Left + MinLen
  /\ pc # "job" => 0 < Left + MinLen

(* Before a message a whole one is left to send, and it is the last or the *)
(* next size can be cut to leave room for one.                             *)
RoomKept ==
  /\ pc = "ready" => Left >= 0
  /\ pc = "ready" /\ Left > 0 =>
       Left >= MinLen /\ (req >= 2 * MinLen - 1 \/ req >= Left)
  /\ pc = "job" =>
       \/ req = Left
       \/ Left - req >= MinLen /\ (req >= 2 * MinLen - 1 \/ Left - req = MinLen)

(* The same of the responses.                                              *)
RepliesKept ==
  /\ Replies /\ pc \in {"ready", "job"} => resp \in MinLen .. settings.respMax
  /\ Replies /\ recvLimit > 0 =>
       /\ pc = "job" => resp < recvLimit - received + MinLen
       /\ pc # "job" => 0 < recvLimit - received + MinLen
  /\ Silent /\ pc = "ready" => resp = 0

(* The inductive invariant the proofs use: types, the range of the sizes,  *)
(* what the next message leaves of the limit, and the exact stop.          *)
SizesInv ==
  /\ TypeOK
  /\ Unwrapped /\ pc \in {"ready", "job"} => DrawnInRange
  /\ Unwrapped /\ sendLimit > 0 => LimitKept
  /\ RoomForLast => RoomKept
  /\ StopsExactly
  /\ RepliesKept
  /\ BugOnlyOnSizes
=============================================================================
