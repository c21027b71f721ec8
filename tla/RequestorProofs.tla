-------------------------- MODULE RequestorProofs --------------------------
(***************************************************************************)
(* The size of every request and response and the two byte limits, for all *)
(* settings and limits: SizesInv of Requestor is inductive.                *)
(***************************************************************************)
EXTENDS Requestor, TLAPS

(* The constants are natural numbers, and a message fits in an unsigned.   *)
LEMMA ConstantTypes ==
  /\ MinLen \in Nat /\ HeaderSize \in Nat /\ Word \in Nat
  /\ HeaderSize < MinLen /\ 2 * MinLen < Word
BY RequestorAssumption

(* What the settings of a run are, field by field.                         *)
LEMMA SettingsType ==
  ASSUME settings \in Settings
  PROVE  /\ settings.reqMin \in MinLen .. Word - 1
         /\ settings.reqMax \in MinLen .. Word - 1
         /\ settings.respMin \in 0 .. Word - 1
         /\ settings.respMax \in 0 .. Word - 1
         /\ settings.step \in 0 .. Word - 1
<1>1. PICK v \in Options : Accepted(v) /\ settings = Parsed(v)
  BY DEF Settings
<1>2. v \in Seq(0 .. Word - 1) /\ Len(v) \in {1, 2, 4, 5}
  <2>1. v \in Seq(0 .. Word - 1)
    BY RequestorAssumption
  <2>2. Len(v) \in {1, 2, 4, 5}
    BY <1>1 DEF Accepted
  <2> QED
    BY <2>1, <2>2
<1>3. \A i \in 1 .. Len(v) : v[i] \in 0 .. Word - 1
  <2> DEFINE S == 0 .. Word - 1
  <2>1. v \in Seq(S)
    BY <1>2
  <2> HIDE DEF S
  <2>2. \A i \in 1 .. Len(v) : v[i] \in S
    BY <2>1
  <2> QED
    BY <2>2 DEF S
<1>4. CASE Len(v) <= 2
  <2>1. v[1] \in 0 .. Word - 1 /\ v[Len(v)] \in 0 .. Word - 1
    BY <1>2, <1>3, <1>4
  <2>2. settings = [reqMin |-> v[1], reqMax |-> v[Len(v)],
                    respMin |-> v[1], respMax |-> v[Len(v)], step |-> 0]
    BY <1>1, <1>4 DEF Parsed
  <2>3. settings.reqMin >= MinLen /\ settings.reqMax >= MinLen
    BY <1>1 DEF Accepted
  <2> QED
    BY <2>1, <2>2, <2>3, ConstantTypes
<1>5. CASE ~(Len(v) <= 2)
  <2>1. /\ v[1] \in 0 .. Word - 1 /\ v[2] \in 0 .. Word - 1
        /\ v[3] \in 0 .. Word - 1 /\ v[4] \in 0 .. Word - 1
        /\ Len(v) = 5 => v[5] \in 0 .. Word - 1
    BY <1>2, <1>3, <1>5
  <2>2. settings = [reqMin |-> v[1], reqMax |-> v[2], respMin |-> v[3], respMax |-> v[4],
                    step |-> IF Len(v) = 5 THEN v[5] ELSE 0]
    BY <1>1, <1>5 DEF Parsed
  <2>3. settings.reqMin >= MinLen /\ settings.reqMax >= MinLen
    BY <1>1 DEF Accepted
  <2> QED
    BY <2>1, <2>2, <2>3, ConstantTypes
<1> QED
  BY <1>4, <1>5

(* isLimitReached never makes a size of anything but an unsigned.          *)
LEMMA FittedType ==
  ASSUME NEW size \in 0 .. Word - 1, NEW limit \in Nat, NEW done \in Nat,
         ~Reached(limit, done)
  PROVE  Fitted(size, limit, done) \in 0 .. Word - 1
<1> USE ConstantTypes
<1>1. CASE limit = 0
  BY <1>1 DEF Fitted
<1>2. CASE limit > 0
  <2> DEFINE rest == limit - done
             most == Lesser(size, rest)
  <2>1. rest \in Nat /\ rest > 0
    BY <1>2 DEF Reached
  <2>2. most \in 0 .. Word - 1 /\ most <= rest
    BY <2>1 DEF Lesser
  <2>3. Shortened(size, rest) \in 0 .. Word - 1
    <3> HIDE DEF rest, most
    <3>1. CASE rest - most < MinLen /\ most < rest
      <4>1. most - (MinLen - (rest - most)) \in Int
        BY <2>1, <2>2
      <4>2. /\ most - (MinLen - (rest - most)) < Word
            /\ most - (MinLen - (rest - most)) + Word >= 0
        BY <2>1, <2>2, <3>1
      <4>3. Shortened(size, rest) = Unsigned(most - (MinLen - (rest - most)))
        BY <3>1 DEF Shortened, most
      <4> QED
        BY <4>1, <4>2, <4>3 DEF Unsigned
    <3>2. CASE ~(rest - most < MinLen /\ most < rest)
      BY <2>2, <3>2 DEF Shortened, most
    <3> QED
      BY <3>1, <3>2
  <2> HIDE DEF rest
  <2>4. Fitted(size, limit, done) =
          IF Shortened(size, rest) < MinLen THEN MinLen ELSE Shortened(size, rest)
    BY <1>2 DEF Fitted, rest
  <2> QED
    BY <2>3, <2>4
<1> QED
  BY <1>1, <1>2

(* A size that is a message's stays one, and is cut so that what is left   *)
(* over is nothing, less than what it was raised by, or a message.         *)
LEMMA FittedRange ==
  ASSUME NEW size \in MinLen .. Word - 1, NEW limit \in Nat, NEW done \in Nat,
         limit > 0, ~Reached(limit, done)
  PROVE  LET f == Fitted(size, limit, done)
             rest == limit - done
         IN  /\ f \in Int
             /\ MinLen <= f /\ f <= size
             /\ f < rest + MinLen
             /\ f < size => rest <= f + MinLen
             /\ rest >= MinLen =>
                  \/ f = rest
                  \/ f = size /\ rest - f >= MinLen
                  \/ size < 2 * MinLen - 1 /\ size < rest
                  \/ rest - f = MinLen
<1> USE ConstantTypes
<1> DEFINE rest == limit - done
           most == Lesser(size, rest)
           cut  == most - (MinLen - (rest - most))
<1>1. rest \in Nat /\ rest > 0
  BY DEF Reached
<1>2. /\ most \in Nat /\ most <= size /\ most <= rest
      /\ most = size \/ most = rest
  BY <1>1 DEF Lesser
<1>3. Fitted(size, limit, done) =
        IF Shortened(size, rest) < MinLen THEN MinLen ELSE Shortened(size, rest)
  BY DEF Fitted
<1>4. CASE rest - most < MinLen /\ most < rest
  <2>1. most = size
    BY <1>2, <1>4
  <2>2. Shortened(size, rest) = Unsigned(cut)
    BY <1>4 DEF Shortened
  <2> HIDE DEF rest, most
  <2>3. /\ cut \in Nat /\ cut < most
        /\ cut = rest - MinLen
        /\ size >= 2 * MinLen - 1 => cut >= MinLen
    BY <1>1, <1>2, <1>4, <2>1
  <2> HIDE DEF cut
  <2>4. Unsigned(cut) \in Nat /\ Unsigned(cut) <= cut
    BY <2>3 DEF Unsigned
  <2>5. cut < Word => Unsigned(cut) = cut
    BY <2>3 DEF Unsigned
  <2> QED
    BY <1>1, <1>2, <1>3, <1>4, <2>1, <2>2, <2>3, <2>4, <2>5 DEF rest
<1>5. CASE ~(rest - most < MinLen /\ most < rest)
  <2>1. Shortened(size, rest) = most
    BY <1>5 DEF Shortened
  <2> HIDE DEF most
  <2> QED
    BY <1>1, <1>2, <1>3, <1>5, <2>1
<1> QED
  BY <1>4, <1>5

(* What is sent of a message is nothing or all of it.                      *)
LEMMA OctetsFacts ==
  ASSUME NEW size \in Nat
  PROVE  /\ Octets(size) \in Nat /\ Octets(size) <= size
         /\ size >= MinLen => Octets(size) = size
BY ConstantTypes DEF Octets

(* A sweep goes from unsigned to unsigned.                                 *)
LEMMA SweptType ==
  ASSUME NEW size \in 0 .. Word - 1, NEW min \in 0 .. Word - 1,
         NEW max \in 0 .. Word - 1, settings.step \in 0 .. Word - 1
  PROVE  Swept(size, min, max) \in 0 .. Word - 1
BY ConstantTypes DEF Swept, Unsigned

(* A number drawn at random is an unsigned, and in the range if it has one.*)
LEMMA DrawnType ==
  ASSUME NEW min \in 0 .. Word - 1, NEW max \in 0 .. Word - 1,
         NEW size \in Drawn(min, max)
  PROVE  size \in 0 .. Word - 1 /\ (min <= max => size \in min .. max)
<1>1. PICK d \in 0 .. Unsigned(max - min) : size = Unsigned(min + d)
  BY DEF Drawn
<1>2. Unsigned(max - min) \in 0 .. Word - 1 /\ (min <= max => Unsigned(max - min) = max - min)
  BY ConstantTypes DEF Unsigned
<1> HIDE DEF Unsigned
<1>3. d \in 0 .. Word - 1 /\ (min <= max => min + d <= max)
  BY <1>1, <1>2, ConstantTypes
<1> QED
  BY <1>1, <1>3, ConstantTypes DEF Unsigned

(* The sizes of the next job, in a range that is one: at least the minimum,*)
(* or larger than the last by a step when that was shortened.              *)
LEMMA DrawRange ==
  ASSUME TypeOK, Draw
  PROVE  /\ req' \in 0 .. Word - 1 /\ resp' \in 0 .. Word - 1
         /\ Unwrapped /\ DrawnInRange =>
              /\ req' \in MinLen .. settings.reqMax
              /\ req' >= settings.reqMin \/ req' >= req
         /\ Replies /\ resp \in MinLen .. settings.respMax =>
              resp' \in MinLen .. settings.respMax
         /\ Silent => resp' = 0
<1> USE ConstantTypes
<1>0. /\ req \in 0 .. Word - 1 /\ resp \in 0 .. Word - 1
      /\ settings.reqMin \in 0 .. Word - 1 /\ settings.reqMin >= MinLen
      /\ settings.reqMax \in 0 .. Word - 1
      /\ settings.respMin \in 0 .. Word - 1
      /\ settings.respMax \in 0 .. Word - 1
      /\ settings.step \in 0 .. Word - 1
  <2>1. settings \in Settings
    BY DEF TypeOK
  <2> QED
    BY <2>1, SettingsType DEF TypeOK
<1>1. CASE isFixed
  BY <1>0, <1>1 DEF Draw, isFixed, Unwrapped, Replies, Silent
<1>2. CASE ~isFixed /\ settings.step = 0
  <2>1. /\ req' \in Drawn(settings.reqMin, settings.reqMax)
        /\ resp' \in Drawn(settings.respMin, settings.respMax)
    BY <1>2 DEF Draw
  <2>2. /\ req' \in 0 .. Word - 1
        /\ settings.reqMin <= settings.reqMax =>
             req' \in settings.reqMin .. settings.reqMax
    BY <1>0, <2>1, DrawnType
  <2>3. /\ resp' \in 0 .. Word - 1
        /\ settings.respMin <= settings.respMax =>
             resp' \in settings.respMin .. settings.respMax
    BY <1>0, <2>1, DrawnType
  <2> QED
    BY <1>0, <2>2, <2>3 DEF Unwrapped, Replies, Silent
<1>3. CASE ~isFixed /\ settings.step # 0
  <2>1. /\ req'  = Swept(req, settings.reqMin, settings.reqMax)
        /\ resp' = Swept(resp, settings.respMin, settings.respMax)
    BY <1>3 DEF Draw
  <2>2. req' \in 0 .. Word - 1 /\ resp' \in 0 .. Word - 1
    <3>1. Swept(req, settings.reqMin, settings.reqMax) \in 0 .. Word - 1
      BY <1>0, SweptType
    <3>2. Swept(resp, settings.respMin, settings.respMax) \in 0 .. Word - 1
      BY <1>0, SweptType
    <3> QED
      BY <2>1, <3>1, <3>2
  <2>3. ASSUME Unwrapped, DrawnInRange
        PROVE  /\ req' \in MinLen .. settings.reqMax
               /\ req' >= settings.reqMin \/ req' >= req
    BY <1>0, <2>1, <2>3 DEF Unwrapped, DrawnInRange, Swept, Unsigned
  <2>4. ASSUME Replies, resp \in MinLen .. settings.respMax
        PROVE  resp' \in MinLen .. settings.respMax
    BY <1>0, <2>1, <2>4 DEF Replies, Swept, Unsigned
  <2>5. ASSUME Silent PROVE resp' = 0
    BY <1>0, <2>1, <2>2, <2>5 DEF Silent, Swept, Unsigned
  <2> QED
    BY <2>2, <2>3, <2>4, <2>5
<1> QED
  BY <1>1, <1>2, <1>3
-----------------------------------------------------------------------------
(***************************************************************************)
(* What is known of the responses, action by action.                       *)
(***************************************************************************)

(* The settings never change, and with them what is known of a run.        *)
LEMMA SameSettings ==
  ASSUME settings' = settings
  PROVE  /\ (Replies' <=> Replies) /\ (Silent' <=> Silent)
         /\ (Unwrapped' <=> Unwrapped)
BY DEF Replies, Silent, Unwrapped

(* A response that is asked for is fitted as a request is.                 *)
LEMMA StartReplies ==
  ASSUME SizesInv, Start
  PROVE  RepliesKept' /\ BugOnlyOnSizes'
<1> USE ConstantTypes DEF Start
<1>0. /\ TypeOK /\ sendLimit \in Nat /\ recvLimit \in Nat
      /\ sent \in Nat /\ received \in Nat
      /\ req \in 0 .. Word - 1 /\ resp \in 0 .. Word - 1
      /\ settings \in Settings
  BY RequestorAssumption DEF SizesInv, TypeOK
<1>1. /\ (Replies' <=> Replies) /\ (Silent' <=> Silent) /\ (Unwrapped' <=> Unwrapped)
  BY SameSettings
<1>2. req' = Fitted(req, sendLimit, sent) /\ resp' = Fitted(resp, recvLimit, received)
  OBVIOUS
<1>3. ASSUME Replies
      PROVE  /\ resp' \in MinLen .. settings.respMax
             /\ recvLimit > 0 => resp' < recvLimit - received + MinLen
  <2>1. resp \in MinLen .. settings.respMax /\ settings.respMax \in 0 .. Word - 1
    BY <1>0, <1>3, SettingsType DEF SizesInv, RepliesKept
  <2>2. CASE recvLimit = 0
    BY <1>2, <2>1, <2>2 DEF Fitted
  <2>3. CASE recvLimit > 0
    <3>1. resp \in MinLen .. Word - 1 /\ ~Reached(recvLimit, received)
      BY <2>1
    <3>2. /\ resp' \in Int /\ MinLen <= resp' /\ resp' <= resp
          /\ resp' < recvLimit - received + MinLen
      BY <1>0, <1>2, <2>3, <3>1, FittedRange
    <3> QED
      BY <2>1, <3>2
  <2> QED
    BY <1>0, <2>2, <2>3
<1>4. ASSUME Silent PROVE resp' = 0 \/ resp' >= MinLen
  <2>1. resp = 0
    BY <1>4 DEF SizesInv, RepliesKept
  <2>2. CASE recvLimit = 0
    BY <1>2, <2>1, <2>2 DEF Fitted
  <2>3. CASE recvLimit > 0
    <3>1. resp' = IF Shortened(resp, recvLimit - received) < MinLen THEN MinLen
                  ELSE Shortened(resp, recvLimit - received)
      BY <1>2, <2>3 DEF Fitted
    <3>2. resp' \in 0 .. Word - 1
      BY <1>0, <1>2, FittedType
    <3>3. CASE Shortened(resp, recvLimit - received) < MinLen
      BY <3>1, <3>3
    <3>4. CASE ~(Shortened(resp, recvLimit - received) < MinLen)
      <4>1. resp' = Shortened(resp, recvLimit - received)
        BY <3>1, <3>4
      <4> QED
        BY <3>2, <3>4, <4>1
    <3> QED
      BY <3>3, <3>4
  <2> QED
    BY <1>0, <2>2, <2>3
<1>5. RepliesKept'
  <2>1. Replies /\ recvLimit > 0 => 0 < recvLimit - received + MinLen
    BY DEF SizesInv, RepliesKept
  <2>2. /\ pc' \in {"bug", "job"}
        /\ recvLimit' = recvLimit /\ received' = received /\ settings' = settings
    OBVIOUS
  <2> QED
    BY <1>1, <1>3, <2>1, <2>2 DEF RepliesKept
<1>6. BugOnlyOnSizes'
  <2> SUFFICES ASSUME Unwrapped, Replies \/ Silent PROVE ~TooSmall
    BY <1>1 DEF BugOnlyOnSizes
  <2>1. req' >= HeaderSize /\ req' \in Int
    <3>1. req \in MinLen .. Word - 1
      BY <1>0 DEF SizesInv, DrawnInRange
    <3>2. CASE sendLimit = 0
      BY <1>2, <3>1, <3>2 DEF Fitted
    <3>3. CASE sendLimit > 0
      <4>1. req' \in Int /\ MinLen <= req'
        BY <1>0, <1>2, <3>1, <3>3, FittedRange
      <4> QED
        BY <4>1
    <3> QED
      BY <1>0, <3>2, <3>3
  <2>2. resp' = 0 \/ resp' >= MinLen
    BY <1>3, <1>4
  <2> QED
    BY <2>1, <2>2 DEF TooSmall
<1> QED
  BY <1>5, <1>6

(* A response that came is counted, and the next size is drawn.            *)
LEMMA FinishReplies ==
  ASSUME SizesInv, Finish
  PROVE  RepliesKept' /\ BugOnlyOnSizes'
<1> USE ConstantTypes DEF Finish
<1>0. /\ TypeOK /\ recvLimit \in Nat /\ received \in Nat /\ resp \in 0 .. Word - 1
  BY RequestorAssumption DEF SizesInv, TypeOK
<1>1. /\ (Replies' <=> Replies) /\ (Silent' <=> Silent) /\ (Unwrapped' <=> Unwrapped)
  BY SameSettings
<1>2. /\ Replies /\ resp \in MinLen .. settings.respMax =>
           resp' \in MinLen .. settings.respMax
      /\ Silent => resp' = 0
  BY <1>0, DrawRange
<1>3. Replies => resp' \in MinLen .. settings.respMax
  BY <1>2 DEF SizesInv, RepliesKept
<1>4. Replies /\ recvLimit > 0 => 0 < recvLimit' - received' + MinLen
  <2>1. Replies /\ recvLimit > 0 => resp < recvLimit - received + MinLen
    BY DEF SizesInv, RepliesKept
  <2>2. received' = received + resp /\ recvLimit' = recvLimit
    OBVIOUS
  <2> QED
    BY <1>0, <2>1, <2>2
<1>5. pc' = "ready" /\ recvLimit' = recvLimit /\ settings' = settings
  OBVIOUS
<1> QED
  BY <1>1, <1>2, <1>3, <1>4, <1>5 DEF RepliesKept, BugOnlyOnSizes

(* A client that stops counts nothing any more.                            *)
LEMMA StopReplies ==
  ASSUME SizesInv, Stop
  PROVE  RepliesKept' /\ BugOnlyOnSizes'
<1> USE DEF Stop
<1>1. /\ (Replies' <=> Replies) /\ (Silent' <=> Silent) /\ (Unwrapped' <=> Unwrapped)
  BY SameSettings
<1>2. Replies /\ recvLimit > 0 => 0 < recvLimit - received + MinLen
  BY DEF SizesInv, RepliesKept
<1>3. /\ pc' = "limit" /\ recvLimit' = recvLimit /\ received' = received
  OBVIOUS
<1> QED
  BY <1>1, <1>2, <1>3 DEF RepliesKept, BugOnlyOnSizes

(* A job that breaks off has received no more than its response.           *)
LEMMA BreakReplies ==
  ASSUME SizesInv, Break
  PROVE  RepliesKept' /\ BugOnlyOnSizes'
<1> USE ConstantTypes DEF Break
<1>0. /\ recvLimit \in Nat /\ received \in Nat /\ resp \in 0 .. Word - 1
  BY RequestorAssumption DEF SizesInv, TypeOK
<1>1. /\ (Replies' <=> Replies) /\ (Silent' <=> Silent) /\ (Unwrapped' <=> Unwrapped)
  BY SameSettings
<1>2. ASSUME Replies, recvLimit > 0 PROVE 0 < recvLimit - received' + MinLen
  <2>1. resp < recvLimit - received + MinLen
    BY <1>2 DEF SizesInv, RepliesKept
  <2>2. /\ received' \in Int /\ received' <= received + resp
        /\ recvLimit \in Int /\ received \in Int /\ resp \in Int /\ MinLen \in Int
    BY <1>0
  <2>3. \A l, t, r, c, m \in Int : t <= c + r /\ r < l - c + m => 0 < l - t + m
    OBVIOUS
  <2> QED
    BY <2>1, <2>2, <2>3
<1>3. pc' = "broken" /\ recvLimit' = recvLimit
  OBVIOUS
<1> QED
  BY <1>1, <1>2, <1>3 DEF RepliesKept, BugOnlyOnSizes
-----------------------------------------------------------------------------
(* Before the first job the sizes are the minima and nothing was sent.     *)
LEMMA InitInvariant == Init => SizesInv
<1> SUFFICES ASSUME Init PROVE SizesInv
  OBVIOUS
<1> USE ConstantTypes DEF Init
<1>0. settings.reqMin \in MinLen .. Word - 1 /\ settings.reqMax \in MinLen .. Word - 1
      /\ settings.respMin \in 0 .. Word - 1 /\ settings.respMax \in 0 .. Word - 1
      /\ sendLimit \in Nat /\ recvLimit \in Nat
  BY RequestorAssumption, SettingsType
<1>1. TypeOK
  BY <1>0 DEF TypeOK
<1>2. Unwrapped => DrawnInRange
  BY <1>0 DEF DrawnInRange, Unwrapped
<1>3. sendLimit > 0 => LimitKept
  BY <1>0 DEF LimitKept, Left
<1>4. RoomForLast => RoomKept
  BY <1>0 DEF RoomForLast, RoomKept, Left
<1>5. StopsExactly
  BY DEF StopsExactly
<1>6. RepliesKept
  BY <1>0 DEF RepliesKept, Replies, Silent
<1>7. BugOnlyOnSizes
  BY DEF BugOnlyOnSizes
<1> QED
  BY <1>1, <1>2, <1>3, <1>4, <1>5, <1>6, <1>7 DEF SizesInv

(* A job starts: its request leaves what FittedRange says of the limit.    *)
LEMMA StartInvariant == ASSUME SizesInv, Start PROVE SizesInv'
<1> USE ConstantTypes DEF Start
<1>0. /\ TypeOK /\ sendLimit \in Nat /\ recvLimit \in Nat
      /\ sent \in Nat /\ received \in Nat /\ Left \in Int
      /\ req \in 0 .. Word - 1 /\ resp \in 0 .. Word - 1
  BY RequestorAssumption DEF SizesInv, TypeOK, Left
<1>1. TypeOK'
  <2>1. req' \in 0 .. Word - 1
    BY <1>0, FittedType DEF TypeOK
  <2>2. resp' \in 0 .. Word - 1
    BY <1>0, FittedType DEF TypeOK
  <2> QED
    BY <1>0, <2>1, <2>2 DEF TypeOK
<1>2. Left' = Left /\ (Unwrapped' <=> Unwrapped) /\ (RoomForLast' <=> RoomForLast)
  BY DEF Left, Unwrapped, RoomForLast
<1> HIDE DEF Start
<1>7. RepliesKept' /\ BugOnlyOnSizes'
  BY StartReplies
<1> USE DEF Start
<1>3. CASE sendLimit = 0
  <2>1. req' = req
    BY <1>3 DEF Fitted
  <2>2. Unwrapped => DrawnInRange'
    BY <1>2, <2>1 DEF SizesInv, DrawnInRange
  <2>3. ~RoomForLast
    BY <1>3 DEF RoomForLast
  <2> QED
    BY <1>1, <1>2, <1>3, <1>7, <2>2, <2>3 DEF SizesInv, StopsExactly
<1>4. CASE sendLimit > 0 /\ Unwrapped
  <2>1. DrawnInRange /\ req \in MinLen .. Word - 1
    BY <1>0, <1>4 DEF SizesInv, DrawnInRange, TypeOK
  <2>2. /\ req' \in Int /\ MinLen <= req' /\ req' <= req
        /\ req' < Left + MinLen
        /\ req' < req => Left <= req' + MinLen
        /\ Left >= MinLen =>
             \/ req' = Left
             \/ req' = req /\ Left - req' >= MinLen
             \/ req < 2 * MinLen - 1 /\ req < Left
             \/ Left - req' = MinLen
    <3>1. req' = Fitted(req, sendLimit, sent) /\ ~Reached(sendLimit, sent)
      OBVIOUS
    <3> QED
      BY <1>0, <1>4, <2>1, <3>1, FittedRange DEF Left
  <2>3. settings.reqMin \in Nat /\ settings.reqMax \in Nat
    <3>1. settings \in Settings
      BY <1>0 DEF TypeOK
    <3> QED
      BY <3>1, SettingsType
  <2>4. DrawnInRange'
    BY <1>0, <1>2, <1>4, <2>1, <2>2, <2>3 DEF DrawnInRange
  <2>5. LimitKept'
    <3>1. pc' # "job" => 0 < Left + MinLen
      BY <1>0, <1>4 DEF SizesInv, LimitKept
    <3> QED
      BY <1>2, <2>2, <3>1 DEF LimitKept
  <2>6. RoomForLast => RoomKept'
    <3> SUFFICES ASSUME RoomForLast PROVE RoomKept'
      OBVIOUS
    <3>1. Left > 0
      BY <1>0, <1>4 DEF Reached, Left
    <3>2. Left >= MinLen /\ (req >= 2 * MinLen - 1 \/ req >= Left)
      BY <3>1 DEF SizesInv, RoomKept
    <3>3. \/ req' = Left
          \/ Left - req' >= MinLen /\ (req' >= 2 * MinLen - 1 \/ Left - req' = MinLen)
      BY <1>0, <2>1, <2>2, <3>2
    <3>4. pc' # "ready"
      OBVIOUS
    <3> QED
      BY <1>2, <3>3, <3>4 DEF RoomKept
  <2> QED
    BY <1>1, <1>2, <1>4, <1>7, <2>4, <2>5, <2>6 DEF SizesInv, StopsExactly
<1>5. CASE ~Unwrapped
  BY <1>1, <1>2, <1>5, <1>7 DEF SizesInv, RoomForLast, StopsExactly
<1> QED
  BY <1>0, <1>3, <1>4, <1>5

(* A job is finished: what was left of the limit without the request is    *)
(* left now, and the next size is drawn.                                   *)
LEMMA FinishInvariant == ASSUME SizesInv, Finish PROVE SizesInv'
<1> USE ConstantTypes DEF Finish
<1>0. /\ TypeOK /\ sendLimit \in Nat /\ sent \in Nat /\ received \in Nat
      /\ req \in 0 .. Word - 1 /\ resp \in 0 .. Word - 1 /\ Left \in Int
      /\ settings.reqMin \in Nat
  <2>1. settings \in Settings
    BY DEF SizesInv, TypeOK
  <2> QED
    BY <2>1, RequestorAssumption, SettingsType DEF SizesInv, TypeOK, Left
<1>1. /\ req' \in 0 .. Word - 1 /\ resp' \in 0 .. Word - 1
      /\ Unwrapped /\ DrawnInRange =>
           /\ req' \in MinLen .. settings.reqMax
           /\ req' >= settings.reqMin \/ req' >= req
  BY <1>0, DrawRange
<1>2. TypeOK'
  <2>1. sent' \in Nat /\ received' \in Nat
    BY <1>0, OctetsFacts
  <2> QED
    BY <1>0, <1>1, <2>1 DEF TypeOK
<1>3. (Unwrapped' <=> Unwrapped) /\ (RoomForLast' <=> RoomForLast)
  BY DEF Unwrapped, RoomForLast
<1>8. ASSUME Unwrapped PROVE Left' = Left - req
  <2>1. req \in Nat /\ req >= MinLen
    BY <1>0, <1>8 DEF SizesInv, DrawnInRange
  <2>2. sent' = sent + req /\ sendLimit' = sendLimit
    BY <2>1, OctetsFacts
  <2> QED
    BY <1>0, <2>1, <2>2 DEF Left
<1>4. ASSUME Unwrapped PROVE DrawnInRange'
  BY <1>0, <1>1, <1>3, <1>4, <1>8 DEF SizesInv, DrawnInRange
<1>5. ASSUME Unwrapped, sendLimit > 0 PROVE LimitKept'
  BY <1>0, <1>3, <1>5, <1>8 DEF SizesInv, LimitKept
<1>6. ASSUME RoomForLast PROVE RoomKept'
  <2>1. Unwrapped
    BY <1>6 DEF RoomForLast
  <2>2. req' >= MinLen /\ (req' >= settings.reqMin \/ req' >= req)
    BY <1>0, <1>1, <2>1 DEF SizesInv
  <2>3. settings.reqMin >= 2 * MinLen - 1
    BY <1>6 DEF RoomForLast
  <2>4. \/ req = Left
        \/ Left - req >= MinLen /\ (req >= 2 * MinLen - 1 \/ Left - req = MinLen)
    BY <1>6 DEF SizesInv, RoomKept
  <2>5. Left' >= 0
    BY <1>0, <1>8, <2>1, <2>4
  <2>6. Left' > 0 => Left' >= MinLen /\ (req' >= 2 * MinLen - 1 \/ req' >= Left')
    BY <1>0, <1>1, <1>8, <2>1, <2>2, <2>3, <2>4
  <2> QED
    BY <2>5, <2>6 DEF RoomKept
<1> HIDE DEF Finish
<1>7. RepliesKept' /\ BugOnlyOnSizes'
  BY FinishReplies
<1> USE DEF Finish
<1> QED
  BY <1>2, <1>3, <1>4, <1>5, <1>6, <1>7 DEF SizesInv, StopsExactly

(* A limit is reached: with room for a last message nothing of it is left. *)
LEMMA StopInvariant == ASSUME SizesInv, Stop PROVE SizesInv'
<1> USE ConstantTypes DEF Stop
<1>0. /\ TypeOK /\ sendLimit \in Nat /\ sent \in Nat
      /\ req \in 0 .. Word - 1 /\ Left \in Int
  BY RequestorAssumption DEF SizesInv, TypeOK, Left
<1>1. TypeOK'
  <2>1. req' \in 0 .. Word - 1
    BY <1>0, FittedType
  <2> QED
    BY <1>0, <2>1 DEF TypeOK
<1>2. Left' = Left /\ (Unwrapped' <=> Unwrapped) /\ (RoomForLast' <=> RoomForLast)
  BY DEF Left, Unwrapped, RoomForLast
<1>3. Unwrapped /\ sendLimit > 0 => LimitKept'
  BY <1>2 DEF SizesInv, LimitKept
<1>4. RoomForLast => RoomKept'
  BY <1>2 DEF RoomKept
<1>5. StopsExactly'
  <2> SUFFICES ASSUME RoomForLast, Reached(sendLimit, sent) PROVE sent = sendLimit
    BY <1>2 DEF StopsExactly, Reached
  <2>1. Left >= 0
    BY DEF SizesInv, RoomKept
  <2>2. sent >= sendLimit
    BY DEF Reached
  <2> QED
    BY <1>0, <2>1, <2>2 DEF Left
<1> HIDE DEF Stop
<1>7. RepliesKept' /\ BugOnlyOnSizes'
  BY StopReplies
<1> USE DEF Stop
<1> QED
  BY <1>1, <1>2, <1>3, <1>4, <1>5, <1>7 DEF SizesInv

(* A job breaks off: no more than its request was sent.                    *)
LEMMA BreakInvariant == ASSUME SizesInv, Break PROVE SizesInv'
<1> USE ConstantTypes DEF Break
<1>0. /\ TypeOK /\ sendLimit \in Nat /\ sent \in Nat /\ received \in Nat
      /\ req \in 0 .. Word - 1 /\ resp \in 0 .. Word - 1 /\ Left \in Int
  BY RequestorAssumption DEF SizesInv, TypeOK, Left
<1>1. TypeOK'
  <2>1. sent' \in Nat /\ received' \in Nat
    BY <1>0, OctetsFacts
  <2> QED
    BY <1>0, <2>1 DEF TypeOK
<1>2. (Unwrapped' <=> Unwrapped) /\ (RoomForLast' <=> RoomForLast)
  BY DEF Unwrapped, RoomForLast
<1>3. ASSUME Unwrapped, sendLimit > 0 PROVE LimitKept'
  <2>1. sent' \in Int /\ sent' <= sent + req /\ sendLimit' = sendLimit
    BY <1>0, OctetsFacts
  <2>2. req < sendLimit - sent + MinLen
    BY <1>3 DEF SizesInv, LimitKept, Left
  <2>3. pc' # "job"
    OBVIOUS
  <2> HIDE DEF Break
  <2>4. 0 < sendLimit - sent' + MinLen
    <3>1. /\ sendLimit \in Int /\ sent \in Int /\ sent' \in Int /\ req \in Int
          /\ MinLen \in Int
      BY <1>0, <2>1
    <3>2. \A l, s, t, r, m \in Int :
            t <= s + r /\ r < l - s + m => 0 < l - t + m
      OBVIOUS
    <3> QED
      BY <2>1, <2>2, <3>1, <3>2
  <2> QED
    BY <2>1, <2>3, <2>4 DEF LimitKept, Left
<1>4. RoomForLast => RoomKept'
  BY DEF RoomKept
<1> HIDE DEF Break
<1>7. RepliesKept' /\ BugOnlyOnSizes'
  BY BreakReplies
<1> USE DEF Break
<1> QED
  BY <1>1, <1>2, <1>3, <1>4, <1>7 DEF SizesInv, StopsExactly

(* Every step keeps the invariant.                                         *)
LEMMA NextInvariant == SizesInv /\ [Next]_vars => SizesInv'
<1> SUFFICES ASSUME SizesInv, [Next]_vars PROVE SizesInv'
  OBVIOUS
<1>1. CASE Start
  BY <1>1, StartInvariant
<1>2. CASE Stop
  BY <1>2, StopInvariant
<1>3. CASE Finish
  BY <1>3, FinishInvariant
<1>4. CASE Break
  BY <1>4, BreakInvariant
<1>5. CASE UNCHANGED vars
  BY <1>5 DEF vars, SizesInv, TypeOK, Unwrapped, DrawnInRange, LimitKept,
    RoomForLast, RoomKept, StopsExactly, Left, Reached, RepliesKept, Replies,
    Silent, BugOnlyOnSizes
<1> QED
  BY <1>1, <1>2, <1>3, <1>4, <1>5 DEF Next, Over
-----------------------------------------------------------------------------
(* The inductive invariant of the sizes and the send limit.                *)
THEOREM Invariant == Spec => []SizesInv
<1>1. Init => SizesInv
  BY InitInvariant
<1>2. SizesInv /\ [Next]_vars => SizesInv'
  BY NextInvariant
<1> QED
  BY <1>1, <1>2, PTL DEF Spec

(* Sizes stay within an unsigned, with every setting and limit.            *)
THEOREM TypeCorrect == Spec => []TypeOK
<1>1. SizesInv => TypeOK
  BY DEF SizesInv
<1> QED
  BY <1>1, Invariant, PTL

(* A request is always a message, at most the maximum of the settings, and *)
(* below their minimum only at the end of the limit.                       *)
THEOREM RequestsInRange == Spec => []RequestInRange
<1>1. SizesInv => RequestInRange
  BY DEF SizesInv, RequestInRange, DrawnInRange, Left
<1> QED
  BY <1>1, Invariant, PTL

(* The client sends less than one smallest message more than --send-bytes. *)
THEOREM SendLimitKept == Spec => []SentWithin
<1>1. SizesInv => SentWithin
  <2> SUFFICES ASSUME SizesInv, sendLimit > 0, Unwrapped
               PROVE  sent < sendLimit + MinLen
    BY DEF SentWithin
  <2>1. /\ sendLimit \in Nat /\ sent \in Nat /\ req \in Nat /\ Left \in Int
        /\ req \in 0 .. Word - 1
    BY RequestorAssumption DEF SizesInv, TypeOK, Left
  <2>2. pc = "job" => req >= MinLen
    BY <2>1, ConstantTypes DEF SizesInv, DrawnInRange
  <2>3. LimitKept
    BY DEF SizesInv
  <2>4. 0 < Left + MinLen
    BY <2>1, <2>3, ConstantTypes DEF LimitKept
  <2> QED
    BY <2>1, <2>4, ConstantTypes DEF Left
<1> QED
  BY <1>1, Invariant, PTL

(* With requests of at least 63 bytes and a limit of at least 32 the       *)
(* client that stops at its limit has sent exactly that many.              *)
THEOREM SendLimitExact == Spec => []StopsExactly
<1>1. SizesInv => StopsExactly
  BY DEF SizesInv
<1> QED
  BY <1>1, Invariant, PTL

(* With responses that are messages the client receives less than one      *)
(* smallest message more than --recv-bytes.                                *)
THEOREM RecvLimitKept == Spec => []ReceivedWithin
<1>1. SizesInv => ReceivedWithin
  <2> SUFFICES ASSUME SizesInv, recvLimit > 0, Replies
               PROVE  received < recvLimit + MinLen
    BY DEF ReceivedWithin
  <2>1. recvLimit \in Nat /\ received \in Nat /\ resp \in 0 .. Word - 1
    BY RequestorAssumption DEF SizesInv, TypeOK
  <2>2. /\ pc = "job" => resp < recvLimit - received + MinLen
        /\ pc # "job" => 0 < recvLimit - received + MinLen
    BY DEF SizesInv, RepliesKept
  <2> QED
    BY <2>1, <2>2, ConstantTypes
<1> QED
  BY <1>1, Invariant, PTL

(* No BUG_ON of sendRequest fires for settings with ranges of messages.    *)
THEOREM NoBugOnSizes == Spec => []BugOnlyOnSizes
<1>1. SizesInv => BugOnlyOnSizes
  BY DEF SizesInv
<1> QED
  BY <1>1, Invariant, PTL
=============================================================================
