--------------------------- MODULE BabblerProofs ----------------------------
(***************************************************************************)
(* The theorems about one stream connection, for every value of the        *)
(* constants: the lemmas they rest on, the steps of send() and of          *)
(* receive(), and at the end the theorems.  Invariant is the one the       *)
(* others rest on.                                                         *)
(***************************************************************************)
EXTENDS BabblerInvariant, TLAPS

-----------------------------------------------------------------------------
(***************************************************************************)
(* Lemmas: every action keeps the types, what appending to a stream does,  *)
(* and what a step that leaves an end alone leaves true of it.             *)
(***************************************************************************)

(* The smaller and the greater of two numbers are numbers.                 *)
LEMMA LesserNat ==
  \A a, b \in Nat : /\ Lesser(a, b) \in Nat
                    /\ Greater(a, b) \in Nat
                    /\ Lesser(a, b) <= a /\ Lesser(a, b) <= b
BY DEF Lesser, Greater

States == {"ready", "sending", "recv", "parse", "body", "deliver"} \cup Ended

(* A thread that moves from one state to another stays in its type.        *)
LEMMA PcChange ==
  ASSUME TypeOK, NEW e \in End, NEW s \in States, pc' = [pc EXCEPT ![e] = s]
  PROVE  pc' \in [End -> States]
BY DEF TypeOK, States

(* Typing of what BeginSend changes.                                       *)
LEMMA BeginSendType ==
  ASSUME TypeOK, NEW e \in End, NEW m \in Message, BeginSend(e, m)
  PROVE  /\ wire' \in [End -> Seq(Message)]
         /\ unsent' \in [End -> Nat] /\ chunk' \in [End -> Nat]
         /\ scribbled' \in [End -> Nat] /\ written' \in [End -> Nat]
<1>1. BufSize \in Nat /\ m.len \in Nat
  BY BabblerAssumption DEF Message
<1>2. Lesser(m.len, BufSize) \in Nat
  BY <1>1, LesserNat
<1>3. Greater(scribbled[e], Lesser(m.len, BufSize)) \in Nat
  BY <1>2, LesserNat DEF TypeOK
<1>4. Append(wire[e], m) \in Seq(Message)
  BY DEF TypeOK
<1> QED
  BY <1>1, <1>2, <1>3, <1>4 DEF BeginSend, TypeOK

(* Init establishes the types.                                             *)
LEMMA InitType == Init => TypeOK
<1> SUFFICES ASSUME Init PROVE TypeOK
  OBVIOUS
<1>1. [e \in End |-> << >>] \in [End -> Seq(Message)]
  OBVIOUS
<1> QED
  BY <1>1 DEF Init, TypeOK, Ended

(* A request is stopped at a BUG_ON, is only a header, or is begun.        *)
LEMMA StartJobOutcome ==
  ASSUME StartJob
  PROVE  \E req \in ReqSizes, resp \in RespSizes :
           /\ reqSize' = req /\ respSize' = resp /\ req \in Nat /\ resp \in Nat
           /\ \/ /\ resp \in 1 .. HeaderSize - 1 \/ req < HeaderSize
                 /\ pc' = [pc EXCEPT !["client"] = "bug"]
                 /\ UNCHANGED <<jobs, sendVars, scribbled>>
              \/ /\ resp \notin 1 .. HeaderSize - 1 /\ req = HeaderSize
                 /\ scribbled' = [scribbled EXCEPT !["client"] = Greater(@, HeaderSize)]
                 /\ \/ resp = 0 /\ EndJob
                    \/ /\ resp # 0 /\ UNCHANGED jobs
                       /\ pc' = [pc EXCEPT !["client"] = EnterReceive("client")]
                 /\ UNCHANGED sendVars
              \/ /\ resp \notin 1 .. HeaderSize - 1 /\ req > HeaderSize
                 /\ pc' = [pc EXCEPT !["client"] = "sending"]
                 /\ BeginSend("client",
                      [start |-> written["client"], len |-> req, seq |-> seq',
                       options |-> IF resp = 0 THEN 0 ELSE resp - HeaderSize])
                 /\ UNCHANGED jobs
<1>1. PICK req \in ReqSizes, resp \in RespSizes : reqSize' = req /\ respSize' = resp
  BY DEF StartJob
<1>2. req \in Nat /\ resp \in Nat
  BY BabblerAssumption
<1> QED
  BY <1>1, <1>2 DEF StartJob, SendRequest

(* The header of a request as sendRequest fills it in.                     *)
LEMMA RequestType ==
  ASSUME TypeOK, seq' = seq + 1, NEW req \in Nat, NEW resp \in Nat,
         resp \notin 1 .. HeaderSize - 1
  PROVE  [start |-> written["client"], len |-> req, seq |-> seq',
          options |-> IF resp = 0 THEN 0 ELSE resp - HeaderSize] \in Message
<1>1. HeaderSize \in Nat \ {0}
  BY BabblerAssumption
<1>2. (IF resp = 0 THEN 0 ELSE resp - HeaderSize) \in Nat
  BY <1>1
<1>3. written["client"] \in Nat /\ seq' \in Nat
  BY DEF TypeOK, End
<1> QED
  BY <1>2, <1>3 DEF Message

(* Each action keeps them.                                                 *)
LEMMA StartJobType == TypeOK /\ StartJob => TypeOK'
<1> SUFFICES ASSUME TypeOK, StartJob PROVE TypeOK'
  OBVIOUS
<1> DEFINE m(req, resp) == [start |-> written["client"], len |-> req, seq |-> seq',
                            options |-> IF resp = 0 THEN 0 ELSE resp - HeaderSize]
<1>1. PICK req \in ReqSizes, resp \in RespSizes :
         /\ reqSize' = req /\ respSize' = resp /\ req \in Nat /\ resp \in Nat
         /\ \/ /\ pc' = [pc EXCEPT !["client"] = "bug"]
               /\ UNCHANGED <<jobs, sendVars, scribbled>>
            \/ /\ scribbled' = [scribbled EXCEPT !["client"] = Greater(@, HeaderSize)]
               /\ \/ EndJob
                  \/ /\ UNCHANGED jobs
                     /\ pc' = [pc EXCEPT !["client"] = EnterReceive("client")]
               /\ UNCHANGED sendVars
            \/ /\ resp \notin 1 .. HeaderSize - 1
               /\ pc' = [pc EXCEPT !["client"] = "sending"]
               /\ BeginSend("client", m(req, resp))
               /\ UNCHANGED jobs
  BY StartJobOutcome
<1>2. /\ HeaderSize \in Nat /\ seq' \in Nat /\ seq' = seq + 1
      /\ reqSize' \in Nat /\ respSize' \in Nat /\ "client" \in End
  BY <1>1, BabblerAssumption DEF StartJob, TypeOK, End
<1>3. resp \notin 1 .. HeaderSize - 1 => m(req, resp) \in Message
  BY <1>1, <1>2, RequestType
<1> HIDE DEF m
<1>4. pc' \in [End -> States]
  <2>1. \E s \in {"bug", "ready", "done", "recv", "parse", "sending"} :
           pc' = [pc EXCEPT !["client"] = s]
    BY <1>1 DEF EndJob, EnterReceive
  <2> QED
    BY <1>2, <2>1 DEF TypeOK, States, Ended
<1>5. jobs' \in Nat
  BY <1>1 DEF EndJob, TypeOK
<1>6. /\ wire' \in [End -> Seq(Message)]
      /\ unsent' \in [End -> Nat] /\ chunk' \in [End -> Nat]
      /\ scribbled' \in [End -> Nat] /\ written' \in [End -> Nat]
  <2>1. CASE UNCHANGED sendVars /\ UNCHANGED scribbled
    BY <2>1 DEF sendVars, TypeOK
  <2>2. CASE /\ UNCHANGED sendVars
             /\ scribbled' = [scribbled EXCEPT !["client"] = Greater(@, HeaderSize)]
    <3>1. scribbled["client"] \in Nat
      BY <1>2 DEF TypeOK
    <3>2. Greater(scribbled["client"], HeaderSize) \in Nat
      BY <1>2, <3>1, LesserNat
    <3> QED
      BY <2>2, <3>2 DEF sendVars, TypeOK
  <2>3. CASE resp \notin 1 .. HeaderSize - 1 /\ BeginSend("client", m(req, resp))
    BY <1>2, <1>3, <2>3, BeginSendType
  <2> QED
    BY <1>1, <2>1, <2>2, <2>3
<1> QED
  BY <1>2, <1>4, <1>5, <1>6 DEF StartJob, TypeOK, States, recvVars, statVars, envVars

(* There are two ends, each the peer of the other.                         *)
LEMMA PeerEnd == \A e \in End : Peer(e) \in End /\ Peer(e) # e /\ Peer(Peer(e)) = e
BY DEF Peer, End

(* The number of bytes the kernel moves is a positive one within bounds.   *)
LEMMA SendBytesCount ==
  ASSUME TypeOK, NEW e \in End, SendBytes(e)
  PROVE  \E n \in Nat \ {0} : n <= chunk[e] /\ HandOver(e, n)
<1>1. chunk \in [End -> Nat] /\ written \in [End -> Nat] /\ taken \in [End -> Nat]
  BY DEF TypeOK
<1>2. chunk[e] \in Nat /\ SockBuf - (written[e] - taken[Peer(e)]) \in Int
  BY <1>1, PeerEnd, BabblerAssumption
<1>3. PICK n \in 1 .. Lesser(chunk[e], SockBuf - (written[e] - taken[Peer(e)])) :
         HandOver(e, n)
  BY DEF SendBytes
<1>4. n \in Nat \ {0} /\ n <= chunk[e]
  BY <1>2 DEF Lesser
<1> QED
  BY <1>3, <1>4

(* So does recvfrom while a header is awaited.                             *)
LEMMA RecvHeaderCount ==
  ASSUME TypeOK, NEW e \in End, RecvHeader(e)
  PROVE  \E n \in Nat \ {0} : /\ n <= Avail(e) /\ n <= BufSize - content[e]
                              /\ TakeHeader(e, n)
<1>1. content \in [End -> Nat] /\ written \in [End -> Nat] /\ taken \in [End -> Nat]
  BY DEF TypeOK
<1>2. Avail(e) \in Int /\ BufSize - content[e] \in Int
  BY <1>1, PeerEnd, BabblerAssumption DEF Avail
<1>3. PICK n \in 1 .. Lesser(Avail(e), BufSize - content[e]) : TakeHeader(e, n)
  BY DEF RecvHeader
<1>4. n \in Nat \ {0} /\ n <= Avail(e) /\ n <= BufSize - content[e]
  BY <1>2 DEF Lesser
<1> QED
  BY <1>3, <1>4

(* And while the rest of a message is awaited.                             *)
LEMMA RecvBodyCount ==
  ASSUME TypeOK, NEW e \in End, RecvBody(e)
  PROVE  \E n \in Nat \ {0} : /\ n <= Avail(e) /\ n <= todo[e] /\ n <= BufSize
                              /\ TakeBody(e, n)
<1>1. todo \in [End -> Nat] /\ written \in [End -> Nat] /\ taken \in [End -> Nat]
  BY DEF TypeOK
<1>2. Avail(e) \in Int /\ todo[e] \in Nat /\ BufSize \in Nat
  BY <1>1, PeerEnd, BabblerAssumption DEF Avail
<1>3. PICK n \in 1 .. Lesser(Avail(e), Lesser(todo[e], BufSize)) : TakeBody(e, n)
  BY DEF RecvBody
<1>4. n \in Nat \ {0} /\ n <= Avail(e) /\ n <= todo[e] /\ n <= BufSize
  BY <1>2 DEF Lesser
<1> QED
  BY <1>3, <1>4

(* A sendto, within a chunk or with its last byte, keeps the types.        *)
LEMMA SendBytesType == ASSUME TypeOK, NEW e \in End, SendBytes(e) PROVE TypeOK'
<1> DEFINE sentLen == Lesser(unsent[e], BufSize)
           rest    == unsent[e] - sentLen
<1>1. PICK n \in Nat \ {0} : n <= chunk[e] /\ HandOver(e, n)
  BY SendBytesCount
<1>2. BufSize \in Nat /\ unsent[e] \in Nat /\ chunk[e] \in Nat
  BY BabblerAssumption DEF TypeOK
<1>3. sentLen \in Nat /\ rest \in Nat /\ Lesser(rest, BufSize) \in Nat
  BY <1>2 DEF Lesser
<1> HIDE DEF sentLen, rest
<1>4. written' \in [End -> Nat]
  <2>1. written' = [written EXCEPT ![e] = @ + n]
    BY <1>1 DEF HandOver
  <2> QED
    BY <2>1 DEF TypeOK
<1>5. chunk' \in [End -> Nat]
  <2>1. \/ n < chunk[e] /\ chunk' = [chunk EXCEPT ![e] = @ - n]
        \/ chunk' = [chunk EXCEPT ![e] = Lesser(rest, BufSize)]
    BY <1>1 DEF HandOver, sentLen, rest
  <2> DEFINE new == Lesser(rest, BufSize)
  <2>2. new \in Nat
    BY <1>3
  <2> HIDE DEF new
  <2>3. \/ n < chunk[e] /\ chunk' = [chunk EXCEPT ![e] = @ - n]
        \/ chunk' = [chunk EXCEPT ![e] = new]
    BY <2>1 DEF new
  <2>4. chunk \in [End -> Nat]
    BY DEF TypeOK
  <2> QED
    BY <2>2, <2>3, <2>4
<1>6. unsent' \in [End -> Nat]
  <2>1. unsent' = unsent \/ unsent' = [unsent EXCEPT ![e] = rest]
    BY <1>1 DEF HandOver, sentLen, rest
  <2>2. unsent \in [End -> Nat]
    BY DEF TypeOK
  <2> QED
    BY <2>1, <2>2, <1>3
<1>7. sentOctets' \in [End -> Nat]
  <2>1. sentOctets' = sentOctets \/ sentOctets' = [sentOctets EXCEPT ![e] = @ + sentLen]
    BY <1>1 DEF HandOver, sentLen
  <2>2. sentLen \in Nat
    BY <1>3
  <2>3. sentOctets \in [End -> Nat]
    BY DEF TypeOK
  <2> QED
    BY <2>1, <2>2, <2>3
<1>8. sentPackets' \in [End -> Nat]
  <2>1. sentPackets' = sentPackets \/ sentPackets' = [sentPackets EXCEPT ![e] = @ + 1]
    BY <1>1 DEF HandOver
  <2>2. sentPackets \in [End -> Nat]
    BY DEF TypeOK
  <2> QED
    BY <2>1, <2>2
<1>9. jobs' \in Nat
  <2>1. jobs' = jobs \/ jobs' = jobs + 1
    BY <1>1 DEF HandOver, EndJob
  <2> QED
    BY <2>1 DEF TypeOK
<1>10. pc' \in [End -> States]
  <2>1. \/ pc' = pc
        \/ \E d \in End, s \in {"recv", "parse", "ready", "done"} : pc' = [pc EXCEPT ![d] = s]
    BY <1>1 DEF HandOver, EndJob, EnterReceive, End
  <2> QED
    BY <2>1 DEF TypeOK, States, Ended
<1> QED
  BY <1>4, <1>5, <1>6, <1>7, <1>8, <1>9, <1>10 DEF SendBytes, TypeOK, States, recvVars, envVars

(* Bytes of a header that arrive keep the types.                           *)
LEMMA RecvHeaderType == ASSUME TypeOK, NEW e \in End, RecvHeader(e) PROVE TypeOK'
<1>1. PICK n \in Nat \ {0} : TakeHeader(e, n)
  BY RecvHeaderCount
<1>2. pc' \in [End -> States]
  BY <1>1 DEF TakeHeader, TypeOK, States
<1>3. /\ taken' \in [End -> Nat] /\ content' \in [End -> Nat]
      /\ bufBase' \in [End -> Nat] /\ scribbled' \in [End -> Nat]
  <2>1. /\ taken \in [End -> Nat] /\ content \in [End -> Nat]
        /\ bufBase \in [End -> Nat] /\ scribbled \in [End -> Nat]
    BY DEF TypeOK
  <2> QED
    BY <1>1, <2>1 DEF TakeHeader
<1>4. receivedOctets' \in [End -> Nat]
  <2>1. receivedOctets \in [End -> Nat] /\ content \in [End -> Nat]
    BY DEF TypeOK
  <2>2. content[e] + n \in Nat
    BY <1>1, <2>1
  <2> QED
    BY <1>1, <2>1, <2>2 DEF TakeHeader
<1> QED
  BY <1>2, <1>3, <1>4 DEF RecvHeader, TypeOK, States, jobVars, sendVars, envVars

(* Looking at a header keeps the types, whatever is found there.           *)
LEMMA ParseType == ASSUME TypeOK, NEW e \in End, Parse(e) PROVE TypeOK'
<1> DEFINE here   == bufBase[e] + bufPos[e]
           starts == {i \in 1 .. Len(wire[Peer(e)]) : wire[Peer(e)][i].start = here}
<1>1. \/ /\ pc' = [pc EXCEPT ![e] = "bug"] \/ pc' = [pc EXCEPT ![e] = "exception"]
         /\ UNCHANGED <<bufPos, content, cur, todo, receivedPackets>>
      \/ \E i \in starts : ParseMessage(e, i)
  BY DEF Parse
<1>2. /\ pc' \in [End -> States]
      /\ bufPos' \in [End -> Nat] /\ content' \in [End -> Nat]
      /\ cur' \in [End -> Nat] /\ todo' \in [End -> Nat]
      /\ receivedPackets' \in [End -> Nat]
  <2>1. CASE /\ pc' = [pc EXCEPT ![e] = "bug"] \/ pc' = [pc EXCEPT ![e] = "exception"]
             /\ UNCHANGED <<bufPos, content, cur, todo, receivedPackets>>
    BY <2>1 DEF TypeOK, States, Ended
  <2>2. ASSUME NEW i \in starts, ParseMessage(e, i)
        PROVE  /\ pc' \in [End -> States]
               /\ bufPos' \in [End -> Nat] /\ content' \in [End -> Nat]
               /\ cur' \in [End -> Nat] /\ todo' \in [End -> Nat]
               /\ receivedPackets' \in [End -> Nat]
    <3>0. Peer(e) \in End
      BY DEF End, Peer
    <3>1. /\ i \in Nat
          /\ wire[Peer(e)] \in Seq(Message) /\ i \in 1 .. Len(wire[Peer(e)])
      BY <3>0 DEF TypeOK
    <3>2. /\ wire[Peer(e)][i].len \in Nat /\ content[e] \in Nat /\ bufPos[e] \in Nat
      <4>1. wire[Peer(e)][i] \in Message
        BY <3>1
      <4> QED
        BY <4>1 DEF TypeOK, Message
    <3> HIDE DEF starts
    <3> QED
      <4>1. pc' \in [End -> States]
        BY <2>2 DEF ParseMessage, TypeOK, States, Ended
      <4>2. /\ bufPos \in [End -> Nat] /\ content \in [End -> Nat]
            /\ cur \in [End -> Nat] /\ todo \in [End -> Nat]
            /\ receivedPackets \in [End -> Nat]
        BY DEF TypeOK
      <4> DEFINE len  == wire[Peer(e)][i].len
                 left == len - content[e]
      <4>3. cur' \in [End -> Nat]
        BY <2>2, <3>1, <4>2 DEF ParseMessage
      <4>4. CASE left > 0
        <5>1. left \in Nat
          BY <3>2, <4>4
        <5>2. /\ todo' = [todo EXCEPT ![e] = left]
              /\ UNCHANGED <<bufPos, content, receivedPackets>>
          BY <2>2, <4>4 DEF ParseMessage
        <5> QED
          BY <4>1, <4>2, <4>3, <5>1, <5>2
      <4>5. CASE ~(left > 0)
        <5>1. -left \in Nat /\ bufPos[e] + len \in Nat
          BY <3>2, <4>5
        <5> DEFINE unparsed == -left
                   next     == IF left < 0 THEN bufPos[e] + len ELSE 0
        <5>2. unparsed \in Nat /\ next \in Nat
          BY <5>1
        <5>3. /\ bufPos' = [bufPos EXCEPT ![e] = next]
              /\ content' = [content EXCEPT ![e] = unparsed]
              /\ UNCHANGED todo
              /\ \/ UNCHANGED receivedPackets
                 \/ receivedPackets' = [receivedPackets EXCEPT ![e] = @ + 1]
          BY <2>2, <4>5 DEF ParseMessage
        <5> HIDE DEF unparsed, next
        <5> QED
          BY <4>1, <4>2, <4>3, <5>2, <5>3
      <4> QED
        BY <4>4, <4>5
  <2> QED
    BY <1>1, <2>1, <2>2
<1> QED
  BY <1>2 DEF Parse, TypeOK, States, jobVars, sendVars, envVars

(* Payload that arrives keeps the types.                                   *)
LEMMA RecvBodyType == ASSUME TypeOK, NEW e \in End, RecvBody(e) PROVE TypeOK'
<1>1. PICK n \in Nat \ {0} : n <= todo[e] /\ TakeBody(e, n)
  BY RecvBodyCount
<1>2. pc' \in [End -> States]
  BY <1>1 DEF TakeBody, TypeOK, Ended, States
<1>3. /\ taken' \in [End -> Nat] /\ todo' \in [End -> Nat]
      /\ receivedOctets' \in [End -> Nat] /\ receivedPackets' \in [End -> Nat]
      /\ content' \in [End -> Nat] /\ bufPos' \in [End -> Nat]
  <2>1. /\ taken \in [End -> Nat] /\ todo \in [End -> Nat]
        /\ receivedOctets \in [End -> Nat] /\ receivedPackets \in [End -> Nat]
        /\ content \in [End -> Nat] /\ bufPos \in [End -> Nat]
    BY DEF TypeOK
  <2> QED
    BY <1>1, <2>1 DEF TakeBody
<1> QED
  BY <1>2, <1>3 DEF RecvBody, TypeOK, States, jobVars, sendVars, envVars

(* The end of a job keeps the types.                                       *)
LEMMA RecvResponseType == ASSUME TypeOK, RecvResponse PROVE TypeOK'
<1>1. \/ /\ jobs' = jobs + 1
         /\ \/ pc' = [pc EXCEPT !["client"] = "done"]
            \/ pc' = [pc EXCEPT !["client"] = "ready"]
      \/ /\ jobs' = jobs
         /\ pc' = [pc EXCEPT !["client"] = "exception"]
  BY DEF RecvResponse, EndJob
<1>2. jobs' \in Nat
  BY <1>1 DEF TypeOK
<1>3. pc' \in [End -> States]
  BY <1>1 DEF TypeOK, States, Ended
<1> QED
  BY <1>2, <1>3 DEF RecvResponse, TypeOK, States, sendVars, recvVars, statVars, envVars

(* The request the responder answers is one of the client's stream.        *)
LEMMA SendResponseType ==
  ASSUME TypeOK, Progress, SendResponse PROVE TypeOK'
<1> DEFINE request == wire["client"][cur["server"]]
           m == [start |-> written["server"], len |-> request.options + HeaderSize,
                 seq |-> request.seq, options |-> 0]
<1>1. "server" \in End /\ "client" \in End /\ Peer("server") = "client"
  BY DEF End, Peer
<1>2. /\ wire["client"] \in Seq(Message)
      /\ cur["server"] \in 1 .. Len(wire["client"])
  <2>1. pc["server"] = "deliver"
    BY DEF SendResponse
  <2>2. wire["client"] \in Seq(Message) /\ receivedPackets["server"] \in Nat
    BY <1>1 DEF TypeOK
  <2> QED
    BY <1>1, <2>1, <2>2 DEF Progress, Receiver, Handled
<1>3. request \in Message
  BY <1>2
<1>4. written["server"] \in Nat /\ HeaderSize \in Nat /\ scribbled["server"] \in Nat
  BY <1>1, BabblerAssumption DEF TypeOK
<1>5. m \in Message
  BY <1>3, <1>4 DEF Message
<1>6. \/ /\ pc' = [pc EXCEPT !["server"] = EnterReceive("server")]
         /\ scribbled' = [scribbled EXCEPT !["server"] = Greater(@, HeaderSize)]
         /\ UNCHANGED sendVars
      \/ /\ pc' = [pc EXCEPT !["server"] = "sending"]
         /\ BeginSend("server", m)
  BY DEF SendResponse
<1> HIDE DEF request, m
<1>7. pc' \in [End -> States]
  BY <1>6 DEF EnterReceive, TypeOK, States
<1>8. /\ wire' \in [End -> Seq(Message)]
      /\ unsent' \in [End -> Nat] /\ chunk' \in [End -> Nat]
      /\ scribbled' \in [End -> Nat] /\ written' \in [End -> Nat]
  <2>1. CASE /\ scribbled' = [scribbled EXCEPT !["server"] = Greater(@, HeaderSize)]
             /\ UNCHANGED sendVars
    BY <2>1, <1>4, LesserNat DEF sendVars, TypeOK
  <2>2. CASE BeginSend("server", m)
    BY <2>2, <1>1, <1>5, BeginSendType
  <2> QED
    BY <1>6, <2>1, <2>2
<1> QED
  BY <1>7, <1>8 DEF SendResponse, TypeOK, States, jobVars, recvVars, statVars, envVars

(* The ways out of a blocking call and the environment keep the types.     *)
LEMMA OthersType ==
  ASSUME TypeOK,
         \/ LimitReached \/ RecvCancelled \/ TerminateAll \/ BreakConnection
         \/ UNCHANGED vars \/ \E e \in End : ConnectionLost(e) \/ EmptyWakeup(e)
  PROVE  TypeOK'
<1>1. CASE LimitReached \/ \E e \in End : ConnectionLost(e)
  <2>1. \E e \in End, s \in {"done", "error"} : pc' = [pc EXCEPT ![e] = s]
    BY <1>1 DEF LimitReached, ConnectionLost, End
  <2>2. pc' \in [End -> States]
    BY <2>1 DEF TypeOK, States, Ended
  <2> QED
    BY <1>1, <2>2 DEF LimitReached, ConnectionLost, TypeOK, States,
       jobVars, sendVars, recvVars, statVars, envVars
<1>2. CASE TerminateAll \/ BreakConnection
  BY <1>2 DEF TerminateAll, BreakConnection, TypeOK,
     jobVars, sendVars, recvVars, statVars
<1>3. CASE UNCHANGED vars
  BY <1>3 DEF vars, TypeOK, jobVars, sendVars, recvVars, statVars, envVars
<1>5. CASE \E e \in End : EmptyWakeup(e)
  BY <1>5 DEF EmptyWakeup, TypeOK, jobVars, sendVars, recvVars, statVars
<1>4. CASE RecvCancelled
  <2>1. pc' \in [End -> States]
    BY <1>4 DEF RecvCancelled, TypeOK, States, Ended
  <2>2. PICK room : \E n \in 0 .. Lesser(Avail("client"), room) :
           taken' = [taken EXCEPT !["client"] = @ + n]
    BY <1>4 DEF RecvCancelled
  <2>3. PICK n \in Nat : taken' = [taken EXCEPT !["client"] = @ + n]
    <3>1. \A n \in 0 .. Lesser(Avail("client"), room) : n \in Nat
      OBVIOUS
    <3> QED
      BY <2>2, <3>1
  <2>4. taken \in [End -> Nat] /\ "client" \in End
    BY DEF TypeOK, End
  <2>5. taken' \in [End -> Nat]
    BY <2>3, <2>4
  <2> QED
    BY <1>4, <2>1, <2>5 DEF RecvCancelled, TypeOK, States,
       jobVars, sendVars, statVars, envVars
<1> QED
  BY <1>1, <1>2, <1>3, <1>4, <1>5

-----------------------------------------------------------------------------
(* Every message and every position of a stream has its type.              *)
LEMMA StreamType ==
  ASSUME NEW s \in Seq(Message)
  PROVE  /\ Len(s) \in Nat
         /\ \A i \in 1 .. Len(s) :
              /\ s[i] \in Message
              /\ s[i].start \in Nat /\ s[i].len \in Nat
              /\ s[i].seq \in Nat /\ s[i].options \in Nat
         /\ \A i \in 0 .. Len(s) : Behind(s, i) \in Nat
<1>1. Len(s) \in Nat /\ \A i \in 1 .. Len(s) : s[i] \in Message
  OBVIOUS
<1>2. \A i \in 1 .. Len(s) :
              /\ s[i].start \in Nat /\ s[i].len \in Nat
              /\ s[i].seq \in Nat /\ s[i].options \in Nat
  BY <1>1 DEF Message
<1>3. \A i \in 0 .. Len(s) : Behind(s, i) \in Nat
  BY <1>1, <1>2 DEF Behind
<1> QED
  BY <1>1, <1>2, <1>3

(* The same of the streams of a state.                                     *)
LEMMA WireType ==
  ASSUME TypeOK, NEW e \in End
  PROVE  /\ wire[e] \in Seq(Message)
         /\ Len(wire[e]) \in Nat
         /\ \A i \in 1 .. Len(wire[e]) :
              /\ wire[e][i] \in Message
              /\ wire[e][i].start \in Nat /\ wire[e][i].len \in Nat
              /\ wire[e][i].seq \in Nat /\ wire[e][i].options \in Nat
         /\ \A i \in 0 .. Len(wire[e]) : After(e, i) \in Nat
<1>1. wire[e] \in Seq(Message)
  BY DEF TypeOK
<1> QED
  BY <1>1, StreamType DEF After

(* Appending a message leaves the others where they are.                   *)
LEMMA AppendFacts ==
  ASSUME NEW s \in Seq(Message), NEW m \in Message
  PROVE  /\ Append(s, m) \in Seq(Message)
         /\ Len(Append(s, m)) = Len(s) + 1
         /\ Append(s, m)[Len(s) + 1] = m
         /\ \A i \in 1 .. Len(s) : Append(s, m)[i] = s[i]
         /\ Behind(Append(s, m), Len(s) + 1) = m.start + m.len
         /\ \A i \in 0 .. Len(s) : Behind(Append(s, m), i) = Behind(s, i)
<1> DEFINE t == Append(s, m)
           n == Len(s)
<1>1. /\ t \in Seq(Message) /\ n \in Nat /\ Len(t) = n + 1
      /\ t[n + 1] = m /\ \A i \in 1 .. n : t[i] = s[i]
  OBVIOUS
<1> HIDE DEF t, n
<1>2. Behind(t, n + 1) = m.start + m.len
  <2>1. n + 1 # 0
    BY <1>1
  <2> QED
    BY <1>1, <2>1 DEF Behind
<1>3. \A i \in 0 .. n : Behind(t, i) = Behind(s, i)
  BY <1>1 DEF Behind
<1> QED
  BY <1>1, <1>2, <1>3 DEF t, n

(* The layout of a stream is kept by a message that starts at its end.     *)
LEMMA AppendLayout ==
  ASSUME NEW s \in Seq(Message), Layout(s), NEW m \in Message,
         m.start = Behind(s, Len(s)), m.len > HeaderSize
  PROVE  Layout(Append(s, m))
<1> DEFINE t == Append(s, m)
           n == Len(s)
<1>1. /\ n \in Nat
      /\ Len(t) = n + 1
      /\ t[n + 1] = m
      /\ \A i \in 1 .. n : t[i] = s[i]
      /\ \A i \in 0 .. n : Behind(t, i) = Behind(s, i)
  BY AppendFacts
<1>2. /\ \A i \in 0 .. n : Behind(s, i) \in Nat
      /\ \A i \in 1 .. n : s[i].start \in Nat /\ s[i].len \in Nat
  BY StreamType
<1>3. /\ \A i \in 1 .. n : s[i].len > HeaderSize /\ s[i].start = Behind(s, i - 1)
      /\ \A i \in 0 .. n, j \in 1 .. n : i < j => Behind(s, i) <= s[j].start
  BY DEF Layout
<1>4. m.start = Behind(s, n)
  OBVIOUS
<1> HIDE DEF n, t
<1>5. \A i \in 1 .. n + 1 : t[i].len > HeaderSize /\ t[i].start = Behind(t, i - 1)
  <2> TAKE i \in 1 .. n + 1
  <2>1. CASE i = n + 1
    BY <2>1, <1>1, <1>4
  <2>2. CASE i \in 1 .. n
    BY <2>2, <1>1, <1>3
  <2>3. i = n + 1 \/ i \in 1 .. n
    BY <1>1
  <2> QED
    BY <2>1, <2>2, <2>3
<1>6. \A i \in 0 .. n : Behind(s, i) <= Behind(s, n)
  <2> TAKE i \in 0 .. n
  <2>1. CASE i = n
    BY <2>1, <1>1, <1>2
  <2>2. CASE i < n
    <3>1. n \in 1 .. n /\ Behind(s, n) = s[n].start + s[n].len
      BY <2>2, <1>1 DEF Behind
    <3>2. Behind(s, i) <= s[n].start
      BY <2>2, <3>1, <1>3
    <3>3. s[n].len \in Nat /\ s[n].start \in Nat /\ Behind(s, i) \in Nat
      BY <3>1, <1>2
    <3> QED
      BY <3>1, <3>2, <3>3
  <2>3. i = n \/ i < n
    BY <1>1
  <2> QED
    BY <2>1, <2>2, <2>3
<1>7. \A i \in 0 .. n + 1, j \in 1 .. n + 1 : i < j => Behind(t, i) <= t[j].start
  <2> SUFFICES ASSUME NEW i \in 0 .. n + 1, NEW j \in 1 .. n + 1, i < j
               PROVE  Behind(t, i) <= t[j].start
    OBVIOUS
  <2>1. i \in 0 .. n
    BY <1>1
  <2>2. CASE j = n + 1
    BY <2>1, <2>2, <1>1, <1>4, <1>6
  <2>3. CASE j \in 1 .. n
    BY <2>1, <2>3, <1>1, <1>3
  <2>4. j = n + 1 \/ j \in 1 .. n
    BY <1>1
  <2> QED
    BY <2>2, <2>3, <2>4
<1> QED
  BY <1>1, <1>5, <1>7 DEF Layout, t

(* Inside send() something is still to be handed over.                     *)
LEMMA SendingBehind ==
  ASSUME TypeOK, Progress, NEW e \in End, pc[e] = "sending"
  PROVE  written[e] < After(e, Len(wire[e]))
<1>1. written[e] \in Nat /\ unsent[e] \in Nat /\ chunk[e] \in Nat /\ BufSize \in Nat
  BY BabblerAssumption DEF TypeOK
<1>2. /\ chunk[e] > 0
      /\ After(e, Len(wire[e])) =
            written[e] + unsent[e] - Lesser(unsent[e], BufSize) + chunk[e]
  <2>1. Sender(e)
    BY DEF Progress
  <2>2. Lesser(unsent[e], BufSize) \in Nat
    BY <1>1, LesserNat
  <2> QED
    BY <2>1, <2>2, <1>1 DEF Sender
<1>3. Lesser(unsent[e], BufSize) \in Nat /\ Lesser(unsent[e], BufSize) <= unsent[e]
  BY <1>1, LesserNat
<1> QED
  BY <1>1, <1>2, <1>3

(* A receiver that has handled every message has nothing left to take.     *)
LEMMA AllHandled ==
  ASSUME TypeOK, Progress, NEW e \in End,
         pc[e] \notin {"body"} \cup Ended,
         Handled(e) = Len(wire[Peer(e)])
  PROVE  /\ content[e] = 0
         /\ taken[e] = written[Peer(e)]
         /\ taken[e] = After(Peer(e), Handled(e))
         /\ pc[Peer(e)] # "sending"
<1> DEFINE p == Peer(e)
<1>1. p \in End
  BY PeerEnd
<1>2. /\ taken[e] \in Nat /\ content[e] \in Nat /\ written[p] \in Nat
      /\ After(p, Len(wire[p])) \in Nat
  <2>1. taken[e] \in Nat /\ content[e] \in Nat /\ written[p] \in Nat
    BY <1>1 DEF TypeOK
  <2>2. Len(wire[p]) \in Nat /\ \A i \in 0 .. Len(wire[p]) : After(p, i) \in Nat
    BY <1>1, WireType
  <2> QED
    BY <2>1, <2>2
<1>3. /\ taken[e] <= written[p]
      /\ taken[e] - content[e] = After(p, Handled(e))
  BY <1>1 DEF Progress, Receiver
<1>4. written[p] <= After(p, Len(wire[p]))
  BY <1>1 DEF Progress, Sender
<1>5. pc[p] = "sending" => written[p] < After(p, Len(wire[p]))
  BY <1>1, SendingBehind
<1> HIDE DEF p
<1>6. content[e] = 0 /\ taken[e] = written[p] /\ taken[e] = After(p, Len(wire[p]))
  BY <1>2, <1>3, <1>4 DEF p
<1>7. pc[p] # "sending"
  BY <1>6, <1>5, <1>2
<1> QED
  BY <1>6, <1>7 DEF p

-----------------------------------------------------------------------------
(* What a step of one end leaves alone at the other.                       *)
Same(d) ==
  /\ pc'[d] = pc[d] /\ wire'[d] = wire[d] /\ written'[d] = written[d]
  /\ unsent'[d] = unsent[d] /\ chunk'[d] = chunk[d]
  /\ taken'[d] = taken[d] /\ content'[d] = content[d] /\ todo'[d] = todo[d]
  /\ bufBase'[d] = bufBase[d] /\ bufPos'[d] = bufPos[d] /\ cur'[d] = cur[d]
  /\ scribbled'[d] = scribbled[d] /\ receivedPackets'[d] = receivedPackets[d]

(* A stream only grows.                                                    *)
Grows(d) ==
  /\ written[d] <= written'[d]
  /\ Len(wire[d]) <= Len(wire'[d])
  /\ \A i \in 1 .. Len(wire[d]) : wire'[d][i] = wire[d][i]

(* A sender that sends nothing in this step.                               *)
LEMMA SenderFrame ==
  ASSUME NEW d \in End, Sender(d), wire'[d] = wire[d], written'[d] = written[d],
         unsent'[d] = unsent[d], chunk'[d] = chunk[d],
         \/ pc'[d] = pc[d]
         \/ pc'[d] \in Ended
         \/ {pc[d], pc'[d]} \cap ({"sending"} \cup Ended) = {}
  PROVE  Sender(d)'
BY DEF Sender, After, Ended

(* A receiver that stands still while its peer may send.                   *)
LEMMA ReceiverFrame ==
  ASSUME TypeOK, TypeOK', NEW d \in End, Receiver(d), Grows(Peer(d)), Same(d)
  PROVE  Receiver(d)'
<1> DEFINE p == Peer(d)
<1>1. p \in End
  BY PeerEnd
<1>2. /\ wire[p] \in Seq(Message) /\ wire'[p] \in Seq(Message)
      /\ Len(wire[p]) \in Nat /\ Len(wire'[p]) \in Nat
      /\ written[p] \in Nat /\ written'[p] \in Nat
      /\ taken[d] \in Nat /\ Handled(d) \in Nat /\ cur[d] \in Nat
  <2>1. wire[p] \in Seq(Message) /\ wire'[p] \in Seq(Message)
    BY <1>1 DEF TypeOK
  <2>2. Len(wire[p]) \in Nat /\ Len(wire'[p]) \in Nat
    BY <2>1
  <2>3. /\ written[p] \in Nat /\ written'[p] \in Nat
        /\ taken[d] \in Nat /\ Handled(d) \in Nat /\ cur[d] \in Nat
    BY <1>1 DEF TypeOK, Handled
  <2> QED
    BY <2>1, <2>2, <2>3
<1>3. /\ written[p] <= written'[p]
      /\ Len(wire[p]) <= Len(wire'[p])
      /\ \A i \in 1 .. Len(wire[p]) : wire'[p][i] = wire[p][i]
  BY DEF Grows
<1>4. /\ Handled(d)' = Handled(d)
      /\ pc'[d] = pc[d] /\ taken'[d] = taken[d] /\ content'[d] = content[d]
      /\ cur'[d] = cur[d] /\ todo'[d] = todo[d]
  BY DEF Same, Handled
<1> HIDE DEF p
<1>5. \A i \in 0 .. Len(wire[p]) : Behind(wire'[p], i) = Behind(wire[p], i)
  BY <1>2, <1>3 DEF Behind
<1>6. /\ taken[d] <= written[p]
      /\ Handled(d) <= Len(wire[p])
  BY DEF Receiver, p
<1>7. taken'[d] <= written'[p] /\ Handled(d)' <= Len(wire'[p])
  BY <1>2, <1>3, <1>4, <1>6
<1>8. pc'[d] \notin {"body"} \cup Ended =>
         taken'[d] - content'[d] = Behind(wire'[p], Handled(d)')
  <2>1. pc[d] \notin {"body"} \cup Ended =>
          taken[d] - content[d] = Behind(wire[p], Handled(d))
    BY DEF Receiver, After, p
  <2>2. Behind(wire'[p], Handled(d)) = Behind(wire[p], Handled(d))
    BY <1>2, <1>5, <1>6
  <2> QED
    BY <2>1, <2>2, <1>4
<1>9. pc'[d] = "body" =>
       /\ cur'[d] = Handled(d)' + 1
       /\ cur'[d] <= Len(wire'[p])
       /\ todo'[d] > 0
       /\ todo'[d] + HeaderSize <= wire'[p][cur'[d]].len
       /\ taken'[d] + todo'[d] = Behind(wire'[p], cur'[d])
  <2> SUFFICES ASSUME pc'[d] = "body"
               PROVE  <1>9!2
    OBVIOUS
  <2>1. /\ cur[d] = Handled(d) + 1
        /\ cur[d] <= Len(wire[p])
        /\ todo[d] > 0
        /\ todo[d] + HeaderSize <= wire[p][cur[d]].len
        /\ taken[d] + todo[d] = Behind(wire[p], cur[d])
    BY <1>4 DEF Receiver, After, p
  <2>2. cur[d] \in 1 .. Len(wire[p]) /\ cur[d] \in 0 .. Len(wire[p])
    BY <2>1, <1>2
  <2>3. wire'[p][cur[d]] = wire[p][cur[d]] /\ Behind(wire'[p], cur[d]) = Behind(wire[p], cur[d])
    BY <2>2, <1>3, <1>5
  <2>4. cur[d] <= Len(wire'[p])
    BY <2>1, <1>2, <1>3
  <2> QED
    BY <2>1, <2>3, <2>4, <1>4
<1>10. /\ pc'[d] = "recv" => content'[d] < HeaderSize
       /\ pc'[d] = "parse" => content'[d] > 0
       /\ pc'[d] = "deliver" => cur'[d] = Handled(d)' /\ Handled(d)' > 0
  BY <1>4 DEF Receiver
<1> QED
  BY <1>7, <1>8, <1>9, <1>10 DEF Receiver, After, p, Peer

(* A buffer nobody touches.                                                *)
LEMMA BufferFrame ==
  ASSUME NEW d \in End, Buffer(d), Same(d)
  PROVE  Buffer(d)'
BY DEF Buffer, Same

(* Everything Progress says of an end that stands still.                   *)
LEMMA OtherFrame ==
  ASSUME TypeOK, TypeOK', Progress, NEW d \in End, Grows(Peer(d)), Same(d)
  PROVE  Sender(d)' /\ Receiver(d)' /\ Buffer(d)'
<1>1. Sender(d) /\ Receiver(d) /\ Buffer(d)
  BY DEF Progress
<1>2. Sender(d)'
  BY <1>1, SenderFrame DEF Same
<1> QED
  BY <1>1, <1>2, ReceiverFrame, BufferFrame

(* BeginSend by an end that had sent all of its messages.                  *)
LEMMA BeginSendSender ==
  ASSUME TypeOK, TypeOK', NEW e \in End, NEW m \in Message, BeginSend(e, m),
         m.start = written[e], m.len > HeaderSize,
         written[e] = After(e, Len(wire[e])), pc'[e] = "sending"
  PROVE  /\ Sender(e)'
         /\ Grows(e)
         /\ wire'[e] = Append(wire[e], m)
         /\ wire'[Peer(e)] = wire[Peer(e)]
<1>1. /\ wire[e] \in Seq(Message) /\ m.len \in Nat /\ written[e] \in Nat
      /\ BufSize \in Nat /\ HeaderSize \in Nat \ {0} /\ HeaderSize < BufSize
  <2>1. wire[e] \in Seq(Message) /\ written[e] \in Nat
    BY DEF TypeOK
  <2>2. m.len \in Nat
    BY DEF Message
  <2> QED
    BY <2>1, <2>2, BabblerAssumption
<1>2. /\ wire \in [End -> Seq(Message)] /\ unsent \in [End -> Nat] /\ chunk \in [End -> Nat]
  BY DEF TypeOK
<1>3. /\ wire' = [wire EXCEPT ![e] = Append(@, m)]
      /\ unsent' = [unsent EXCEPT ![e] = m.len]
      /\ chunk' = [chunk EXCEPT ![e] = Lesser(m.len, BufSize)]
      /\ written' = written
  BY DEF BeginSend
<1>4. wire'[e] = Append(wire[e], m) /\ wire'[Peer(e)] = wire[Peer(e)]
  BY <1>2, <1>3, PeerEnd
<1>5. unsent'[e] = m.len /\ chunk'[e] = Lesser(m.len, BufSize) /\ written'[e] = written[e]
  BY <1>2, <1>3
<1>6. /\ Len(wire'[e]) = Len(wire[e]) + 1
      /\ \A i \in 1 .. Len(wire[e]) : wire'[e][i] = wire[e][i]
      /\ Behind(wire'[e], Len(wire'[e])) = m.start + m.len
      /\ Len(wire[e]) \in Nat
  BY <1>1, <1>4, AppendFacts
<1>7. Lesser(m.len, BufSize) \in 1 .. Lesser(m.len, BufSize)
  BY <1>1 DEF Lesser
<1>8. Lesser(m.len, BufSize) \in Nat
  BY <1>1 DEF Lesser
<1>9. Behind(wire'[e], Len(wire'[e])) =
        written'[e] + unsent'[e] - Lesser(unsent'[e], BufSize) + chunk'[e]
  BY <1>1, <1>5, <1>6, <1>8
<1>10. /\ Len(wire'[e]) > 0 /\ unsent'[e] > 0
       /\ written'[e] <= Behind(wire'[e], Len(wire'[e]))
       /\ chunk'[e] \in 1 .. Lesser(unsent'[e], BufSize)
  <2>1. Len(wire'[e]) > 0 /\ unsent'[e] > 0
    BY <1>1, <1>5, <1>6
  <2>2. written'[e] <= Behind(wire'[e], Len(wire'[e]))
    BY <1>1, <1>5, <1>6
  <2>3. chunk'[e] \in 1 .. Lesser(unsent'[e], BufSize)
    BY <1>5, <1>7
  <2> QED
    BY <2>1, <2>2, <2>3
<1>11. Sender(e)'
  BY <1>9, <1>10 DEF Sender, After
<1>12. Grows(e)
  BY <1>1, <1>5, <1>6 DEF Grows
<1> QED
  BY <1>4, <1>11, <1>12

(* An end that is not inside receive() keeps its place in the stream while *)
(* it does not receive.                                                    *)
LEMMA ReceiverIdle ==
  ASSUME NEW d \in End, Receiver(d),
         wire'[Peer(d)] = wire[Peer(d)], written'[Peer(d)] = written[Peer(d)],
         taken'[d] = taken[d], content'[d] = content[d],
         receivedPackets'[d] = receivedPackets[d],
         pc[d] \notin {"body"} \cup Ended, pc'[d] \notin {"body", "deliver"},
         pc'[d] = "recv" => content[d] < HeaderSize,
         pc'[d] = "parse" => content[d] > 0
  PROVE  Receiver(d)'
BY DEF Receiver, After, Handled, Peer

(* A receiver that leaves its loop, perhaps with bytes it took and         *)
(* dropped.                                                                *)
LEMMA ReceiverEnds ==
  ASSUME NEW d \in End, Receiver(d),
         wire'[Peer(d)] = wire[Peer(d)], written'[Peer(d)] = written[Peer(d)],
         taken'[d] <= written[Peer(d)],
         receivedPackets'[d] = receivedPackets[d],
         pc'[d] \in Ended
  PROVE  Receiver(d)'
BY DEF Receiver, After, Handled, Peer, Ended

(* The two ends by name.                                                   *)
LEMMA Ends == /\ "client" \in End /\ "server" \in End
              /\ Peer("client") = "server" /\ Peer("server") = "client"
              /\ \A d \in End : d = "client" \/ d = "server"
BY DEF End, Peer

(* A stream that stands still grows, by nothing.                           *)
LEMMA GrowsSame ==
  ASSUME TypeOK, NEW d \in End, wire'[d] = wire[d], written'[d] = written[d]
  PROVE  Grows(d)
<1>1. written[d] \in Nat /\ wire[d] \in Seq(Message)
  BY DEF TypeOK
<1>2. Len(wire[d]) \in Nat
  BY <1>1
<1> QED
  BY <1>1, <1>2 DEF Grows

(* Progress from its parts at both ends.                                   *)
LEMMA ProgressBy ==
  ASSUME Sender("client")', Receiver("client")', Buffer("client")',
         Sender("server")', Receiver("server")', Buffer("server")'
  PROVE  Progress'
BY Ends DEF Progress

(* WireLayout from the two streams.                                        *)
LEMMA LayoutBy ==
  ASSUME Layout(wire'["client"]), Layout(wire'["server"])
  PROVE  WireLayout'
BY Ends DEF WireLayout, Layout, Behind

(* The types of the counts the invariant compares.                         *)
LEMMA NumberTypes ==
  ASSUME TypeOK
  PROVE  /\ Requests \in Nat /\ Responses \in Nat /\ jobs \in Nat /\ seq \in Nat
         /\ Handled("client") \in Nat /\ Handled("server") \in Nat
         /\ wire["client"] \in Seq(Message) /\ wire["server"] \in Seq(Message)
<1>1. wire["client"] \in Seq(Message) /\ wire["server"] \in Seq(Message)
  BY Ends DEF TypeOK
<1>2. Requests \in Nat /\ Responses \in Nat
  BY <1>1 DEF Requests, Responses
<1>3. /\ jobs \in Nat /\ seq \in Nat
      /\ receivedPackets["client"] \in Nat /\ receivedPackets["server"] \in Nat
  BY Ends DEF TypeOK
<1> QED
  BY <1>1, <1>2, <1>3 DEF Handled

(* What a step of receive() leaves alone everywhere.                       *)
StillWire ==
  /\ UNCHANGED <<wire, written, seq, reqSize, respSize, jobs>>

(* Then requests, responses and the layout of the streams stand still too. *)
LEMMA StillWireFacts ==
  ASSUME TypeOK, StillWire
  PROVE  /\ Requests' = Requests /\ Responses' = Responses
         /\ Grows("client") /\ Grows("server")
         /\ WireLayout => WireLayout'
BY GrowsSame, Ends DEF StillWire, Requests, Responses, WireLayout

-----------------------------------------------------------------------------
(***************************************************************************)
(* Sending: the steps that start a message, hand bytes over or end a job   *)
(* keep the inductive invariant.                                           *)
(***************************************************************************)

(* The number of the last request on the wire.                             *)
LEMMA LastSeq ==
  ASSUME TypeOK, Requests > 0
  PROVE  Requests \in 1 .. Requests /\ wire["client"][Requests].seq \in Nat
<1>1. Requests \in 1 .. Requests
  BY NumberTypes
<1> QED
  BY <1>1, WireType, Ends DEF Requests

(* A size of the client is below that of a header: nothing is sent.        *)
LEMMA StartJobBug ==
  ASSUME StreamInv, TypeOK', pc["client"] = "ready", seq' = seq + 1,
         respSize' \in 1 .. HeaderSize - 1 \/ reqSize' < HeaderSize,
         pc' = [pc EXCEPT !["client"] = "bug"],
         UNCHANGED <<sendVars, scribbled, jobs, recvVars, statVars, envVars>>
  PROVE  StreamInv'
<1>1. TypeOK /\ WireLayout /\ Progress /\ JobProgress /\ Conversation
      /\ NoProtocolException /\ BugOnlyOnFragmentOrSize
  BY DEF StreamInv
<1>2. pc'["client"] = "bug" /\ pc'["server"] = pc["server"]
  BY <1>1, Ends DEF TypeOK
<1>3. /\ UNCHANGED <<wire, written, unsent, chunk>>
      /\ UNCHANGED <<scribbled, jobs>>
      /\ UNCHANGED <<taken, bufBase, bufPos, content, cur, todo>>
      /\ UNCHANGED receivedPackets
  BY DEF sendVars, recvVars, statVars
<1>4. Same("server")
  BY <1>2, <1>3 DEF Same
<1>5. Grows("client") /\ Grows("server")
  BY <1>1, <1>3, GrowsSame, Ends
<1>6. Sender("client") /\ Receiver("client") /\ Buffer("client")
  BY <1>1, Ends DEF Progress
<1>7. Sender("server")' /\ Receiver("server")' /\ Buffer("server")'
  BY <1>1, <1>4, <1>5, OtherFrame, Ends
<1>8. Sender("client")'
  BY <1>2, <1>3, <1>6, SenderFrame, Ends DEF Ended
<1>9. Receiver("client")'
  <2>1. taken["client"] <= written["server"]
    BY <1>6, Ends DEF Receiver
  <2> QED
    BY <2>1, <1>2, <1>3, <1>6, ReceiverEnds, Ends DEF Ended
<1>10. Buffer("client")'
  BY <1>2 DEF Buffer, Ended
<1>11. WireLayout'
  BY <1>1, <1>3 DEF WireLayout, Layout, Behind
<1>12. JobProgress'
  <2>1. /\ jobs <= seq /\ jobs \in Nat /\ seq \in Nat
        /\ Requests > 0 => wire["client"][Requests].seq <= seq
    BY <1>1, NumberTypes DEF JobProgress
  <2>2. Requests > 0 => wire["client"][Requests].seq <= seq + 1
    BY <1>1, <2>1, LastSeq
  <2> QED
    BY <1>2, <1>3, <2>1, <2>2 DEF JobProgress, Requests, Ended
<1>13. Conversation'
  BY <1>1, <1>2, <1>3, Ends DEF Conversation, AllAnswered, Answered, Requests, Responses,
     Handled, Quiet, Answering, After, Behind
<1>14. NoProtocolException'
  BY <1>1, <1>2, Ends DEF NoProtocolException
<1>15. BugOnlyOnFragmentOrSize'
  BY <1>1, <1>2, <1>3 DEF BugOnlyOnFragmentOrSize
<1> QED
  BY <1>7, <1>8, <1>9, <1>10, <1>11, <1>12, <1>13, <1>14, <1>15, ProgressBy DEF StreamInv

(* The client begins to send its next request.                             *)
LEMMA StartJobSend ==
  ASSUME StreamInv, TypeOK', NEW req \in Nat, NEW opt \in Nat,
         pc["client"] = "ready", reqSize' = req, req > HeaderSize,
         respSize' = 0 => opt = 0,
         pc' = [pc EXCEPT !["client"] = "sending"],
         seq' = seq + 1,
         BeginSend("client", [start |-> written["client"], len |-> req, seq |-> seq',
                              options |-> opt]),
         UNCHANGED <<jobs, recvVars, statVars, envVars>>
  PROVE  StreamInv'
<1> DEFINE m == [start |-> written["client"], len |-> req, seq |-> seq', options |-> opt]
           n == Requests
<1>1. TypeOK /\ WireLayout /\ Progress /\ JobProgress /\ Conversation
      /\ NoProtocolException /\ BugOnlyOnFragmentOrSize
  BY DEF StreamInv
<1>2. pc'["client"] = "sending" /\ pc'["server"] = pc["server"]
  BY <1>1, Ends DEF TypeOK
<1>3. /\ UNCHANGED jobs
      /\ UNCHANGED <<taken, bufBase, bufPos, content, cur, todo>>
      /\ UNCHANGED receivedPackets
  BY DEF recvVars, statVars
<1>4. Sender("client") /\ Receiver("client") /\ Buffer("client")
  BY <1>1, Ends DEF Progress
<1>5. written["client"] \in Nat /\ seq' \in Nat /\ HeaderSize \in Nat
  BY <1>1, Ends, BabblerAssumption DEF TypeOK
<1>6. m \in Message /\ m.start = written["client"] /\ m.len > HeaderSize /\ m.len = req
      /\ m.seq = seq' /\ m.options = opt
  BY <1>5, BabblerAssumption DEF Message
<1>7. BeginSend("client", m)
  OBVIOUS
<1> HIDE DEF m
<1>8. written["client"] = After("client", Len(wire["client"]))
  BY <1>4 DEF Sender, Ended
<1>9. /\ Sender("client")'
      /\ Grows("client")
      /\ wire'["client"] = Append(wire["client"], m)
      /\ wire'["server"] = wire["server"]
  BY <1>1, <1>2, <1>6, <1>7, <1>8, BeginSendSender, Ends
<1>10. /\ written' = written /\ unsent'["server"] = unsent["server"]
       /\ chunk'["server"] = chunk["server"] /\ scribbled'["server"] = scribbled["server"]
  BY <1>1, <1>7, Ends DEF BeginSend, TypeOK
<1>11. Same("server")
  BY <1>2, <1>3, <1>9, <1>10 DEF Same
<1>12. Sender("server")' /\ Receiver("server")' /\ Buffer("server")'
  BY <1>1, <1>9, <1>11, OtherFrame, Ends
<1>13. Receiver("client")'
  BY <1>2, <1>3, <1>4, <1>9, <1>10, ReceiverIdle, Ends DEF Ended
<1>14. Quiet /\ AllAnswered(n)
  BY <1>1 DEF Conversation
<1>15. Buffer("client")'
  <2>1. content["client"] = 0 /\ bufPos["client"] = 0
    BY <1>4, <1>14 DEF Quiet, Buffer, Ended
  <2> QED
    BY <1>2, <1>3, <2>1 DEF Buffer
<1>16. WireLayout'
  <2>1. Layout(wire["client"]) /\ Layout(wire["server"])
    BY <1>1, Ends DEF WireLayout
  <2>2. wire["client"] \in Seq(Message)
    BY <1>1, NumberTypes
  <2>3. Layout(Append(wire["client"], m))
    BY <2>1, <2>2, <1>6, <1>8, AppendLayout DEF After
  <2> QED
    BY <2>1, <2>3, <1>9, LayoutBy
<1>17. /\ n \in Nat /\ Requests' = n + 1 /\ Responses' = Responses
       /\ \A i \in 1 .. n : wire'["client"][i] = wire["client"][i]
       /\ wire'["client"][n + 1] = m
       /\ Handled("client")' = Handled("client") /\ Handled("server")' = Handled("server")
  <2>1. wire["client"] \in Seq(Message)
    BY <1>1, NumberTypes
  <2> QED
    BY <2>1, <1>3, <1>6, <1>9, AppendFacts DEF Requests, Responses, Handled
<1>18. JobProgress'
  <2>1. seq = jobs /\ jobs \in Nat
    BY <1>1, NumberTypes DEF JobProgress, Ended
  <2>2. Requests' > 0 /\ wire'["client"][Requests'].seq = seq'
    BY <1>6, <1>17
  <2>3. jobs' <= seq' /\ seq' = jobs' + 1
    BY <2>1, <1>3
  <2>4. respSize' = 0 => wire'["client"][Requests'].options = 0
    BY <1>6, <1>17
  <2>5. reqSize' > HeaderSize /\ reqSize' # HeaderSize /\ reqSize' >= HeaderSize
    BY <1>5
  <2>6. wire'["client"][Requests'].seq <= seq'
    BY <2>2, <1>5
  <2> HIDE DEF n
  <2> QED
    BY <1>2, <2>2, <2>3, <2>4, <2>5, <2>6 DEF JobProgress, Ended
<1>19. AllAnswered(Requests - 1)'
  <2>1. \A i \in 1 .. n : Answered(i)
    BY <1>14 DEF AllAnswered
  <2>2. \A i \in 1 .. n : Answered(i)'
    <3> TAKE i \in 1 .. n
    <3>1. Answered(i) /\ wire'["client"][i] = wire["client"][i]
      BY <2>1, <1>17
    <3> HIDE DEF n
    <3> QED
      BY <3>1, <1>2, <1>17 DEF Answered
  <2>3. Requests' - 1 = n
    BY <1>17
  <2> QED
    BY <2>2, <2>3 DEF AllAnswered
<1>20. Conversation'
  <2>1. Quiet'
    BY <1>14, <1>2, <1>3, <1>9, <1>17 DEF Quiet, After
  <2>2. pc["server"] # "sending"
    BY <1>14 DEF Quiet
  <2>3. pc'["server"] = "parse" /\ content'["server"] < HeaderSize =>
           /\ Handled("server")' > 0
           /\ wire'["client"][Handled("server")'].options = 0
    <3> SUFFICES ASSUME pc["server"] = "parse", content["server"] < HeaderSize
                 PROVE  /\ Handled("server") > 0
                        /\ wire'["client"][Handled("server")].options = 0
      BY <1>2, <1>3, <1>17
    <3>1. Handled("server") > 0 /\ wire["client"][Handled("server")].options = 0
      BY <1>1 DEF Conversation
    <3>2. Handled("server") \in Nat /\ Handled("server") <= n
      BY <1>1, Ends, NumberTypes DEF Progress, Receiver, Requests
    <3> QED
      BY <3>1, <3>2, <1>17
  <2> QED
    BY <1>2, <1>17, <1>19, <2>1, <2>2, <2>3 DEF Conversation
<1>21. NoProtocolException'
  BY <1>1, <1>2, Ends DEF NoProtocolException
<1>22. BugOnlyOnFragmentOrSize'
  BY <1>1, <1>2, <1>3, <1>17 DEF BugOnlyOnFragmentOrSize, Requests
<1> QED
  BY <1>9, <1>12, <1>13, <1>15, <1>16, <1>18, <1>20, <1>21, <1>22, ProgressBy DEF StreamInv

(* The client's request is only a header: the job is complete, or waits    *)
(* for a response to a request nobody has got.                             *)
LEMMA StartJobNothing ==
  ASSUME StreamInv, TypeOK', pc["client"] = "ready", seq' = seq + 1,
         reqSize' = HeaderSize,
         scribbled' = [scribbled EXCEPT !["client"] = Greater(@, HeaderSize)],
         \/ respSize' = 0 /\ EndJob
         \/ /\ respSize' # 0 /\ UNCHANGED jobs
            /\ pc' = [pc EXCEPT !["client"] = EnterReceive("client")],
         UNCHANGED <<sendVars, recvVars, statVars, envVars>>
  PROVE  StreamInv'
<1>1. TypeOK /\ WireLayout /\ Progress /\ JobProgress /\ Conversation
      /\ NoProtocolException /\ BugOnlyOnFragmentOrSize
  BY DEF StreamInv
<1>2. /\ UNCHANGED <<wire, written, unsent, chunk>>
      /\ UNCHANGED <<taken, bufBase, bufPos, content, cur, todo>>
      /\ UNCHANGED receivedPackets
  BY DEF sendVars, recvVars, statVars
<1>3. Quiet /\ AllAnswered(Requests) /\ content["client"] = 0
  BY <1>1 DEF Conversation, Quiet
<1>4. /\ pc'["server"] = pc["server"]
      /\ scribbled'["server"] = scribbled["server"]
      /\ \/ pc'["client"] \in {"ready", "done"} /\ jobs' = jobs + 1
         \/ pc'["client"] = "recv" /\ respSize' # 0 /\ jobs' = jobs
  <2>1. pc \in [End -> States] /\ scribbled \in [End -> Nat]
    BY <1>1 DEF TypeOK, States
  <2>2. \/ /\ pc' = [pc EXCEPT !["client"] = "ready"] \/ pc' = [pc EXCEPT !["client"] = "done"]
           /\ jobs' = jobs + 1
        \/ pc' = [pc EXCEPT !["client"] = "recv"] /\ respSize' # 0 /\ jobs' = jobs
    BY <1>3 DEF EndJob, EnterReceive
  <2> QED
    BY <2>1, <2>2, Ends
<1>5. Same("server") /\ Grows("client") /\ Grows("server")
  BY <1>1, <1>2, <1>4, GrowsSame, Ends DEF Same
<1>6. Sender("server")' /\ Receiver("server")' /\ Buffer("server")'
  BY <1>1, <1>5, OtherFrame, Ends
<1>7. Sender("client") /\ Receiver("client") /\ Buffer("client")
  BY <1>1, Ends DEF Progress
<1>8. Sender("client")'
  BY <1>2, <1>4, <1>7, SenderFrame, Ends DEF Ended
<1>9. Receiver("client")'
  <2>1. HeaderSize > 0
    BY BabblerAssumption
  <2> QED
    BY <1>2, <1>3, <1>4, <1>7, <2>1, ReceiverIdle, Ends DEF Ended
<1>10. Buffer("client")'
  BY <1>2, <1>3, <1>4, <1>7 DEF Buffer, Ended
<1>11. WireLayout'
  BY <1>1, <1>2 DEF WireLayout, Layout, Behind
<1>12. JobProgress'
  <2>1. /\ jobs = seq /\ jobs \in Nat /\ HeaderSize \in Nat
        /\ Requests > 0 => wire["client"][Requests].seq <= seq
    BY <1>1, NumberTypes, BabblerAssumption DEF JobProgress
  <2>2. Requests > 0 => wire["client"][Requests].seq <= seq + 1
    BY <1>1, <2>1, LastSeq
  <2>3. jobs' <= seq' /\ (jobs' = jobs + 1 => jobs' = seq') /\ (jobs' = jobs => seq' = jobs' + 1)
    BY <1>4, <2>1
  <2>4. reqSize' >= HeaderSize /\ ~(reqSize' > HeaderSize)
    BY <2>1
  <2> QED
    BY <1>2, <1>4, <2>2, <2>3, <2>4 DEF JobProgress, Requests, Ended
<1>13. Conversation'
  <2>1. /\ Requests' = Requests /\ Responses' = Responses
        /\ Handled("client")' = Handled("client") /\ Handled("server")' = Handled("server")
    BY <1>2 DEF Requests, Responses, Handled
  <2>2. Quiet'
    BY <1>2, <1>3, <1>4, <2>1 DEF Quiet, After
  <2>3. \A i : Answered(i)' = Answered(i)
    BY <1>2, <1>4, <2>1 DEF Answered, Handled
  <2>4. AllAnswered(Requests)' /\ AllAnswered(Requests - 1)'
    BY <1>1, <1>3, <2>1, <2>3, NumberTypes DEF AllAnswered
  <2>5. pc["server"] = "parse" /\ content["server"] < HeaderSize =>
           /\ Handled("server") > 0
           /\ wire["client"][Handled("server")].options = 0
    BY <1>1 DEF Conversation
  <2>6. pc["server"] # "sending"
    BY <1>3 DEF Quiet
  <2> QED
    BY <1>2, <1>4, <2>1, <2>2, <2>4, <2>5, <2>6 DEF Conversation, Ended
<1>14. NoProtocolException'
  BY <1>1, <1>4, Ends DEF NoProtocolException
<1>15. BugOnlyOnFragmentOrSize'
  BY <1>1, <1>2, <1>4 DEF BugOnlyOnFragmentOrSize
<1> QED
  BY <1>6, <1>8, <1>9, <1>10, <1>11, <1>12, <1>13, <1>14, <1>15, ProgressBy DEF StreamInv

(* A sendto is inside a message, or completes it.                          *)
LEMMA SendBytesOutcome ==
  ASSUME TypeOK, Progress, TypeOK', NEW e \in End, SendBytes(e)
  PROVE  /\ Sender(e)'
         /\ Grows(e)
         /\ written'[e] <= After(e, Len(wire[e]))
         /\ Same(Peer(e)) \/ pc'[Peer(e)] # pc[Peer(e)]
         /\ \/ pc' = pc /\ jobs' = jobs
            \/ /\ e = "client" /\ respSize = 0
               /\ EndJob
            \/ /\ ~(e = "client" /\ respSize = 0)
               /\ pc' = [pc EXCEPT ![e] = EnterReceive(e)]
               /\ jobs' = jobs
<1> DEFINE sentLen == Lesser(unsent[e], BufSize)
           rest    == unsent[e] - sentLen
           end     == After(e, Len(wire[e]))
<1>1. PICK n \in Nat \ {0} : n <= chunk[e] /\ HandOver(e, n)
  BY SendBytesCount
<1>2. /\ pc[e] = "sending" /\ UNCHANGED wire /\ UNCHANGED scribbled
      /\ UNCHANGED recvVars /\ UNCHANGED receivedPackets
  BY DEF SendBytes
<1>3. /\ BufSize \in Nat \ {0} /\ unsent[e] \in Nat /\ chunk[e] \in Nat /\ written[e] \in Nat
      /\ wire[e] \in Seq(Message) /\ Len(wire[e]) \in Nat /\ end \in Nat
  <2>1. unsent[e] \in Nat /\ chunk[e] \in Nat /\ written[e] \in Nat
    BY DEF TypeOK
  <2>2. wire[e] \in Seq(Message) /\ Len(wire[e]) \in Nat /\ end \in Nat
    BY WireType
  <2> QED
    BY <2>1, <2>2, BabblerAssumption
<1>4. /\ written \in [End -> Nat] /\ unsent \in [End -> Nat] /\ chunk \in [End -> Nat]
      /\ pc \in [End -> States]
  BY DEF TypeOK, States
<1>5. Peer(e) \in End /\ Peer(e) # e
  BY PeerEnd
<1>6. /\ Len(wire[e]) > 0 /\ unsent[e] > 0 /\ chunk[e] > 0 /\ chunk[e] <= sentLen
      /\ end = written[e] + unsent[e] - sentLen + chunk[e]
  <2>1. Sender(e)
    BY DEF Progress
  <2>2. sentLen \in Nat
    BY <1>3, LesserNat
  <2> QED
    BY <2>1, <2>2, <1>2, <1>3 DEF Sender
<1>7. sentLen \in Nat /\ rest \in Nat
  BY <1>3 DEF Lesser
<1>8. /\ written' = [written EXCEPT ![e] = @ + n]
      /\ \/ /\ n < chunk[e]
            /\ chunk' = [chunk EXCEPT ![e] = @ - n]
            /\ UNCHANGED <<pc, jobs, unsent>>
         \/ /\ ~(n < chunk[e])
            /\ unsent' = [unsent EXCEPT ![e] = rest]
            /\ chunk'  = [chunk EXCEPT ![e] = Lesser(rest, BufSize)]
            /\ \/ rest > 0 /\ UNCHANGED <<pc, jobs>>
               \/ /\ ~(rest > 0)
                  /\ \/ e = "client" /\ respSize = 0 /\ EndJob
                     \/ /\ ~(e = "client" /\ respSize = 0)
                        /\ pc' = [pc EXCEPT ![e] = EnterReceive(e)]
                        /\ UNCHANGED jobs
  BY <1>1 DEF HandOver
<1>9. written'[e] = written[e] + n /\ written'[Peer(e)] = written[Peer(e)]
  <2>1. written' = [written EXCEPT ![e] = @ + n]
    BY <1>8
  <2> QED
    BY <2>1, <1>4, <1>5
<1>10. end' = end
  BY <1>2 DEF After
<1>11. unsent'[Peer(e)] = unsent[Peer(e)] /\ chunk'[Peer(e)] = chunk[Peer(e)]
  <2> HIDE DEF sentLen, rest
  <2>1. \/ /\ chunk' = [chunk EXCEPT ![e] = chunk[e] - n]
           /\ unsent' = unsent
        \/ /\ unsent' = [unsent EXCEPT ![e] = rest]
           /\ chunk'  = [chunk EXCEPT ![e] = Lesser(rest, BufSize)]
    BY <1>8
  <2> QED
    BY <2>1, <1>4, <1>5
<1>12. Grows(e)
  BY <1>2, <1>3, <1>9 DEF Grows
<1>13. Same(Peer(e)) \/ pc'[Peer(e)] # pc[Peer(e)]
  BY <1>2, <1>9, <1>11 DEF Same, recvVars
<1>14. CASE n < chunk[e]
  <2>1. /\ chunk'[e] = chunk[e] - n /\ unsent'[e] = unsent[e] /\ pc' = pc /\ jobs' = jobs
    BY <1>14, <1>4, <1>8
  <2>2. chunk'[e] \in 1 .. Lesser(unsent'[e], BufSize)
    BY <1>1, <1>3, <1>6, <1>7, <1>14, <2>1
  <2>3. end = written'[e] + unsent'[e] - Lesser(unsent'[e], BufSize) + chunk'[e]
    BY <1>1, <1>3, <1>6, <1>7, <1>9, <2>1
  <2>4. written'[e] <= end
    BY <1>1, <1>3, <1>6, <1>7, <1>9, <1>14
  <2>5. Sender(e)'
    BY <1>2, <1>6, <1>10, <2>1, <2>2, <2>3, <2>4 DEF Sender, Ended
  <2> QED
    BY <1>12, <1>13, <2>1, <2>4, <2>5
<1>15. CASE ~(n < chunk[e]) /\ rest > 0
  <2>1. /\ chunk'[e] = Lesser(rest, BufSize) /\ unsent'[e] = rest /\ pc' = pc /\ jobs' = jobs
    <3> HIDE DEF rest
    <3> QED
      BY <1>15, <1>4, <1>8
  <2>2. n = chunk[e]
    BY <1>1, <1>3, <1>15
  <2>3. chunk'[e] \in 1 .. Lesser(unsent'[e], BufSize)
    <3>1. Lesser(rest, BufSize) \in Nat \ {0}
      BY <1>3, <1>7, <1>15 DEF Lesser
    <3> QED
      BY <3>1, <2>1
  <2>4. end = written'[e] + unsent'[e] - Lesser(unsent'[e], BufSize) + chunk'[e]
    <3>1. Lesser(rest, BufSize) \in Nat
      BY <1>3, <1>7, LesserNat
    <3>2. end = written'[e] + rest
      BY <1>3, <1>6, <1>7, <1>9, <2>2
    <3> QED
      BY <3>1, <3>2, <2>1, <1>7, <1>9, <1>3
  <2>5. written'[e] <= end
    BY <1>3, <1>6, <1>7, <1>9, <2>2
  <2>6. Sender(e)'
    BY <1>2, <1>6, <1>10, <1>15, <2>1, <2>3, <2>4, <2>5 DEF Sender, Ended
  <2> QED
    BY <1>12, <1>13, <2>1, <2>5, <2>6
<1>16. CASE ~(n < chunk[e]) /\ ~(rest > 0)
  <2>1. n = chunk[e] /\ rest = 0
    BY <1>1, <1>3, <1>7, <1>16
  <2>2. written'[e] = end
    BY <1>3, <1>6, <1>7, <1>9, <2>1
  <2>3. \/ e = "client" /\ respSize = 0 /\ EndJob
        \/ /\ ~(e = "client" /\ respSize = 0)
           /\ pc' = [pc EXCEPT ![e] = EnterReceive(e)]
           /\ jobs' = jobs
    BY <1>8, <1>16
  <2>4. pc'[e] # "sending"
    BY <2>3, <1>4, Ends DEF EndJob, EnterReceive
  <2>5. Sender(e)'
    BY <1>10, <2>2, <2>4, <1>3 DEF Sender
  <2> QED
    BY <1>12, <1>13, <1>3, <2>2, <2>3, <2>5
<1> QED
  BY <1>14, <1>15, <1>16

(* The responder inside send() answers the last request of the client.     *)
LEMMA ServerSends ==
  ASSUME StreamInv, pc["server"] = "sending"
  PROVE  /\ content["server"] = 0
         /\ taken["server"] = written["client"]
         /\ pc["client"] \notin {"ready", "sending", "deliver"}
<1>1. TypeOK /\ Progress /\ Conversation
  BY DEF StreamInv
<1>2. Handled("server") = Requests /\ pc["client"] \notin {"ready", "sending", "deliver"}
  BY <1>1 DEF Conversation
<1> QED
  BY <1>1, <1>2, AllHandled, Ends DEF Requests, Ended

(* A sendto of the client: inside a request, or its end, or the whole      *)
(* job's.                                                                  *)
LEMMA SendBytesClient ==
  ASSUME StreamInv, TypeOK', SendBytes("client")
  PROVE  StreamInv'
<1>1. TypeOK /\ WireLayout /\ Progress /\ JobProgress /\ Conversation
      /\ NoProtocolException /\ BugOnlyOnFragmentOrSize
  BY DEF StreamInv
<1>2. /\ pc["client"] = "sending" /\ UNCHANGED <<seq, reqSize, respSize, wire, scribbled>>
      /\ UNCHANGED <<taken, bufBase, bufPos, content, cur, todo>>
      /\ UNCHANGED receivedPackets
  BY DEF SendBytes, recvVars
<1>3. Quiet /\ pc["server"] # "sending" /\ content["client"] = 0
  BY <1>1, <1>2 DEF Conversation, Quiet
<1>4. /\ Sender("client")'
      /\ Grows("client")
      /\ Same("server") \/ pc'["server"] # pc["server"]
      /\ \/ pc' = pc /\ jobs' = jobs
         \/ /\ respSize = 0
            /\ EndJob
         \/ /\ respSize # 0
            /\ pc' = [pc EXCEPT !["client"] = EnterReceive("client")]
            /\ jobs' = jobs
  BY <1>1, SendBytesOutcome, Ends
<1>5. /\ pc'["server"] = pc["server"]
      /\ \/ pc'["client"] = "sending" /\ jobs' = jobs
         \/ pc'["client"] \in {"ready", "done"} /\ respSize = 0 /\ jobs' = jobs + 1
         \/ pc'["client"] = "recv" /\ respSize # 0 /\ jobs' = jobs
  <2>1. pc \in [End -> States]
    BY <1>1 DEF TypeOK, States
  <2>2. EnterReceive("client") = "recv"
    BY <1>3 DEF EnterReceive
  <2>3. \/ pc' = pc /\ jobs' = jobs
        \/ /\ pc' = [pc EXCEPT !["client"] = "ready"] \/ pc' = [pc EXCEPT !["client"] = "done"]
           /\ respSize = 0 /\ jobs' = jobs + 1
        \/ pc' = [pc EXCEPT !["client"] = "recv"] /\ respSize # 0 /\ jobs' = jobs
    BY <1>4, <2>2 DEF EndJob
  <2> QED
    BY <2>1, <2>3, <1>2, Ends
<1>6. Sender("server")' /\ Receiver("server")' /\ Buffer("server")'
  BY <1>1, <1>4, <1>5, OtherFrame, Ends
<1>7. Receiver("client") /\ Buffer("client") /\ Receiver("server")
  BY <1>1, Ends DEF Progress
<1>8. written'["server"] = written["server"]
  BY <1>4, <1>5 DEF Same
<1>9. Receiver("client")'
  <2>1. HeaderSize > 0
    BY BabblerAssumption
  <2> QED
    BY <1>2, <1>3, <1>5, <1>7, <1>8, <2>1, ReceiverIdle, Ends DEF Ended
<1>10. Buffer("client")'
  BY <1>2, <1>3, <1>5, <1>7 DEF Buffer, Ended
<1>11. WireLayout'
  BY <1>1, <1>2 DEF WireLayout
<1>12. JobProgress'
  <2>1. /\ seq = jobs + 1 /\ reqSize >= HeaderSize /\ reqSize # HeaderSize
        /\ reqSize > HeaderSize =>
             /\ Requests > 0 /\ wire["client"][Requests].seq = seq
             /\ respSize = 0 => wire["client"][Requests].options = 0
        /\ Requests > 0 => wire["client"][Requests].seq <= seq
    BY <1>1, <1>2 DEF JobProgress, Ended
  <2>2. Requests' = Requests
    BY <1>2 DEF Requests
  <2>3. jobs \in Nat
    BY <1>1, NumberTypes
  <2>4. jobs' <= seq /\ (jobs' = jobs + 1 => jobs' = seq)
    BY <1>5, <2>1, <2>3
  <2> QED
    BY <1>2, <1>5, <2>1, <2>2, <2>4 DEF JobProgress, Ended
<1>13. Conversation'
  <2>1. /\ Requests' = Requests /\ Responses' = Responses
        /\ Handled("client")' = Handled("client") /\ Handled("server")' = Handled("server")
    BY <1>2 DEF Requests, Responses, Handled
  <2>2. Quiet'
    BY <1>2, <1>3, <1>5, <2>1 DEF Quiet, After
  <2>3. AllAnswered(Requests - 1) /\ Requests \in Nat
    BY <1>1, NumberTypes DEF Conversation
  <2>4. \A i : Answered(i)' = Answered(i)
    BY <1>2, <1>5, <2>1 DEF Answered, Handled
  <2>5. AllAnswered(Requests - 1)'
    BY <2>1, <2>3, <2>4 DEF AllAnswered
  <2>8. reqSize > HeaderSize /\ reqSize # HeaderSize
    <3>1. reqSize >= HeaderSize /\ reqSize # HeaderSize
      BY <1>1, <1>2 DEF JobProgress, Ended
    <3>2. reqSize \in Nat /\ HeaderSize \in Nat
      BY <1>1, BabblerAssumption DEF TypeOK
    <3> QED
      BY <3>1, <3>2
  <2>6. pc'["client"] = "ready" => AllAnswered(Requests)'
    <3> SUFFICES ASSUME pc'["client"] = "ready" PROVE AllAnswered(Requests)'
      OBVIOUS
    <3>1. wire["client"][Requests].options = 0
      BY <1>1, <1>2, <1>5, <2>8 DEF JobProgress, Ended
    <3>2. \A i \in 1 .. Requests : Answered(i)
      <4> TAKE i \in 1 .. Requests
      <4>1. i = Requests \/ i \in 1 .. Requests - 1
        BY <2>3
      <4> QED
        BY <4>1, <3>1, <2>3 DEF Answered, AllAnswered
    <3> QED
      BY <3>2, <2>1, <2>4 DEF AllAnswered
  <2>7. pc["server"] = "parse" /\ content["server"] < HeaderSize =>
           /\ Handled("server") > 0
           /\ wire["client"][Handled("server")].options = 0
    BY <1>1 DEF Conversation
  <2> QED
    BY <1>2, <1>3, <1>5, <2>1, <2>2, <2>5, <2>6, <2>7, <2>8 DEF Conversation, Ended
<1>14. NoProtocolException'
  BY <1>1, <1>5, Ends DEF NoProtocolException
<1>15. BugOnlyOnFragmentOrSize'
  BY <1>1, <1>2, <1>5 DEF BugOnlyOnFragmentOrSize
<1> QED
  BY <1>4, <1>6, <1>9, <1>10, <1>11, <1>12, <1>13, <1>14, <1>15, ProgressBy DEF StreamInv

(* A sendto of the responder: inside a response or its end.                *)
LEMMA SendBytesServer ==
  ASSUME StreamInv, TypeOK', SendBytes("server")
  PROVE  StreamInv'
<1>1. TypeOK /\ WireLayout /\ Progress /\ JobProgress /\ Conversation
      /\ NoProtocolException /\ BugOnlyOnFragmentOrSize
  BY DEF StreamInv
<1>2. /\ pc["server"] = "sending" /\ UNCHANGED <<seq, reqSize, respSize, wire, scribbled>>
      /\ UNCHANGED <<taken, bufBase, bufPos, content, cur, todo>>
      /\ UNCHANGED receivedPackets
  BY DEF SendBytes, recvVars
<1>3. content["server"] = 0 /\ pc["client"] \notin {"ready", "sending", "deliver"}
  BY <1>2, ServerSends
<1>4. /\ Sender("server")'
      /\ Grows("server")
      /\ Same("client") \/ pc'["client"] # pc["client"]
      /\ jobs' = jobs
      /\ pc' = pc \/ pc' = [pc EXCEPT !["server"] = EnterReceive("server")]
  BY <1>1, SendBytesOutcome, Ends
<1>5. /\ pc'["client"] = pc["client"]
      /\ pc'["server"] \in {"sending", "recv"}
  <2>1. pc \in [End -> States]
    BY <1>1 DEF TypeOK, States
  <2>2. EnterReceive("server") = "recv"
    BY <1>3 DEF EnterReceive
  <2> QED
    BY <1>4, <2>1, <2>2, <1>2, Ends
<1>6. Sender("client")' /\ Receiver("client")' /\ Buffer("client")'
  BY <1>1, <1>4, <1>5, OtherFrame, Ends
<1>7. Receiver("server") /\ Buffer("server")
  BY <1>1, Ends DEF Progress
<1>8. written'["client"] = written["client"]
  BY <1>4, <1>5 DEF Same
<1>9. Receiver("server")'
  <2>1. HeaderSize > 0
    BY BabblerAssumption
  <2> QED
    BY <1>2, <1>3, <1>5, <1>7, <1>8, <2>1, ReceiverIdle, Ends DEF Ended
<1>10. Buffer("server")'
  BY <1>2, <1>3, <1>5, <1>7 DEF Buffer, Ended
<1>11. WireLayout'
  BY <1>1, <1>2 DEF WireLayout
<1>12. JobProgress'
  BY <1>1, <1>2, <1>4, <1>5 DEF JobProgress, Requests
<1>13. Conversation'
  <2>1. /\ Requests' = Requests /\ Responses' = Responses
        /\ Handled("client")' = Handled("client") /\ Handled("server")' = Handled("server")
    BY <1>2 DEF Requests, Responses, Handled
  <2>2. ~Quiet
    BY <1>2 DEF Quiet
  <2>3. Answering => Answering'
    BY <1>2, <1>5, <2>1 DEF Answering
  <2>4. AllAnswered(Requests - 1)
    BY <1>1 DEF Conversation
  <2>5. \A i : Answered(i) => Answered(i)'
    BY <1>2, <1>5, <2>1 DEF Answered, Handled
  <2>6. AllAnswered(Requests - 1)'
    BY <2>1, <2>4, <2>5 DEF AllAnswered
  <2> QED
    BY <1>1, <1>2, <1>3, <1>5, <2>1, <2>2, <2>3, <2>6 DEF Conversation
<1>14. NoProtocolException'
  BY <1>1, <1>5, Ends DEF NoProtocolException
<1>15. BugOnlyOnFragmentOrSize'
  BY <1>1, <1>2, <1>5 DEF BugOnlyOnFragmentOrSize
<1> QED
  BY <1>4, <1>6, <1>9, <1>10, <1>11, <1>12, <1>13, <1>14, <1>15, ProgressBy DEF StreamInv

(* The responder returns to receive(): the request wants no response.      *)
LEMMA SendResponseNone ==
  ASSUME StreamInv, TypeOK', pc["server"] = "deliver",
         wire["client"][cur["server"]].options = 0,
         pc' = [pc EXCEPT !["server"] = EnterReceive("server")],
         scribbled' = [scribbled EXCEPT !["server"] = Greater(@, HeaderSize)],
         UNCHANGED sendVars,
         UNCHANGED <<jobVars, recvVars, statVars, envVars>>
  PROVE  StreamInv'
<1>1. TypeOK /\ WireLayout /\ Progress /\ JobProgress /\ Conversation
      /\ NoProtocolException /\ BugOnlyOnFragmentOrSize
  BY DEF StreamInv
<1>2. /\ UNCHANGED <<wire, written, unsent, chunk>>
      /\ UNCHANGED <<seq, reqSize, respSize, jobs>>
      /\ UNCHANGED <<taken, bufBase, bufPos, content, cur, todo>>
      /\ UNCHANGED receivedPackets
  BY DEF sendVars, jobVars, recvVars, statVars
<1>3. /\ pc'["client"] = pc["client"]
      /\ pc'["server"] = IF content["server"] = 0 THEN "recv" ELSE "parse"
  BY <1>1, Ends DEF TypeOK, EnterReceive
<1>4. /\ content["server"] \in Nat /\ HeaderSize \in Nat \ {0}
      /\ scribbled["server"] \in Nat /\ bufPos["server"] \in Nat
  BY <1>1, Ends, BabblerAssumption DEF TypeOK
<1>5. scribbled'["client"] = scribbled["client"]
  BY <1>1, Ends DEF TypeOK
<1>6. Same("client") /\ Grows("server") /\ Grows("client")
  BY <1>1, <1>2, <1>3, <1>5, GrowsSame, Ends DEF Same
<1>7. Sender("client")' /\ Receiver("client")' /\ Buffer("client")'
  BY <1>1, <1>6, OtherFrame, Ends
<1>8. Sender("server") /\ Receiver("server") /\ Buffer("server")
  BY <1>1, Ends DEF Progress
<1>9. Sender("server")'
  <2>1. {pc["server"], pc'["server"]} \cap ({"sending"} \cup Ended) = {}
    BY <1>3 DEF Ended
  <2> QED
    BY <2>1, <1>2, <1>8, SenderFrame, Ends
<1>10. Receiver("server")'
  <2>1. /\ pc'["server"] \notin {"body", "deliver"}
        /\ pc'["server"] = "recv" => content["server"] < HeaderSize
        /\ pc'["server"] = "parse" => content["server"] > 0
    BY <1>3, <1>4
  <2> QED
    BY <2>1, <1>2, <1>8, ReceiverIdle, Ends DEF Ended
<1>11. Buffer("server")'
  <2>1. CASE content["server"] = 0
    BY <2>1, <1>2, <1>3, <1>8, <1>4 DEF Buffer, Ended
  <2>2. CASE content["server"] # 0
    <3>1. /\ bufBase["server"] + bufPos["server"] + content["server"] = taken["server"]
          /\ bufPos["server"] + content["server"] <= BufSize
          /\ scribbled["server"] <= bufPos["server"]
          /\ bufPos["server"] >= HeaderSize
      BY <2>2, <1>4, <1>8 DEF Buffer, Ended
    <3>2. scribbled'["server"] = Greater(scribbled["server"], HeaderSize)
      BY <1>1, Ends DEF TypeOK
    <3>3. scribbled'["server"] <= bufPos["server"]
      BY <1>4, <3>1, <3>2 DEF Greater
    <3> QED
      BY <2>2, <1>2, <1>3, <3>1, <3>3 DEF Buffer, Ended
  <2> QED
    BY <2>1, <2>2
<1>12. WireLayout'
  BY <1>1, <1>2 DEF WireLayout
<1>13. JobProgress'
  BY <1>1, <1>2, <1>3 DEF JobProgress, Requests
<1>14. cur["server"] = Handled("server") /\ Handled("server") > 0
  BY <1>8 DEF Receiver
<1>15. Conversation'
  <2>1. /\ Requests' = Requests /\ Responses' = Responses
        /\ Handled("client")' = Handled("client") /\ Handled("server")' = Handled("server")
    BY <1>2 DEF Requests, Responses, Handled
  <2>2. \A i : Answered(i) => Answered(i)'
    BY <1>2, <1>3, <1>14, <2>1 DEF Answered, Handled
  <2>3. /\ AllAnswered(Requests - 1) => AllAnswered(Requests - 1)'
        /\ AllAnswered(Requests) => AllAnswered(Requests)'
    BY <2>1, <2>2 DEF AllAnswered
  <2>4. Quiet => Quiet'
    BY <1>2, <1>3, <2>1 DEF Quiet, After
  <2>5. Answering => Answering'
    BY <1>2, <1>3, <2>1 DEF Answering
  <2>6. wire'["client"][Handled("server")'].options = 0 /\ Handled("server")' > 0
    BY <1>2, <1>14, <2>1
  <2>7. pc'["server"] # "sending" /\ pc'["server"] # "deliver"
    BY <1>3
  <2> QED
    BY <1>1, <1>2, <1>3, <2>1, <2>3, <2>4, <2>5, <2>6, <2>7 DEF Conversation
<1>16. NoProtocolException'
  BY <1>1, <1>3, Ends DEF NoProtocolException
<1>17. BugOnlyOnFragmentOrSize'
  BY <1>1, <1>2, <1>3 DEF BugOnlyOnFragmentOrSize
<1> QED
  BY <1>7, <1>9, <1>10, <1>11, <1>12, <1>13, <1>15, <1>16, <1>17, ProgressBy DEF StreamInv

(* The responder begins to send: it has just been given the last request,  *)
(* and the client waits for the answer.                                    *)
LEMMA SendResponseSome ==
  ASSUME StreamInv, TypeOK', pc["server"] = "deliver",
         wire["client"][cur["server"]].options # 0,
         pc' = [pc EXCEPT !["server"] = "sending"],
         BeginSend("server",
           [start |-> written["server"],
            len |-> wire["client"][cur["server"]].options + HeaderSize,
            seq |-> wire["client"][cur["server"]].seq, options |-> 0]),
         UNCHANGED <<jobVars, recvVars, statVars, envVars>>
  PROVE  StreamInv'
<1> DEFINE request == wire["client"][cur["server"]]
           m == [start |-> written["server"], len |-> request.options + HeaderSize,
                 seq |-> request.seq, options |-> 0]
<1>1. TypeOK /\ WireLayout /\ Progress /\ JobProgress /\ Conversation
      /\ NoProtocolException /\ BugOnlyOnFragmentOrSize
  BY DEF StreamInv
<1>2. /\ UNCHANGED <<seq, reqSize, respSize, jobs>>
      /\ UNCHANGED <<taken, bufBase, bufPos, content, cur, todo>>
      /\ UNCHANGED receivedPackets
  BY DEF jobVars, recvVars, statVars
<1>3. pc'["client"] = pc["client"] /\ pc'["server"] = "sending"
  BY <1>1, Ends DEF TypeOK
<1>4. Sender("server") /\ Receiver("server") /\ Buffer("server")
      /\ Sender("client") /\ Receiver("client") /\ Buffer("client")
  BY <1>1, Ends DEF Progress
<1>5. /\ cur["server"] = Handled("server") /\ Handled("server") > 0
      /\ Handled("server") <= Requests
      /\ Handled("server") \in Nat /\ Requests \in Nat /\ Responses \in Nat
  BY <1>1, <1>4, NumberTypes, Ends DEF Receiver, Requests
<1>6. ~Answered(Handled("server"))
  BY <1>5 DEF Answered
<1>7. Handled("server") = Requests
  <2>1. Handled("server") \notin 1 .. Requests - 1
    BY <1>1, <1>6 DEF Conversation, AllAnswered
  <2> QED
    BY <2>1, <1>5
<1>8. /\ content["server"] = 0 /\ pc["client"] # "sending"
      /\ taken["server"] = written["client"]
  BY <1>1, <1>7, AllHandled, Ends DEF Requests, Ended
<1>9. pc["client"] \notin {"ready", "sending", "deliver", "parse", "body"}
  <2>1. ~AllAnswered(Requests)
    BY <1>5, <1>6, <1>7 DEF AllAnswered
  <2> QED
    BY <2>1, <1>1, <1>8 DEF Conversation, Answering
<1>10. pc["client"] = "recv" => Quiet
  BY <1>1 DEF Conversation, Answering
<1>11. request \in Message /\ request = wire["client"][Requests]
  BY <1>1, <1>5, <1>7, WireType, Ends DEF Requests
<1>12. written["server"] \in Nat /\ HeaderSize \in Nat
  BY <1>1, Ends, BabblerAssumption DEF TypeOK
<1>13. request.options \in Nat /\ request.options # 0 /\ request.seq \in Nat
  BY <1>11 DEF Message
<1>14. /\ m \in Message /\ m.start = written["server"] /\ m.len > HeaderSize
       /\ m.seq = request.seq
  BY <1>11, <1>12, <1>13 DEF Message
<1>15. BeginSend("server", m)
  OBVIOUS
<1> HIDE DEF m, request
<1>16. written["server"] = After("server", Len(wire["server"]))
  BY <1>4 DEF Sender, Ended
<1>17. /\ Sender("server")'
       /\ Grows("server")
       /\ wire'["server"] = Append(wire["server"], m)
       /\ wire'["client"] = wire["client"]
  BY <1>1, <1>3, <1>14, <1>15, <1>16, BeginSendSender, Ends
<1>18. /\ written' = written /\ unsent'["client"] = unsent["client"]
       /\ chunk'["client"] = chunk["client"] /\ scribbled'["client"] = scribbled["client"]
  BY <1>1, <1>15, Ends DEF BeginSend, TypeOK
<1>19. Same("client")
  BY <1>2, <1>3, <1>17, <1>18 DEF Same
<1>20. Sender("client")' /\ Receiver("client")' /\ Buffer("client")'
  BY <1>1, <1>17, <1>19, OtherFrame, Ends
<1>21. Receiver("server")'
  BY <1>2, <1>3, <1>4, <1>17, <1>18, ReceiverIdle, Ends DEF Ended
<1>22. Buffer("server")'
  BY <1>2, <1>3, <1>4, <1>8 DEF Buffer, Ended
<1>23. WireLayout'
  <2>1. Layout(wire["client"]) /\ Layout(wire["server"])
    BY <1>1, Ends DEF WireLayout
  <2>2. wire["server"] \in Seq(Message)
    BY <1>1, NumberTypes
  <2>3. Layout(Append(wire["server"], m))
    BY <2>1, <2>2, <1>14, <1>16, AppendLayout DEF After
  <2> QED
    BY <2>1, <2>3, <1>17, LayoutBy
<1>24. /\ Requests' = Requests /\ Responses' = Responses + 1
       /\ wire'["server"][Responses + 1] = m
       /\ Handled("client")' = Handled("client") /\ Handled("server")' = Handled("server")
  <2>1. wire["server"] \in Seq(Message)
    BY <1>1, NumberTypes
  <2> QED
    BY <2>1, <1>2, <1>14, <1>17, AppendFacts DEF Requests, Responses, Handled
<1>25. JobProgress'
  BY <1>1, <1>2, <1>3, <1>17 DEF JobProgress, Requests
<1>26. Conversation'
  <2>1. \A i \in 1 .. Requests - 1 : Answered(i)'
    <3> TAKE i \in 1 .. Requests - 1
    <3>1. i < Handled("server")
      BY <1>5, <1>7
    <3> QED
      BY <3>1, <1>24 DEF Answered
  <2>2. AllAnswered(Requests - 1)'
    BY <2>1, <1>24 DEF AllAnswered
  <2>3. Quiet => Answering'
    BY <1>3, <1>7, <1>11, <1>14, <1>17, <1>24 DEF Quiet, Answering
  <2>4. ~(pc["client"] = "recv" /\ reqSize = HeaderSize)
    <3>1. ~AllAnswered(Requests)
      BY <1>5, <1>6, <1>7 DEF AllAnswered
    <3> QED
      BY <3>1, <1>1 DEF Conversation
  <2> QED
    BY <1>2, <1>3, <1>7, <1>9, <1>10, <1>24, <2>2, <2>3, <2>4 DEF Conversation
<1>27. NoProtocolException'
  BY <1>1, <1>3, Ends DEF NoProtocolException
<1>28. BugOnlyOnFragmentOrSize'
  BY <1>1, <1>2, <1>3 DEF BugOnlyOnFragmentOrSize
<1> QED
  BY <1>17, <1>20, <1>21, <1>22, <1>23, <1>25, <1>26, <1>27, <1>28, ProgressBy DEF StreamInv

(* The job ends with the answer to its own request: the check of the       *)
(* sequence number cannot fail.                                            *)
LEMMA RecvResponseInv ==
  ASSUME StreamInv, TypeOK', RecvResponse
  PROVE  StreamInv'
<1>1. TypeOK /\ WireLayout /\ Progress /\ JobProgress /\ Conversation
      /\ NoProtocolException /\ BugOnlyOnFragmentOrSize
  BY DEF StreamInv
<1>2. /\ pc["client"] = "deliver"
      /\ UNCHANGED <<wire, written, unsent, chunk>>
      /\ UNCHANGED <<seq, reqSize, respSize, scribbled>>
      /\ UNCHANGED <<taken, bufBase, bufPos, content, cur, todo>>
      /\ UNCHANGED receivedPackets
  BY DEF RecvResponse, sendVars, recvVars, statVars
<1>3. Sender("client") /\ Receiver("client") /\ Buffer("client")
  BY <1>1, Ends DEF Progress
<1>4. /\ Quiet /\ Handled("server") = Requests /\ pc["server"] # "deliver"
      /\ wire["server"][Responses].seq = wire["client"][Requests].seq
  BY <1>1, <1>2 DEF Conversation
<1>18. /\ seq = jobs + 1 /\ reqSize > HeaderSize
       /\ Requests > 0 /\ wire["client"][Requests].seq = seq
  <2>1. /\ seq = jobs + 1 /\ reqSize >= HeaderSize /\ reqSize # HeaderSize
        /\ reqSize > HeaderSize => Requests > 0 /\ wire["client"][Requests].seq = seq
    BY <1>1, <1>2 DEF JobProgress, Ended
  <2>2. reqSize \in Nat /\ HeaderSize \in Nat
    BY <1>1, BabblerAssumption DEF TypeOK
  <2> QED
    BY <2>1, <2>2
<1>5. wire["server"][cur["client"]].seq = seq
  BY <1>2, <1>3, <1>4, <1>18 DEF Receiver, Quiet
<1>6. EndJob
  BY <1>5 DEF RecvResponse
<1>7. /\ pc'["server"] = pc["server"] /\ pc'["client"] \in {"ready", "done"}
      /\ jobs' = jobs + 1
  <2>1. \/ pc' = [pc EXCEPT !["client"] = "done"] \/ pc' = [pc EXCEPT !["client"] = "ready"]
    BY <1>6 DEF EndJob
  <2> QED
    BY <1>1, <1>6, <2>1, Ends DEF EndJob, TypeOK
<1>8. Same("server") /\ Grows("client") /\ Grows("server")
  BY <1>1, <1>2, <1>7, GrowsSame, Ends DEF Same
<1>9. Sender("server")' /\ Receiver("server")' /\ Buffer("server")'
  BY <1>1, <1>8, OtherFrame, Ends
<1>10. Sender("client")'
  BY <1>2, <1>3, <1>7, SenderFrame, Ends DEF Ended
<1>11. Receiver("client")'
  BY <1>2, <1>3, <1>7, ReceiverIdle, Ends DEF Ended
<1>12. Buffer("client")'
  BY <1>2, <1>3, <1>4, <1>7 DEF Buffer, Quiet, Ended
<1>13. WireLayout'
  BY <1>1, <1>2 DEF WireLayout
<1>14. JobProgress'
  <2>1. Requests' = Requests /\ jobs' = seq /\ seq \in Nat
    BY <1>1, <1>2, <1>7, <1>18, NumberTypes DEF Requests
  <2> QED
    BY <1>1, <1>2, <1>7, <2>1 DEF JobProgress, Ended
<1>15. Conversation'
  <2>1. /\ Requests' = Requests /\ Responses' = Responses
        /\ Handled("client")' = Handled("client") /\ Handled("server")' = Handled("server")
    BY <1>2 DEF Requests, Responses, Handled
  <2>2. \A i \in 1 .. Requests : Answered(i)'
    <3> TAKE i \in 1 .. Requests
    <3>1. i < Handled("server") \/ i = Handled("server")
      BY <1>1, <1>4, NumberTypes
    <3> QED
      BY <3>1, <1>4, <1>7, <2>1 DEF Answered
  <2>3. AllAnswered(Requests)' /\ AllAnswered(Requests - 1)'
    BY <2>1, <2>2, NumberTypes, <1>1 DEF AllAnswered
  <2>4. Quiet'
    BY <1>2, <1>4, <1>7, <2>1 DEF Quiet, After
  <2>5. pc["server"] = "parse" /\ content["server"] < HeaderSize =>
           /\ Handled("server") > 0
           /\ wire["client"][Handled("server")].options = 0
    BY <1>1 DEF Conversation
  <2> QED
    BY <1>2, <1>4, <1>7, <2>1, <2>3, <2>4, <2>5 DEF Conversation, Quiet
<1>16. NoProtocolException'
  BY <1>1, <1>7, Ends DEF NoProtocolException
<1>17. BugOnlyOnFragmentOrSize'
  BY <1>1, <1>2, <1>7 DEF BugOnlyOnFragmentOrSize
<1> QED
  BY <1>9, <1>10, <1>11, <1>12, <1>13, <1>14, <1>15, <1>16, <1>17, ProgressBy DEF StreamInv

-----------------------------------------------------------------------------
(***************************************************************************)
(* Receiving: the steps of receive() keep the inductive invariant, because *)
(* the header at m_pBuf is always the one of the next message.             *)
(***************************************************************************)

(* Bytes of a header arrive behind those that are in m_buf already.        *)
LEMMA RecvHeaderProgress ==
  ASSUME StreamInv, TypeOK', NEW e \in End, RecvHeader(e)
  PROVE  /\ Sender(e)' /\ Receiver(e)' /\ Buffer(e)'
         /\ Same(Peer(e))
         /\ pc'[e] \in {"recv", "parse"}
         /\ pc'[e] = "parse" => content'[e] >= HeaderSize
         /\ taken[e] < written[Peer(e)]
         /\ taken'[e] - content'[e] = taken[e] - content[e]
<1> DEFINE p == Peer(e)
<1>1. TypeOK /\ Sender(e) /\ Receiver(e) /\ Buffer(e)
  BY DEF StreamInv, Progress
<1>2. PICK n \in Nat \ {0} : n <= Avail(e) /\ n <= BufSize - content[e] /\ TakeHeader(e, n)
  BY <1>1, RecvHeaderCount
<1>3. /\ pc[e] = "recv"
      /\ UNCHANGED <<wire, written, unsent, chunk>>
      /\ UNCHANGED <<bufPos, cur, todo, receivedPackets>>
  BY DEF RecvHeader, sendVars
<1>4. p \in End /\ p # e
  BY PeerEnd
<1>5. /\ taken \in [End -> Nat] /\ content \in [End -> Nat] /\ bufBase \in [End -> Nat]
      /\ scribbled \in [End -> Nat] /\ pc \in [End -> States]
  BY <1>1 DEF TypeOK, States
<1>6. /\ taken[e] \in Nat /\ written[p] \in Nat /\ content[e] \in Nat
      /\ bufBase[e] \in Nat /\ bufPos[e] \in Nat
      /\ BufSize \in Nat /\ HeaderSize \in Nat
  BY <1>1, <1>4, BabblerAssumption DEF TypeOK
<1>7. /\ taken'[e] = taken[e] + n /\ content'[e] = content[e] + n
      /\ bufBase'[e] = (IF content[e] = 0 THEN taken[e] ELSE bufBase[e])
      /\ scribbled'[e] = 0
  BY <1>2, <1>5 DEF TakeHeader
<1>8. /\ taken'[p] = taken[p] /\ content'[p] = content[p]
      /\ bufBase'[p] = bufBase[p] /\ scribbled'[p] = scribbled[p]
  BY <1>2, <1>4, <1>5 DEF TakeHeader
<1>9. /\ pc'[p] = pc[p]
      /\ pc'[e] = IF content'[e] < HeaderSize THEN "recv" ELSE "parse"
  <2>1. IF content[e] + n < HeaderSize THEN pc' = pc ELSE pc' = [pc EXCEPT ![e] = "parse"]
    BY <1>2 DEF TakeHeader
  <2> QED
    BY <2>1, <1>3, <1>4, <1>5, <1>7
<1>10. taken[e] < written[p] /\ taken'[e] <= written[p]
  BY <1>2, <1>6, <1>7 DEF Avail
<1>11. Same(p)
  BY <1>3, <1>8, <1>9 DEF Same
<1>12. Sender(e)'
  BY <1>1, <1>3, <1>9, SenderFrame DEF Ended
<1>13. taken'[e] - content'[e] = taken[e] - content[e]
  BY <1>6, <1>7
<1> HIDE DEF p
<1>14. Receiver(e)'
  <2>1. /\ Handled(e)' = Handled(e)
        /\ taken[e] - content[e] = After(p, Handled(e)) /\ Handled(e) <= Len(wire[p])
    BY <1>1, <1>3 DEF Receiver, Handled, Ended, p
  <2>2. After(p, Handled(e))' = After(p, Handled(e)) /\ wire'[p] = wire[p]
        /\ written'[p] = written[p]
    BY <1>3, <2>1 DEF After, Handled
  <2>3. /\ pc'[e] = "recv" => content'[e] < HeaderSize
        /\ pc'[e] = "parse" => content'[e] > 0
        /\ pc'[e] # "body" /\ pc'[e] # "deliver"
    BY <1>2, <1>6, <1>7, <1>9
  <2> QED
    BY <1>10, <1>13, <2>1, <2>2, <2>3 DEF Receiver, p
<1>15. Buffer(e)'
  <2>1. bufPos'[e] = 0 /\ (content[e] > 0 => bufBase[e] + content[e] = taken[e])
    BY <1>1, <1>3, <1>6 DEF Buffer, Ended
  <2>2. content'[e] > 0 /\ bufPos'[e] + content'[e] <= BufSize
    BY <1>2, <1>6, <1>7, <2>1
  <2>3. bufBase'[e] + bufPos'[e] + content'[e] = taken'[e]
    BY <1>6, <1>7, <2>1
  <2>4. pc'[e] # "deliver" /\ scribbled'[e] <= bufPos'[e]
    BY <1>7, <1>9, <2>1
  <2> QED
    BY <2>1, <2>2, <2>3, <2>4 DEF Buffer
<1>16. pc'[e] \in {"recv", "parse"} /\ (pc'[e] = "parse" => content'[e] >= HeaderSize)
  BY <1>6, <1>7, <1>9
<1> QED
  BY <1>10, <1>11, <1>12, <1>13, <1>14, <1>15, <1>16 DEF p

(* In the client they can only be the answer's, which is under way.        *)
LEMMA RecvHeaderInv ==
  ASSUME StreamInv, TypeOK', NEW e \in End, RecvHeader(e)
  PROVE  StreamInv'
<1>1. TypeOK /\ WireLayout /\ Progress /\ JobProgress /\ Conversation
      /\ NoProtocolException /\ BugOnlyOnFragmentOrSize
  BY DEF StreamInv
<1>2. StillWire /\ pc[e] = "recv" /\ UNCHANGED receivedPackets
  BY DEF StillWire, RecvHeader, sendVars, jobVars
<1>3. /\ Sender(e)' /\ Receiver(e)' /\ Buffer(e)'
      /\ Same(Peer(e))
      /\ pc'[e] \in {"recv", "parse"}
      /\ pc'[e] = "parse" => content'[e] >= HeaderSize
      /\ taken[e] < written[Peer(e)]
  BY RecvHeaderProgress
<1>4. Grows("client") /\ Grows("server") /\ WireLayout' /\ Requests' = Requests
      /\ Responses' = Responses
  BY <1>1, <1>2, StillWireFacts
<1>5. Sender(Peer(e))' /\ Receiver(Peer(e))' /\ Buffer(Peer(e))'
  <2>1. Peer(e) \in End /\ Grows(Peer(Peer(e)))
    BY <1>4, PeerEnd, Ends
  <2> QED
    BY <1>1, <1>3, <2>1, OtherFrame
<1>6. Progress'
  BY <1>3, <1>5, ProgressBy, Ends
<1>7. pc'[Peer(e)] = pc[Peer(e)] /\ content'[Peer(e)] = content[Peer(e)]
      /\ taken'[Peer(e)] = taken[Peer(e)]
  BY <1>3 DEF Same
<1>13. e = "client" => ~Quiet
  <2>1. written["server"] <= After("server", Responses)
    BY <1>1, Ends DEF Progress, Sender, Responses
  <2>2. /\ written["server"] \in Nat /\ taken["client"] \in Nat
    BY <1>1, Ends DEF TypeOK
  <2>3. After("server", Responses) \in Nat
    BY <1>1, WireType, Ends DEF Responses
  <2> QED
    BY <2>1, <2>2, <2>3, <1>3, Ends DEF Quiet
<1>14. e = "client" => reqSize # HeaderSize
  BY <1>1, <1>2, <1>13 DEF Conversation
<1>8. JobProgress'
  <2>1. \/ pc'["client"] = pc["client"]
        \/ /\ {pc["client"], pc'["client"]} \cap ({"ready"} \cup Ended) = {}
           /\ reqSize # HeaderSize
    BY <1>2, <1>3, <1>7, <1>14, Ends DEF Ended
  <2> QED
    BY <1>1, <1>2, <1>4, <2>1 DEF JobProgress, StillWire
<1>9. /\ Handled("client")' = Handled("client") /\ Handled("server")' = Handled("server")
  BY <1>2 DEF Handled
<1>10. Conversation'
  <2>1. CASE e = "client"
    <3>1. ~Quiet
      BY <1>13, <2>1
    <3>2. Answering
      BY <1>1, <1>2, <2>1, <3>1 DEF Conversation
    <3>3. Answering'
      BY <1>2, <1>4, <1>7, <1>9, <2>1, <3>2, Ends DEF Answering, StillWire
    <3>4. AllAnswered(Requests - 1)'
      BY <1>1, <1>2, <1>4, <1>7, <1>9, <2>1, Ends
         DEF Conversation, AllAnswered, Answered, StillWire
    <3> QED
      BY <1>1, <1>2, <1>3, <1>4, <1>7, <1>9, <1>14, <2>1, <3>3, <3>4, Ends
         DEF Conversation, StillWire
  <2>2. CASE e = "server"
    <3>1. \A i : Answered(i) => Answered(i)'
      BY <1>2, <1>3, <1>9, <2>2 DEF Answered, StillWire
    <3>2. /\ AllAnswered(Requests - 1) => AllAnswered(Requests - 1)'
          /\ AllAnswered(Requests) => AllAnswered(Requests)'
      BY <3>1, <1>4 DEF AllAnswered
    <3>3. Quiet => Quiet'
      BY <1>2, <1>3, <1>4, <1>7, <1>9, <2>2, Ends DEF Quiet, After, StillWire
    <3>4. Answering => Answering'
      BY <1>2, <1>3, <1>4, <1>9, <2>2 DEF Answering, StillWire
    <3>5. pc'["server"] # "deliver" /\ pc'["server"] # "sending"
      BY <1>3, <2>2
    <3>6. ~(pc'["server"] = "parse" /\ content'["server"] < HeaderSize)
      <4>1. content'["server"] \in Nat /\ HeaderSize \in Nat
        BY Ends, BabblerAssumption DEF TypeOK
      <4> QED
        BY <4>1, <1>3, <2>2
    <3> QED
      BY <1>1, <1>2, <1>4, <1>7, <1>9, <2>2, <3>2, <3>3, <3>4, <3>5, <3>6, Ends
         DEF Conversation, StillWire
  <2> QED
    BY <2>1, <2>2, Ends
<1>11. NoProtocolException'
  BY <1>1, <1>3, <1>7, Ends DEF NoProtocolException
<1>12. BugOnlyOnFragmentOrSize'
  BY <1>1, <1>2, <1>3, <1>7, Ends DEF BugOnlyOnFragmentOrSize, StillWire
<1> QED
  BY <1>4, <1>6, <1>8, <1>10, <1>11, <1>12 DEF StreamInv

(* receive() of the client has returned the answer.                        *)
LEMMA DeliverClient ==
  ASSUME TypeOK, TypeOK', Progress, Receiver("client")', Conversation,
         StillWire, Same("server"),
         Answering, pc["client"] \in {"parse", "body"},
         pc'["client"] = "deliver",
         Handled("client")' = Handled("client") + 1,
         content'["client"] = 0
  PROVE  Conversation'
<1>1. /\ Requests' = Requests /\ Responses' = Responses
      /\ wire' = wire /\ written' = written /\ pc'["server"] = pc["server"]
      /\ content'["server"] = content["server"]
      /\ Handled("server")' = Handled("server")
  BY StillWireFacts DEF StillWire, Same, Handled
<1>2. Handled("client")' = Responses
  BY DEF Answering
<1>3. /\ taken'["client"] <= written["server"]
      /\ taken'["client"] - content'["client"] = After("server", Responses)
  BY <1>1, <1>2, Ends DEF Receiver, After, Ended
<1>4. /\ written["server"] \in Nat /\ taken'["client"] \in Nat
      /\ After("server", Responses) \in Nat
  <2>1. written["server"] \in Nat /\ taken'["client"] \in Nat
    BY Ends DEF TypeOK
  <2>2. After("server", Responses) \in Nat
    BY WireType, Ends DEF Responses
  <2> QED
    BY <2>1, <2>2
<1>5. taken'["client"] = After("server", Responses)
  BY <1>3, <1>4
<1>6. pc["server"] # "sending"
  <2>1. pc["server"] = "sending" => written["server"] < After("server", Responses)
    BY SendingBehind, Ends DEF Responses
  <2> QED
    BY <2>1, <1>3, <1>4, <1>5
<1>7. Quiet'
  BY <1>1, <1>2, <1>5, <1>6 DEF Quiet, After
<1>8. AllAnswered(Requests - 1)'
  BY <1>1 DEF Conversation, AllAnswered, Answered
<1>9. /\ Handled("server")' = Requests' /\ pc'["server"] # "deliver"
      /\ wire'["server"][Responses'].seq = wire'["client"][Requests'].seq
  BY <1>1 DEF Answering
<1> QED
  BY <1>1, <1>6, <1>7, <1>8, <1>9 DEF Conversation

(* receive() of the responder has returned the next request.               *)
LEMMA DeliverServer ==
  ASSUME TypeOK, Progress, Conversation, StillWire, Same("client"),
         pc["server"] \in {"parse", "body"}, pc'["server"] = "deliver",
         Handled("server") < Requests,
         Handled("server")' = Handled("server") + 1
  PROVE  Conversation'
<1>1. /\ Requests' = Requests /\ Responses' = Responses
      /\ wire' = wire /\ reqSize' = reqSize /\ pc'["client"] = pc["client"]
      /\ content'["client"] = content["client"] /\ taken'["client"] = taken["client"]
      /\ Handled("client")' = Handled("client")
      /\ Handled("server") \in Nat /\ Requests \in Nat
  BY StillWireFacts, NumberTypes DEF StillWire, Same, Handled
<1>2. ~Answering /\ pc["client"] # "deliver"
  BY <1>1 DEF Answering, Conversation
<1>3. \A i \in Nat : Answered(i) => Answered(i)'
  BY <1>1 DEF Answered
<1>4. /\ AllAnswered(Requests - 1) => AllAnswered(Requests - 1)'
      /\ AllAnswered(Requests) => AllAnswered(Requests)'
  BY <1>1, <1>3 DEF AllAnswered
<1>5. Quiet => Quiet'
  BY <1>1 DEF Quiet, After
<1> QED
  BY <1>1, <1>2, <1>4, <1>5 DEF Conversation

(* A step inside receive() that returns no message.                        *)
LEMMA StillConversation ==
  ASSUME TypeOK, Conversation, StillWire, UNCHANGED receivedPackets,
         NEW e \in End, Same(Peer(e)),
         pc[e] \in {"parse", "body"},
         pc'[e] = "body" \/ (pc'[e] = "bug" /\ e = "server")
  PROVE  Conversation'
<1>1. /\ Requests' = Requests /\ Responses' = Responses
      /\ wire' = wire /\ reqSize' = reqSize /\ pc'[Peer(e)] = pc[Peer(e)]
      /\ content'[Peer(e)] = content[Peer(e)] /\ taken'[Peer(e)] = taken[Peer(e)]
      /\ Handled("client")' = Handled("client") /\ Handled("server")' = Handled("server")
  BY StillWireFacts DEF StillWire, Same, Handled
<1>2. CASE e = "client"
  <2>1. Answering => Answering'
    BY <1>1, <1>2, Ends DEF Answering
  <2>2. AllAnswered(Requests - 1) => AllAnswered(Requests - 1)'
    BY <1>1, <1>2, Ends DEF AllAnswered, Answered
  <2>3. Answering
    BY <1>2 DEF Conversation
  <2> QED
    BY <1>1, <1>2, <2>1, <2>2, <2>3, Ends DEF Conversation
<1>3. CASE e = "server"
  <2>1. \A i : Answered(i) => Answered(i)'
    BY <1>1, <1>3 DEF Answered
  <2>2. /\ AllAnswered(Requests - 1) => AllAnswered(Requests - 1)'
        /\ AllAnswered(Requests) => AllAnswered(Requests)'
    BY <1>1, <2>1 DEF AllAnswered
  <2>3. Quiet => Quiet'
    BY <1>1, <1>3, Ends DEF Quiet, After
  <2>4. Answering => Answering'
    BY <1>1, <1>3, Ends DEF Answering
  <2> QED
    BY <1>1, <1>3, <2>2, <2>3, <2>4, Ends DEF Conversation
<1> QED
  BY <1>2, <1>3, Ends

(* The header at m_pBuf is the one of the next message, and of no other.   *)
LEMMA NextHeader ==
  ASSUME TypeOK, WireLayout, Progress, NEW e \in End, pc[e] = "parse"
  PROVE  /\ Handled(e) \in Nat
         /\ Handled(e) + 1 \in 1 .. Len(wire[Peer(e)])
         /\ wire[Peer(e)][Handled(e) + 1].start = bufBase[e] + bufPos[e]
         /\ bufBase[e] + bufPos[e] + content[e] = taken[e]
         /\ \A i \in 1 .. Len(wire[Peer(e)]) :
              wire[Peer(e)][i].start = bufBase[e] + bufPos[e] => i = Handled(e) + 1
<1> DEFINE s    == wire[Peer(e)]
           k    == Handled(e)
           here == bufBase[e] + bufPos[e]
<1>1. Peer(e) \in End /\ s \in Seq(Message)
  BY PeerEnd, WireType
<1>2. /\ Len(s) \in Nat
      /\ \A i \in 1 .. Len(s) : s[i].start \in Nat /\ s[i].len \in Nat
      /\ \A i \in 0 .. Len(s) : Behind(s, i) \in Nat
  BY <1>1, StreamType
<1>3. /\ k \in Nat /\ bufBase[e] \in Nat /\ bufPos[e] \in Nat /\ content[e] \in Nat
      /\ taken[e] \in Nat /\ HeaderSize \in Nat
  BY BabblerAssumption DEF TypeOK, Handled
<1>4. /\ content[e] > 0 /\ k <= Len(s)
      /\ taken[e] - content[e] = Behind(s, k)
      /\ bufBase[e] + bufPos[e] + content[e] = taken[e]
  <2>1. Receiver(e) /\ Buffer(e)
    BY DEF Progress
  <2> HIDE DEF s, k
  <2>2. content[e] > 0
    BY <2>1 DEF Receiver
  <2> QED
    BY <2>1, <2>2 DEF Receiver, Buffer, After, Ended, s, k
<1>5. k # Len(s)
  BY <1>4, AllHandled DEF Ended
<1>6. /\ \A i \in 1 .. Len(s) : s[i].len > HeaderSize /\ s[i].start = Behind(s, i - 1)
      /\ \A i \in 0 .. Len(s), j \in 1 .. Len(s) : i < j => Behind(s, i) <= s[j].start
  BY <1>1 DEF WireLayout, Layout
<1>7. here = Behind(s, k)
  BY <1>2, <1>3, <1>4
<1> HIDE DEF s, k, here
<1>8. k + 1 \in 1 .. Len(s)
  BY <1>2, <1>3, <1>4, <1>5
<1>9. s[k + 1].start = here
  BY <1>3, <1>6, <1>7, <1>8
<1>10. ASSUME NEW i \in 1 .. Len(s), s[i].start = here
       PROVE  i = k + 1
  <2>1. /\ Behind(s, i) = s[i].start + s[i].len
        /\ Behind(s, k + 1) = s[k + 1].start + s[k + 1].len
    BY <1>3, <1>8 DEF Behind
  <2>2. ~(i < k + 1)
    <3> SUFFICES ASSUME i < k + 1 PROVE FALSE
      OBVIOUS
    <3>1. Behind(s, i) <= s[k + 1].start
      BY <1>6, <1>8
    <3> QED
      BY <3>1, <2>1, <1>2, <1>3, <1>6, <1>9, <1>10
  <2>3. ~(k + 1 < i)
    <3> SUFFICES ASSUME k + 1 < i PROVE FALSE
      OBVIOUS
    <3>1. Behind(s, k + 1) <= s[i].start
      BY <1>3, <1>6, <1>8
    <3>2. s[k + 1].len \in Nat /\ s[k + 1].len > HeaderSize /\ here \in Nat
      BY <1>2, <1>6, <1>8, <1>9
    <3> QED
      BY <3>1, <3>2, <2>1, <1>3, <1>9, <1>10
  <2> QED
    BY <2>2, <2>3, <1>3
<1> QED
  BY <1>3, <1>4, <1>8, <1>9, <1>10 DEF s, k, here

(* receive() finds the header of the next message, or, in the responder    *)
(* after a request that wants no response, too few bytes of it.            *)
LEMMA ParseOutcome ==
  ASSUME StreamInv, NEW e \in End, Parse(e)
  PROVE  \/ /\ e = "server" /\ content[e] < HeaderSize
            /\ pc' = [pc EXCEPT ![e] = "bug"]
            /\ UNCHANGED <<bufPos, content, cur, todo, receivedPackets>>
         \/ /\ content[e] >= HeaderSize
            /\ ParseMessage(e, Handled(e) + 1)
<1> DEFINE starts == {i \in 1 .. Len(wire[Peer(e)]) :
                        wire[Peer(e)][i].start = bufBase[e] + bufPos[e]}
<1>1. TypeOK /\ WireLayout /\ Progress /\ Conversation /\ pc[e] = "parse"
  BY DEF StreamInv, Parse
<1>2. /\ IF content[e] < HeaderSize
         THEN /\ pc' = [pc EXCEPT ![e] = "bug"]
              /\ UNCHANGED <<bufPos, content, cur, todo, receivedPackets>>
         ELSE IF starts = {} \/ scribbled[e] > bufPos[e]
         THEN /\ pc' = [pc EXCEPT ![e] = "exception"]
              /\ UNCHANGED <<bufPos, content, cur, todo, receivedPackets>>
         ELSE \E i \in starts : ParseMessage(e, i)
  BY DEF Parse
<1>3. /\ Handled(e) + 1 \in starts
      /\ \A i \in starts : i = Handled(e) + 1
  BY <1>1, NextHeader
<1>4. content[e] \in Nat /\ HeaderSize \in Nat /\ content[e] > 0
      /\ scribbled[e] \in Nat /\ bufPos[e] \in Nat
  <2>1. content[e] \in Nat /\ scribbled[e] \in Nat /\ bufPos[e] \in Nat
    BY <1>1 DEF TypeOK
  <2>2. content[e] > 0
    BY <1>1 DEF Progress, Receiver
  <2> QED
    BY <2>1, <2>2, BabblerAssumption
<1>5. ~(scribbled[e] > bufPos[e])
  <2>1. scribbled[e] <= bufPos[e]
    BY <1>1, <1>4 DEF Progress, Buffer, Ended
  <2> QED
    BY <2>1, <1>4
<1> HIDE DEF starts
<1>6. CASE content[e] < HeaderSize
  <2>1. e = "server"
    <3>1. e = "client" => content[e] >= HeaderSize
      BY <1>1 DEF Conversation
    <3> QED
      BY <3>1, <1>4, <1>6, Ends
  <2> QED
    BY <2>1, <1>2, <1>6
<1>7. CASE ~(content[e] < HeaderSize)
  <2>1. \E i \in starts : ParseMessage(e, i)
    BY <1>2, <1>3, <1>5, <1>7
  <2>2. ParseMessage(e, Handled(e) + 1)
    BY <2>1, <1>3
  <2> QED
    BY <2>2, <1>4, <1>7
<1> QED
  BY <1>6, <1>7

(* What holds of the stream and the buffer after each outcome.             *)
LEMMA ParseProgress ==
  ASSUME StreamInv, TypeOK', NEW e \in End, Parse(e)
  PROVE  /\ StillWire /\ Same(Peer(e)) /\ pc[e] = "parse"
         /\ Sender(e)' /\ Receiver(e)' /\ Buffer(e)'
         /\ \/ /\ e = "server" /\ content[e] < HeaderSize
               /\ pc'[e] = "bug" /\ content'[e] = content[e]
               /\ UNCHANGED receivedPackets
            \/ /\ pc'[e] = "body"
               /\ UNCHANGED receivedPackets
            \/ /\ pc'[e] = "deliver"
               /\ Handled(e) < Len(wire[Peer(e)])
               /\ Handled(e)' = Handled(e) + 1
<1> DEFINE p == Peer(e)
           k == Handled(e)
<1>1. TypeOK /\ WireLayout /\ Progress /\ Sender(e) /\ Receiver(e) /\ Buffer(e)
  BY DEF StreamInv, Progress
<1>2. /\ pc[e] = "parse"
      /\ UNCHANGED <<wire, written, unsent, chunk, seq, reqSize, respSize, jobs>>
      /\ UNCHANGED <<taken, bufBase, scribbled>>
  BY DEF Parse, sendVars, jobVars
<1>3. StillWire
  BY <1>2 DEF StillWire
<1>4. p \in End /\ p # e
  BY PeerEnd
<1>5. /\ pc \in [End -> States] /\ bufPos \in [End -> Nat] /\ content \in [End -> Nat]
      /\ cur \in [End -> Nat] /\ todo \in [End -> Nat] /\ receivedPackets \in [End -> Nat]
  BY <1>1 DEF TypeOK, States
<1>6. /\ k \in Nat
      /\ k + 1 \in 1 .. Len(wire[p])
      /\ wire[p][k + 1].start = bufBase[e] + bufPos[e]
      /\ bufBase[e] + bufPos[e] + content[e] = taken[e]
  BY <1>1, <1>2, NextHeader
<1>7. /\ bufBase[e] \in Nat /\ bufPos[e] \in Nat /\ content[e] \in Nat /\ taken[e] \in Nat
      /\ scribbled[e] \in Nat
      /\ BufSize \in Nat /\ HeaderSize \in Nat \ {0} /\ HeaderSize < BufSize
      /\ Len(wire[p]) \in Nat /\ wire[p][k + 1].start \in Nat /\ wire[p][k + 1].len \in Nat
      /\ wire[p][k + 1].len > HeaderSize
  <2>1. /\ bufBase[e] \in Nat /\ bufPos[e] \in Nat /\ content[e] \in Nat /\ taken[e] \in Nat
        /\ scribbled[e] \in Nat
    BY <1>1 DEF TypeOK
  <2>2. Len(wire[p]) \in Nat /\ wire[p][k + 1].start \in Nat /\ wire[p][k + 1].len \in Nat
    BY <1>1, <1>4, <1>6, WireType
  <2>3. wire[p][k + 1].len > HeaderSize
    BY <1>1, <1>4, <1>6 DEF WireLayout, Layout
  <2> QED
    BY <2>1, <2>2, <2>3, BabblerAssumption
<1>8. k < Len(wire[p])
  BY <1>6, <1>7
<1>9. content[e] > 0 /\ bufPos[e] + content[e] <= BufSize /\ scribbled[e] <= bufPos[e]
      /\ taken[e] <= written[p]
  BY <1>1, <1>2, <1>7 DEF Receiver, Buffer, Ended
<1> DEFINE len  == wire[p][k + 1].len
           left == len - content[e]
           next == IF left < 0 THEN bufPos[e] + len ELSE 0
<1>10. CASE /\ e = "server" /\ content[e] < HeaderSize
            /\ pc' = [pc EXCEPT ![e] = "bug"]
            /\ UNCHANGED <<bufPos, content, cur, todo, receivedPackets>>
  <2>1. pc'[e] = "bug" /\ pc'[p] = pc[p]
    BY <1>4, <1>5, <1>10
  <2>2. Same(p)
    BY <1>2, <1>10, <2>1 DEF Same
  <2>3. Sender(e)'
    BY <1>1, <1>2, <2>1, SenderFrame DEF Ended
  <2>4. Receiver(e)'
    BY <1>1, <1>2, <1>9, <1>10, <2>1, ReceiverEnds DEF Ended
  <2>5. Buffer(e)'
    BY <2>1 DEF Buffer, Ended
  <2> QED
    BY <1>2, <1>3, <1>10, <2>1, <2>2, <2>3, <2>4, <2>5
<1>11. CASE content[e] >= HeaderSize /\ ParseMessage(e, k + 1) /\ left > 0
  <2>1. /\ cur' = [cur EXCEPT ![e] = k + 1]
        /\ pc' = [pc EXCEPT ![e] = "body"]
        /\ todo' = [todo EXCEPT ![e] = left]
        /\ UNCHANGED <<bufPos, content, receivedPackets>>
    BY <1>11 DEF ParseMessage
  <2> HIDE DEF left, k
  <2>2. /\ pc'[e] = "body" /\ pc'[p] = pc[p]
        /\ cur'[e] = k + 1 /\ cur'[p] = cur[p]
        /\ todo'[e] = left /\ todo'[p] = todo[p]
    BY <2>1, <1>4, <1>5
  <2>3. Same(p)
    BY <1>2, <2>1, <2>2 DEF Same
  <2>4. Sender(e)'
    BY <1>1, <1>2, <2>2, SenderFrame DEF Ended
  <2>5. Handled(e)' = k
    BY <2>1 DEF Handled, k
  <2>6. left + HeaderSize <= len
    BY <1>7, <1>11 DEF left
  <2>7. After(p, k + 1) = wire[p][k + 1].start + len
    BY <1>6 DEF After, Behind
  <2>8. taken[e] + left = After(p, k + 1)
    BY <1>6, <1>7, <2>7 DEF left
  <2>9. k <= Len(wire[p]) /\ k + 1 <= Len(wire[p])
    BY <1>6, <1>7
  <2>10. Receiver(e)'
    BY <1>2, <1>9, <1>11, <2>2, <2>5, <2>6, <2>8, <2>9 DEF Receiver, After, Ended
  <2>11. Buffer(e)'
    BY <2>2 DEF Buffer
  <2> QED
    BY <1>2, <1>3, <2>1, <2>2, <2>3, <2>4, <2>10, <2>11
<1>12. CASE content[e] >= HeaderSize /\ ParseMessage(e, k + 1) /\ ~(left > 0)
  <2>1. next < BufSize /\ next \in Nat /\ -left \in Nat
    <3>1. /\ len \in Nat /\ content[e] \in Nat /\ bufPos[e] \in Nat
          /\ BufSize \in Nat /\ BufSize > 0 /\ bufPos[e] + content[e] <= BufSize
      BY <1>7, <1>9
    <3>2. ~(left > 0)
      BY <1>12
    <3> HIDE DEF len
    <3>3. -left \in Nat
      BY <3>1, <3>2
    <3>4. CASE left < 0
      BY <3>1, <3>3, <3>4
    <3>5. CASE ~(left < 0)
      BY <3>1, <3>3, <3>5
    <3> QED
      BY <3>4, <3>5
  <2>2. /\ cur' = [cur EXCEPT ![e] = k + 1]
        /\ bufPos' = [bufPos EXCEPT ![e] = next]
        /\ content' = [content EXCEPT ![e] = -left]
        /\ UNCHANGED todo
        /\ pc' = [pc EXCEPT ![e] = "deliver"]
        /\ receivedPackets' = [receivedPackets EXCEPT ![e] = @ + 1]
    <3>1. ~(next >= BufSize)
      BY <2>1, <1>7
    <3> QED
      BY <3>1, <1>12 DEF ParseMessage
  <2> DEFINE unparsed == -left
  <2>3. unparsed \in Nat /\ unparsed = content[e] - len /\ (unparsed = 0 => next = 0)
        /\ (unparsed > 0 => next = bufPos[e] + len)
    BY <1>7, <1>12
  <2> HIDE DEF unparsed, next, left, k, len
  <2>4. content' = [content EXCEPT ![e] = unparsed]
    BY <2>2 DEF unparsed
  <2>5. /\ pc'[e] = "deliver" /\ pc'[p] = pc[p]
        /\ cur'[e] = k + 1 /\ cur'[p] = cur[p]
        /\ bufPos'[e] = next /\ bufPos'[p] = bufPos[p]
        /\ content'[e] = unparsed /\ content'[p] = content[p]
        /\ todo' = todo
    BY <2>2, <2>4, <1>4, <1>5
  <2>6. /\ receivedPackets'[e] = receivedPackets[e] + 1
        /\ receivedPackets'[p] = receivedPackets[p]
    BY <2>2, <1>4, <1>5
  <2>7. Same(p)
    BY <1>2, <2>5, <2>6 DEF Same
  <2>8. Sender(e)'
    BY <1>1, <1>2, <2>5, SenderFrame DEF Ended
  <2>9. Handled(e)' = k + 1
    BY <2>6 DEF Handled, k
  <2>10. After(p, k + 1) = wire[p][k + 1].start + len
    BY <1>6 DEF After, Behind, len
  <2>11. len \in Nat /\ len > HeaderSize
    BY <1>7 DEF len
  <2>12. taken[e] - unparsed = After(p, k + 1)
    BY <1>6, <1>7, <2>3, <2>10, <2>11
  <2>13. k + 1 <= Len(wire[p]) /\ k + 1 > 0
    BY <1>6, <1>7
  <2>14. Receiver(e)'
    BY <1>2, <1>9, <2>5, <2>9, <2>12, <2>13 DEF Receiver, After, Ended
  <2>15. Buffer(e)'
    <3>1. CASE unparsed = 0
      BY <3>1, <2>3, <2>5 DEF Buffer
    <3>2. CASE unparsed > 0
      <4>1. bufBase[e] + next + unparsed = taken[e]
        <5>1. next = bufPos[e] + len /\ unparsed = content[e] - len
          BY <3>2, <2>3
        <5>2. bufBase[e] + bufPos[e] + content[e] = taken[e]
          BY <1>6
        <5>3. /\ bufBase[e] \in Nat /\ bufPos[e] \in Nat /\ content[e] \in Nat
              /\ taken[e] \in Nat /\ len \in Nat
          BY <1>7, <2>11
        <5> QED
          BY <5>1, <5>2, <5>3
      <4>2. next + unparsed <= BufSize
        BY <3>2, <2>3, <2>11, <1>7, <1>9
      <4>3. scribbled[e] <= next /\ next >= HeaderSize
        BY <3>2, <2>3, <2>11, <1>7, <1>9
      <4> QED
        BY <3>2, <4>1, <4>2, <4>3, <1>2, <2>5 DEF Buffer
    <3> QED
      BY <3>1, <3>2, <2>3
  <2> QED
    BY <1>2, <1>3, <1>8, <2>5, <2>7, <2>8, <2>9, <2>14, <2>15 DEF k
<1>13. \/ /\ e = "server" /\ content[e] < HeaderSize
          /\ pc' = [pc EXCEPT ![e] = "bug"]
          /\ UNCHANGED <<bufPos, content, cur, todo, receivedPackets>>
       \/ content[e] >= HeaderSize /\ ParseMessage(e, k + 1)
  BY ParseOutcome
<1> QED
  BY <1>10, <1>11, <1>12, <1>13

(* A step of receive() behind its header keeps the inductive invariant.    *)
LEMMA ReceiveInv ==
  ASSUME StreamInv, TypeOK', NEW e \in End, pc[e] \in {"parse", "body"},
         StillWire, Same(Peer(e)), Sender(e)', Receiver(e)', Buffer(e)',
         \/ /\ e = "server" /\ pc[e] = "parse" /\ content[e] < HeaderSize
            /\ pc'[e] = "bug" /\ content'[e] = content[e]
            /\ UNCHANGED receivedPackets
         \/ /\ pc'[e] = "body"
            /\ UNCHANGED receivedPackets
         \/ /\ pc'[e] = "deliver"
            /\ Handled(e) < Len(wire[Peer(e)])
            /\ Handled(e)' = Handled(e) + 1
  PROVE  StreamInv'
<1>1. TypeOK /\ WireLayout /\ Progress /\ JobProgress /\ Conversation
      /\ NoProtocolException /\ BugOnlyOnFragmentOrSize
  BY DEF StreamInv
<1>2. Grows("client") /\ Grows("server") /\ WireLayout' /\ Requests' = Requests
      /\ Responses' = Responses
  BY <1>1, StillWireFacts
<1>3. Sender(Peer(e))' /\ Receiver(Peer(e))' /\ Buffer(Peer(e))'
  <2>1. Peer(e) \in End /\ Grows(Peer(Peer(e)))
    BY <1>2, PeerEnd, Ends
  <2> QED
    BY <1>1, <2>1, OtherFrame
<1>4. Progress'
  BY <1>3, ProgressBy, Ends
<1>5. pc'[Peer(e)] = pc[Peer(e)] /\ content'[Peer(e)] = content[Peer(e)]
  BY DEF Same
<1>6. pc'[e] \in {"bug", "body", "deliver"} /\ (pc'[e] = "bug" => e = "server")
  OBVIOUS
<1>7. JobProgress'
  <2>1. \/ pc'["client"] = pc["client"]
        \/ {pc["client"], pc'["client"]} \cap ({"ready", "recv"} \cup Ended) = {}
    BY <1>5, <1>6, Ends DEF Ended
  <2> QED
    BY <1>1, <1>2, <2>1 DEF JobProgress, StillWire
<1>8. NoProtocolException'
  BY <1>1, <1>5, <1>6, Ends DEF NoProtocolException
<1>9. BugOnlyOnFragmentOrSize'
  <2>1. pc'["client"] = "bug" => respSize' \in 1 .. HeaderSize - 1 \/ reqSize' < HeaderSize
    BY <1>1, <1>5, <1>6, Ends DEF BugOnlyOnFragmentOrSize, StillWire
  <2>2. ASSUME pc'["server"] = "bug"
        PROVE  /\ content'["server"] \in 1 .. HeaderSize - 1
               /\ \E i \in 1 .. Len(wire["client"]) : wire["client"][i].options = 0
    <3>1. CASE e = "client"
      BY <1>1, <1>5, <2>2, <3>1, Ends DEF BugOnlyOnFragmentOrSize
    <3>2. CASE e = "server"
      <4>1. pc["server"] = "parse" /\ content["server"] < HeaderSize
            /\ content'["server"] = content["server"]
        BY <2>2, <3>2
      <4>2. content["server"] > 0 /\ Handled("server") <= Len(wire["client"])
        BY <1>1, <4>1, Ends DEF Progress, Receiver
      <4>3. /\ Handled("server") > 0
            /\ wire["client"][Handled("server")].options = 0
        BY <1>1, <4>1 DEF Conversation
      <4>4. content["server"] \in Nat /\ HeaderSize \in Nat
            /\ Handled("server") \in Nat /\ Len(wire["client"]) \in Nat
        <5>1. content["server"] \in Nat
          BY <1>1, Ends DEF TypeOK
        <5> QED
          BY <5>1, <1>1, NumberTypes, BabblerAssumption DEF Requests
      <4>5. Handled("server") \in 1 .. Len(wire["client"])
        BY <4>2, <4>3, <4>4
      <4>6. content'["server"] \in 1 .. HeaderSize - 1
        BY <4>1, <4>2, <4>4
      <4> QED
        BY <4>3, <4>5, <4>6
    <3> QED
      BY <3>1, <3>2, Ends
  <2> QED
    BY <2>1, <2>2 DEF BugOnlyOnFragmentOrSize, StillWire
<1>10. Conversation'
  <2>1. CASE pc'[e] \in {"bug", "body"}
    BY <1>1, <1>6, <2>1, StillConversation
  <2>2. CASE pc'[e] = "deliver" /\ e = "server"
    BY <1>1, <2>2, DeliverServer, Ends DEF Requests
  <2>3. CASE pc'[e] = "deliver" /\ e = "client"
    <3>1. Answering
      BY <1>1, <2>3 DEF Conversation
    <3>2. Handled("client")' = Handled("client") + 1
      BY <2>3
    <3>3. Handled("client")' = Responses
      BY <3>1, <3>2 DEF Answering
    <3>4. /\ taken'["client"] <= written'["server"]
          /\ taken'["client"] - content'["client"] = Behind(wire'["server"], Responses)
      BY <2>3, <3>3, Ends DEF Receiver, After, Ended
    <3>5. /\ written' = written /\ wire' = wire
          /\ written["server"] <= After("server", Responses)
      BY <1>1, Ends DEF StillWire, Progress, Sender, Responses
    <3>6. /\ written["server"] \in Nat /\ taken'["client"] \in Nat /\ content'["client"] \in Nat
      BY <1>1, Ends DEF TypeOK
    <3>7. After("server", Responses) \in Nat
      BY <1>1, WireType, Ends DEF Responses
    <3>8. content'["client"] = 0
      <4>1. taken'["client"] - content'["client"] = After("server", Responses)
        BY <3>4, <3>5 DEF After
      <4>2. taken'["client"] <= written["server"]
        BY <3>4, <3>5
      <4> QED
        BY <3>5, <3>6, <3>7, <4>1, <4>2
    <3> QED
      BY <1>1, <2>3, <3>1, <3>2, <3>8, DeliverClient, Ends
  <2> QED
    BY <1>6, <2>1, <2>2, <2>3, Ends
<1> QED
  BY <1>2, <1>4, <1>7, <1>8, <1>9, <1>10 DEF StreamInv

(* A step that looks at the header keeps the inductive invariant.          *)
LEMMA ParseInv ==
  ASSUME StreamInv, TypeOK', NEW e \in End, Parse(e)
  PROVE  StreamInv'
BY ParseProgress, ReceiveInv

(* The pieces of a message behind its header are all its own payload.      *)
LEMMA RecvBodyInv ==
  ASSUME StreamInv, TypeOK', NEW e \in End, RecvBody(e)
  PROVE  StreamInv'
<1> DEFINE p == Peer(e)
           k == Handled(e)
           m == wire[p][cur[e]]
<1>1. TypeOK /\ WireLayout /\ Progress /\ Sender(e) /\ Receiver(e)
  BY DEF StreamInv, Progress
<1>2. /\ pc[e] = "body"
      /\ UNCHANGED <<wire, written, unsent, chunk, seq, reqSize, respSize, jobs>>
      /\ UNCHANGED <<bufBase, cur, scribbled>>
  BY DEF RecvBody, sendVars, jobVars
<1>3. PICK n \in Nat \ {0} : /\ n <= Avail(e) /\ n <= todo[e] /\ n <= BufSize
                             /\ TakeBody(e, n)
  BY <1>1, RecvBodyCount
<1>4. StillWire
  BY <1>2 DEF StillWire
<1>5. p \in End /\ p # e
  BY PeerEnd
<1>6. /\ pc \in [End -> States] /\ bufPos \in [End -> Nat] /\ content \in [End -> Nat]
      /\ taken \in [End -> Nat] /\ todo \in [End -> Nat] /\ receivedPackets \in [End -> Nat]
  BY <1>1 DEF TypeOK, States
<1>7. /\ cur[e] = k + 1 /\ cur[e] <= Len(wire[p])
      /\ todo[e] > 0
      /\ todo[e] + HeaderSize <= m.len
      /\ taken[e] + todo[e] = After(p, cur[e])
      /\ k <= Len(wire[p])
  BY <1>1, <1>2 DEF Receiver
<1>8. /\ taken[e] \in Nat /\ todo[e] \in Nat /\ written[p] \in Nat /\ cur[e] \in Nat
      /\ k \in Nat /\ HeaderSize \in Nat
  <2>1. taken[e] \in Nat /\ todo[e] \in Nat /\ written[p] \in Nat /\ cur[e] \in Nat
        /\ receivedPackets[e] \in Nat
    BY <1>1, <1>5 DEF TypeOK
  <2> QED
    BY <2>1, BabblerAssumption DEF Handled
<1>9. /\ Len(wire[p]) \in Nat /\ cur[e] \in 1 .. Len(wire[p])
      /\ m.start \in Nat /\ m.len \in Nat
      /\ After(p, cur[e]) = m.start + m.len
  <2>1. Len(wire[p]) \in Nat
    BY <1>1, <1>5, WireType
  <2>2. cur[e] \in 1 .. Len(wire[p]) /\ cur[e] # 0
    BY <2>1, <1>7, <1>8
  <2> QED
    BY <2>1, <2>2, <1>1, <1>5, WireType DEF After, Behind
<1> HIDE DEF m, k, p
<1>10. /\ m.start + HeaderSize <= taken[e]
       /\ taken[e] + n <= m.start + m.len
       /\ taken[e] + n <= written[p]
  <2>1. n <= written[p] - taken[e]
    BY <1>3 DEF Avail, p
  <2>2. n \in Nat /\ n <= todo[e]
    BY <1>3
  <2>3. taken[e] + todo[e] = m.start + m.len /\ todo[e] + HeaderSize <= m.len
    BY <1>7, <1>9
  <2>4. /\ taken[e] \in Nat /\ todo[e] \in Nat /\ written[p] \in Nat
        /\ m.start \in Nat /\ m.len \in Nat /\ HeaderSize \in Nat
    BY <1>8, <1>9
  <2> QED
    BY <2>1, <2>2, <2>3, <2>4
<1>11. /\ taken'   = [taken EXCEPT ![e] = taken[e] + n]
       /\ todo'    = [todo EXCEPT ![e] = todo[e] - n]
       /\ content' = [content EXCEPT ![e] = IF n = todo[e] THEN 0 ELSE n]
       /\ bufPos'  = [bufPos EXCEPT ![e] = IF n = todo[e] THEN 0 ELSE bufPos[e]]
       /\ pc'      = [pc EXCEPT ![e] = IF n = todo[e] THEN "deliver" ELSE pc[e]]
       /\ receivedPackets' = [receivedPackets EXCEPT ![e] =
                                IF n = todo[e] THEN receivedPackets[e] + 1
                                ELSE receivedPackets[e]]
  BY <1>3, <1>10 DEF TakeBody, m, p
<1>12. /\ taken'[e] = taken[e] + n
       /\ todo'[e] = todo[e] - n
       /\ content'[e] = IF n = todo[e] THEN 0 ELSE n
       /\ bufPos'[e] = IF n = todo[e] THEN 0 ELSE bufPos[e]
       /\ pc'[e] = IF n = todo[e] THEN "deliver" ELSE pc[e]
       /\ receivedPackets'[e] = IF n = todo[e] THEN receivedPackets[e] + 1
                                ELSE receivedPackets[e]
  BY <1>6, <1>11
<1>13. /\ taken'[p] = taken[p] /\ todo'[p] = todo[p] /\ content'[p] = content[p]
       /\ bufPos'[p] = bufPos[p] /\ pc'[p] = pc[p]
       /\ receivedPackets'[p] = receivedPackets[p]
  BY <1>5, <1>6, <1>11
<1>14. Same(p)
  BY <1>2, <1>13 DEF Same
<1>15. pc'[e] \in {"body", "deliver"}
  BY <1>2, <1>12
<1>16. Sender(e)'
  BY <1>1, <1>2, <1>15, SenderFrame DEF Ended
<1>17. taken'[e] <= written'[p]
  BY <1>2, <1>10, <1>12
<1>18. CASE n = todo[e]
  <2>1. /\ pc'[e] = "deliver" /\ content'[e] = 0 /\ bufPos'[e] = 0
        /\ Handled(e)' = k + 1
    BY <1>12, <1>18 DEF Handled, k
  <2>2. taken'[e] - content'[e] = After(p, cur[e])
    BY <1>7, <1>8, <1>9, <1>12, <1>18, <2>1
  <2>3. Receiver(e)'
    BY <1>2, <1>7, <1>8, <1>17, <2>1, <2>2 DEF Receiver, After, Ended, p
  <2>4. Buffer(e)'
    BY <2>1 DEF Buffer
  <2>5. Handled(e) < Len(wire[Peer(e)])
    BY <1>7, <1>8, <1>9 DEF k, p
  <2> QED
    BY <1>2, <1>4, <1>14, <1>16, <2>1, <2>3, <2>4, <2>5, ReceiveInv DEF k, p
<1>19. CASE n # todo[e]
  <2>1. /\ pc'[e] = "body" /\ Handled(e)' = k
        /\ receivedPackets' = receivedPackets
    BY <1>2, <1>6, <1>11, <1>12, <1>19 DEF Handled, k
  <2>2. /\ todo'[e] > 0
        /\ todo'[e] + HeaderSize <= m.len
        /\ taken'[e] + todo'[e] = After(p, cur[e])
    BY <1>3, <1>7, <1>8, <1>9, <1>12, <1>19
  <2>3. Receiver(e)'
    BY <1>2, <1>7, <1>17, <2>1, <2>2 DEF Receiver, After, m, p
  <2>4. Buffer(e)'
    BY <2>1 DEF Buffer
  <2> QED
    BY <1>2, <1>4, <1>14, <1>16, <2>1, <2>3, <2>4, ReceiveInv DEF p
<1> QED
  BY <1>18, <1>19

-----------------------------------------------------------------------------
(***************************************************************************)
(* Every step keeps the inductive invariant, and the theorems.             *)
(***************************************************************************)

(* A thread leaves its loop, wherever it is: what it was sending and       *)
(* receiving stays as it is, and its peer does not notice yet.             *)
LEMMA ThreadEnds ==
  ASSUME StreamInv, TypeOK', NEW e \in End, StillWire, Same(Peer(e)),
         UNCHANGED <<unsent, chunk, content, receivedPackets>>,
         taken'[e] <= written[Peer(e)], e = "server" => taken'[e] = taken[e],
         pc'[e] \in {"done", "error"}
  PROVE  StreamInv'
<1>1. TypeOK /\ WireLayout /\ Progress /\ JobProgress /\ Conversation
      /\ NoProtocolException /\ BugOnlyOnFragmentOrSize
  BY DEF StreamInv
<1>2. Grows("client") /\ Grows("server") /\ WireLayout' /\ Requests' = Requests
      /\ Responses' = Responses
  BY <1>1, StillWireFacts
<1>3. Sender(e) /\ Receiver(e)
  BY <1>1 DEF Progress
<1>4. Sender(e)'
  BY <1>3, SenderFrame DEF StillWire, Ended
<1>5. Receiver(e)'
  BY <1>3, ReceiverEnds DEF StillWire, Ended
<1>6. Buffer(e)'
  BY DEF Buffer, Ended
<1>7. Sender(Peer(e))' /\ Receiver(Peer(e))' /\ Buffer(Peer(e))'
  <2>1. Peer(e) \in End /\ Grows(Peer(Peer(e)))
    BY <1>2, PeerEnd, Ends
  <2> QED
    BY <1>1, <2>1, OtherFrame
<1>8. Progress'
  BY <1>4, <1>5, <1>6, <1>7, ProgressBy, Ends
<1>9. pc'[Peer(e)] = pc[Peer(e)] /\ taken'[Peer(e)] = taken[Peer(e)]
  BY DEF Same
<1>10. pc'[e] \notin {"ready", "sending", "recv", "parse", "body", "deliver",
                      "exception", "bug"}
  OBVIOUS
<1>11. JobProgress'
  <2>1. CASE e = "client"
    <3>1. pc'["client"] \in Ended
      BY <2>1 DEF Ended
    <3> QED
      BY <1>1, <1>2, <1>10, <2>1, <3>1 DEF JobProgress, StillWire
  <2>2. CASE e = "server"
    <3>1. pc'["client"] = pc["client"]
      BY <1>9, <2>2, Ends
    <3> QED
      BY <1>1, <1>2, <3>1 DEF JobProgress, StillWire
  <2> QED
    BY <2>1, <2>2, Ends
<1>12. NoProtocolException'
  BY <1>1, <1>9, <1>10, Ends DEF NoProtocolException
<1>13. BugOnlyOnFragmentOrSize'
  BY <1>1, <1>9, <1>10, Ends DEF BugOnlyOnFragmentOrSize, StillWire
<1>14. Conversation'
  <2>1. Handled("client")' = Handled("client") /\ Handled("server")' = Handled("server")
    BY DEF Handled
  <2>2. \A i : Answered(i) => Answered(i)'
    BY <1>9, <1>10, <2>1, Ends DEF Answered, StillWire
  <2>3. /\ AllAnswered(Requests - 1) => AllAnswered(Requests - 1)'
        /\ AllAnswered(Requests) => AllAnswered(Requests)'
    BY <2>2, <1>2 DEF AllAnswered
  <2>4. CASE e = "client"
    BY <1>1, <1>2, <1>9, <1>10, <2>1, <2>3, <2>4, Ends DEF Conversation, StillWire
  <2>5. CASE e = "server"
    <3>1. Quiet => Quiet'
      BY <1>2, <1>9, <1>10, <2>1, <2>5, Ends DEF Quiet, After, StillWire
    <3>2. Answering => Answering'
      BY <1>2, <1>10, <2>1, <2>5 DEF Answering, StillWire
    <3> QED
      BY <1>1, <1>2, <1>9, <1>10, <2>1, <2>3, <2>5, <3>1, <3>2, Ends
         DEF Conversation, StillWire
  <2> QED
    BY <2>4, <2>5, Ends
<1> QED
  BY <1>2, <1>8, <1>11, <1>12, <1>13, <1>14 DEF StreamInv

(* Nobody receives what was not sent.                                      *)
LEMMA TakenBound ==
  ASSUME StreamInv, NEW e \in End
  PROVE  taken[e] <= written[Peer(e)]
BY DEF StreamInv, Progress, Receiver

(* A thread that ends by an error or a limit.                              *)
LEMMA LeaveInv ==
  ASSUME StreamInv, TypeOK', NEW e \in End, NEW s \in {"done", "error"},
         pc' = [pc EXCEPT ![e] = s],
         UNCHANGED <<jobVars, sendVars, recvVars, scribbled, statVars, envVars>>
  PROVE  StreamInv'
<1>1. Peer(e) \in End /\ Peer(e) # e /\ pc \in [End -> States]
  BY PeerEnd DEF StreamInv, TypeOK, States
<1>2. pc'[e] = s /\ pc'[Peer(e)] = pc[Peer(e)]
  BY <1>1
<1>3. StillWire /\ Same(Peer(e))
      /\ UNCHANGED <<unsent, chunk, content, receivedPackets, taken>>
  BY <1>2 DEF StillWire, Same, jobVars, sendVars, recvVars, statVars
<1>4. taken'[e] <= written[Peer(e)]
  BY <1>3, TakenBound
<1> QED
  BY <1>2, <1>3, <1>4, ThreadEnds

(* A client that sees the cancel event drops what it has just taken.       *)
LEMMA RecvCancelledInv ==
  ASSUME StreamInv, TypeOK', RecvCancelled
  PROVE  StreamInv'
<1>1. /\ pc \in [End -> States] /\ taken \in [End -> Nat] /\ written \in [End -> Nat]
  BY DEF StreamInv, TypeOK, States
<1>2. /\ pc' = [pc EXCEPT !["client"] = "done"]
      /\ UNCHANGED <<wire, written, unsent, chunk, seq, reqSize, respSize, jobs>>
      /\ UNCHANGED <<bufBase, bufPos, content, cur, todo, scribbled, receivedPackets>>
  BY DEF RecvCancelled, jobVars, sendVars, statVars
<1> DEFINE room == IF pc["client"] = "recv" THEN BufSize - content["client"]
                                            ELSE Lesser(todo["client"], BufSize)
<1>3. PICK n \in 0 .. Lesser(Avail("client"), room) :
         taken' = [taken EXCEPT !["client"] = taken["client"] + n]
  BY DEF RecvCancelled
<1>4. pc'["client"] = "done" /\ pc'["server"] = pc["server"]
      /\ taken'["client"] = taken["client"] + n /\ taken'["server"] = taken["server"]
  BY <1>1, <1>2, <1>3, Ends
<1>5. StillWire /\ Same("server")
  BY <1>2, <1>4 DEF StillWire, Same
<1>6. taken'["client"] <= written["server"]
  <2>1. taken["client"] \in Nat /\ written["server"] \in Nat
    BY <1>1, Ends
  <2>2. content["client"] \in Nat /\ todo["client"] \in Nat /\ BufSize \in Nat
    BY Ends, BabblerAssumption DEF StreamInv, TypeOK
  <2>3. room \in Int /\ Avail("client") \in Int
    BY <2>1, <2>2, Ends DEF Lesser, Avail
  <2> HIDE DEF room
  <2>4. Lesser(Avail("client"), room) \in Int
        /\ Lesser(Avail("client"), room) <= Avail("client")
    BY <2>3 DEF Lesser
  <2>5. n \in Int /\ n <= Avail("client")
    BY <2>3, <2>4
  <2>6. Avail("client") = written["server"] - taken["client"]
    BY Ends DEF Avail
  <2> QED
    BY <2>1, <2>5, <2>6, <1>4
<1> QED
  BY <1>2, <1>4, <1>5, <1>6, ThreadEnds, Ends

(* Nothing of what the invariant speaks of changes.                        *)
LEMMA NothingInv ==
  ASSUME StreamInv, TypeOK',
         UNCHANGED <<pc, jobVars, sendVars, recvVars, scribbled, statVars>>
  PROVE  StreamInv'
<1> USE DEF jobVars, sendVars, recvVars, statVars
<1>1. WireLayout'
  BY DEF StreamInv, WireLayout
<1>2. Progress'
  BY DEF StreamInv, Progress, Sender, Receiver, Buffer, Handled, After
<1>3. JobProgress'
  BY DEF StreamInv, JobProgress, Requests
<1>4. Conversation'
  BY DEF StreamInv, Conversation, AllAnswered, Answered, Quiet, Answering, Requests,
         Responses, Handled, After
<1>5. NoProtocolException' /\ BugOnlyOnFragmentOrSize'
  BY DEF StreamInv, NoProtocolException, BugOnlyOnFragmentOrSize
<1> QED
  BY <1>1, <1>2, <1>3, <1>4, <1>5 DEF StreamInv

(* The inductive invariant holds before the first request.                 *)
LEMMA InitInv == Init => StreamInv
<1> SUFFICES ASSUME Init PROVE StreamInv
  OBVIOUS
<1>1. TypeOK
  BY InitType
<1>2. /\ \A e \in End : /\ wire[e] = << >> /\ written[e] = 0 /\ taken[e] = 0
                        /\ content[e] = 0 /\ bufPos[e] = 0 /\ receivedPackets[e] = 0
                        /\ pc[e] \in {"ready", "recv"}
      /\ pc["client"] = "ready" /\ pc["server"] = "recv"
      /\ seq = 0 /\ jobs = 0
  BY Ends DEF Init
<1>3. \A e \in End : Len(wire[e]) = 0 /\ Handled(e) = 0 /\ After(e, 0) = 0
  BY <1>2 DEF Handled, After, Behind
<1>4. WireLayout
  BY <1>3 DEF WireLayout, Layout
<1>5. Progress
  <2> SUFFICES ASSUME NEW e \in End PROVE Sender(e) /\ Receiver(e) /\ Buffer(e)
    BY DEF Progress
  <2>1. Peer(e) \in End
    BY PeerEnd
  <2>2. Sender(e)
    BY <1>2, <1>3 DEF Sender
  <2>3. Receiver(e)
    BY <1>2, <1>3, <2>1, BabblerAssumption DEF Receiver
  <2>4. Buffer(e)
    BY <1>2 DEF Buffer
  <2> QED
    BY <2>2, <2>3, <2>4
<1>6. Requests = 0 /\ Responses = 0
  BY <1>3, Ends DEF Requests, Responses
<1>7. JobProgress
  BY <1>2, <1>6, Ends DEF JobProgress
<1>8. Conversation
  <2>1. AllAnswered(Requests) /\ AllAnswered(Requests - 1)
    BY <1>6 DEF AllAnswered
  <2>2. Quiet
    BY <1>2, <1>3, <1>6, Ends DEF Quiet
  <2> QED
    BY <1>2, <2>1, <2>2, Ends DEF Conversation
<1>9. NoProtocolException
  BY <1>2 DEF NoProtocolException
<1>10. BugOnlyOnFragmentOrSize
  BY <1>2 DEF BugOnlyOnFragmentOrSize
<1> QED
  BY <1>1, <1>4, <1>5, <1>7, <1>8, <1>9, <1>10 DEF StreamInv

(* A new job sends its request, has nothing to send, or is a BUG_ON.       *)
LEMMA StartJobInv ==
  ASSUME StreamInv, TypeOK', StartJob
  PROVE  StreamInv'
<1>1. PICK req \in ReqSizes, resp \in RespSizes :
         /\ reqSize' = req /\ respSize' = resp /\ req \in Nat /\ resp \in Nat
         /\ \/ /\ resp \in 1 .. HeaderSize - 1 \/ req < HeaderSize
               /\ pc' = [pc EXCEPT !["client"] = "bug"]
               /\ UNCHANGED <<jobs, sendVars, scribbled>>
            \/ /\ resp \notin 1 .. HeaderSize - 1 /\ req = HeaderSize
               /\ scribbled' = [scribbled EXCEPT !["client"] = Greater(@, HeaderSize)]
               /\ \/ resp = 0 /\ EndJob
                  \/ /\ resp # 0 /\ UNCHANGED jobs
                     /\ pc' = [pc EXCEPT !["client"] = EnterReceive("client")]
               /\ UNCHANGED sendVars
            \/ /\ resp \notin 1 .. HeaderSize - 1 /\ req > HeaderSize
               /\ pc' = [pc EXCEPT !["client"] = "sending"]
               /\ BeginSend("client",
                    [start |-> written["client"], len |-> req, seq |-> seq',
                     options |-> IF resp = 0 THEN 0 ELSE resp - HeaderSize])
               /\ UNCHANGED jobs
  BY StartJobOutcome
<1>2. /\ pc["client"] = "ready" /\ seq' = seq + 1
      /\ UNCHANGED <<recvVars, statVars, envVars>>
  BY DEF StartJob
<1>3. CASE pc' = [pc EXCEPT !["client"] = "bug"]
           /\ (resp \in 1 .. HeaderSize - 1 \/ req < HeaderSize)
           /\ UNCHANGED <<jobs, sendVars, scribbled>>
  BY <1>1, <1>2, <1>3, StartJobBug
<1>4. CASE /\ req = HeaderSize /\ UNCHANGED sendVars
           /\ scribbled' = [scribbled EXCEPT !["client"] = Greater(@, HeaderSize)]
           /\ \/ resp = 0 /\ EndJob
              \/ /\ resp # 0 /\ UNCHANGED jobs
                 /\ pc' = [pc EXCEPT !["client"] = EnterReceive("client")]
  BY <1>1, <1>2, <1>4, StartJobNothing
<1>5. CASE /\ resp \notin 1 .. HeaderSize - 1 /\ req > HeaderSize
           /\ pc' = [pc EXCEPT !["client"] = "sending"]
           /\ BeginSend("client",
                [start |-> written["client"], len |-> req, seq |-> seq',
                 options |-> IF resp = 0 THEN 0 ELSE resp - HeaderSize])
           /\ UNCHANGED jobs
  <2> DEFINE opt == IF resp = 0 THEN 0 ELSE resp - HeaderSize
  <2>1. opt \in Nat /\ (resp = 0 => opt = 0)
    BY <1>1, <1>5, BabblerAssumption
  <2>2. BeginSend("client", [start |-> written["client"], len |-> req, seq |-> seq',
                             options |-> opt])
    BY <1>5
  <2> HIDE DEF opt
  <2> QED
    BY <1>1, <1>2, <1>5, <2>1, <2>2, StartJobSend
<1> QED
  BY <1>1, <1>3, <1>4, <1>5

(* The responder answers the request or returns to receive().              *)
LEMMA SendResponseInv ==
  ASSUME StreamInv, TypeOK', SendResponse
  PROVE  StreamInv'
<1>1. CASE wire["client"][cur["server"]].options = 0
  BY <1>1, SendResponseNone DEF SendResponse
<1>2. CASE wire["client"][cur["server"]].options # 0
  BY <1>2, SendResponseSome DEF SendResponse
<1> QED
  BY <1>1, <1>2

(* Steps of either thread on its socket keep the types.                    *)
LEMMA TransferType ==
  ASSUME TypeOK, NEW e \in End, Transfer(e)
  PROVE  TypeOK'
<1>1. CASE SendBytes(e)
  BY <1>1, SendBytesType
<1>2. CASE RecvHeader(e)
  BY <1>2, RecvHeaderType
<1>3. CASE Parse(e)
  BY <1>3, ParseType
<1>4. CASE RecvBody(e)
  BY <1>4, RecvBodyType
<1>5. CASE ConnectionLost(e)
  BY <1>5, OthersType
<1> QED
  BY <1>1, <1>2, <1>3, <1>4, <1>5 DEF Transfer

(* Steps of either thread on its socket keep the inductive invariant.      *)
LEMMA TransferInv ==
  ASSUME StreamInv, TypeOK', NEW e \in End, Transfer(e)
  PROVE  StreamInv'
<1>1. CASE SendBytes(e)
  BY <1>1, SendBytesClient, SendBytesServer, Ends
<1>2. CASE RecvHeader(e)
  BY <1>2, RecvHeaderInv
<1>3. CASE Parse(e)
  BY <1>3, ParseInv
<1>4. CASE RecvBody(e)
  BY <1>4, RecvBodyInv
<1>5. CASE ConnectionLost(e)
  BY <1>5, LeaveInv DEF ConnectionLost
<1> QED
  BY <1>1, <1>2, <1>3, <1>4, <1>5 DEF Transfer

(* Every step keeps the types. SendResponse needs Progress for it: the     *)
(* request it answers must be one of the stream.                           *)
LEMMA NextType == StreamInv /\ [Next]_vars => TypeOK'
<1> SUFFICES ASSUME StreamInv, [Next]_vars PROVE TypeOK'
  OBVIOUS
<1>1. TypeOK /\ Progress
  BY DEF StreamInv
<1>2. CASE \E e \in End : Transfer(e)
  BY <1>1, <1>2, TransferType
<1>3. CASE StartJob \/ RecvResponse \/ SendResponse
  BY <1>1, <1>3, StartJobType, RecvResponseType, SendResponseType
<1>4. CASE \/ LimitReached \/ RecvCancelled \/ TerminateAll \/ BreakConnection
           \/ UNCHANGED vars \/ \E e \in End : EmptyWakeup(e)
  BY <1>1, <1>4, OthersType
<1> QED
  BY <1>2, <1>3, <1>4, Ends DEF Next, Client, Server, Over

(* Every step keeps the inductive invariant.                               *)
LEMMA NextInv == StreamInv /\ [Next]_vars => StreamInv'
<1> SUFFICES ASSUME StreamInv, [Next]_vars PROVE StreamInv'
  OBVIOUS
<1>1. TypeOK'
  BY NextType
<1>2. CASE \E e \in End : Transfer(e)
  BY <1>1, <1>2, TransferInv
<1>3. CASE StartJob
  BY <1>1, <1>3, StartJobInv
<1>4. CASE LimitReached
  BY <1>1, <1>4, LeaveInv, Ends DEF LimitReached
<1>5. CASE RecvResponse
  BY <1>1, <1>5, RecvResponseInv
<1>6. CASE RecvCancelled
  BY <1>1, <1>6, RecvCancelledInv
<1>7. CASE SendResponse
  BY <1>1, <1>7, SendResponseInv
<1>8. CASE \/ TerminateAll \/ BreakConnection \/ UNCHANGED vars
           \/ \E e \in End : EmptyWakeup(e)
  <2>1. UNCHANGED <<pc, jobVars, sendVars, recvVars, scribbled, statVars>>
    BY <1>8 DEF TerminateAll, BreakConnection, EmptyWakeup, vars
  <2> QED
    BY <1>1, <2>1, NothingInv
<1> QED
  BY <1>2, <1>3, <1>4, <1>5, <1>6, <1>7, <1>8, Ends DEF Next, Client, Server, Over

(* The inductive invariant holds in every reachable state.                 *)
THEOREM Invariant == Spec => []StreamInv
<1>1. Init => StreamInv
  BY InitInv
<1>2. StreamInv /\ [Next]_vars => StreamInv'
  BY NextInv
<1> QED
  BY <1>1, <1>2, PTL DEF Spec

(* Every variable holds a value of its type, always.                       *)
THEOREM TypeCorrect == Spec => []TypeOK
<1>1. StreamInv => TypeOK
  BY DEF StreamInv
<1> QED
  BY <1>1, Invariant, PTL

(* None of the cProtocolExceptions of protocol.cpp, which neither thread   *)
(* function catches, is ever thrown on a connection that does not alter    *)
(* bytes.                                                                  *)
THEOREM NeverException == Spec => []NoProtocolException
<1>1. StreamInv => NoProtocolException
  BY DEF StreamInv
<1> QED
  BY <1>1, Invariant, PTL

(* The BUG_ONs of protocol.cpp fire only for a request or response size    *)
(* below a header (55, 58) or, in the responder, on a fragment of a header *)
(* behind requests that want no response (130).                            *)
THEOREM BugConditions == Spec => []BugOnlyOnFragmentOrSize
<1>1. StreamInv => BugOnlyOnFragmentOrSize
  BY DEF StreamInv
<1> QED
  BY <1>1, Invariant, PTL

(* No send() overwrites what receive() has left unparsed in the shared     *)
(* m_buf.                                                                  *)
THEOREM LeftoversSafe == Spec => []UnparsedIntact
<1>1. StreamInv => UnparsedIntact
  <2> SUFFICES ASSUME StreamInv, NEW e \in End, content[e] > 0,
                      pc[e] \in {"ready", "sending", "parse", "deliver"}
               PROVE  bufPos[e] + content[e] <= BufSize /\ scribbled[e] <= bufPos[e]
    BY DEF UnparsedIntact
  <2>1. Buffer(e)
    BY DEF StreamInv, Progress
  <2> QED
    BY <2>1 DEF Buffer, Ended
<1> QED
  BY <1>1, Invariant, PTL

(* The responder sends only while the client waits for it with nothing of  *)
(* its own under way.                                                      *)
THEOREM OneDirection == Spec => []HalfDuplex
<1>1. StreamInv => HalfDuplex
  <2> SUFFICES ASSUME StreamInv, pc["server"] = "sending"
               PROVE  /\ pc["client"] \in {"recv", "parse", "body"} \cup Ended
                      /\ Avail("server") = 0
                      /\ content["server"] = 0
    BY DEF HalfDuplex
  <2>1. /\ content["server"] = 0 /\ taken["server"] = written["client"]
        /\ pc["client"] \notin {"ready", "sending", "deliver"}
    BY ServerSends
  <2>2. written["client"] \in Nat /\ pc["client"] \in States
    BY Ends DEF StreamInv, TypeOK, States
  <2>3. Avail("server") = 0
    BY <2>1, <2>2, Ends DEF Avail
  <2> QED
    BY <2>1, <2>2, <2>3 DEF States
<1> QED
  BY <1>1, Invariant, PTL

(* Only receive() counts messages, one at a time.                          *)
LEMMA CountStep ==
  ASSUME TypeOK, [Next]_vars, NEW e \in End
  PROVE  \/ receivedPackets'[e] = receivedPackets[e]
         \/ receivedPackets'[e] = receivedPackets[e] + 1 /\ pc'[e] = "deliver"
<1>1. receivedPackets \in [End -> Nat] /\ pc \in [End -> States]
  BY DEF TypeOK, States
<1>2. ASSUME NEW d \in End, Parse(d) \/ RecvBody(d)
      PROVE  \/ UNCHANGED receivedPackets
             \/ /\ receivedPackets' = [receivedPackets EXCEPT ![d] = @ + 1]
                /\ pc' = [pc EXCEPT ![d] = "deliver"]
  <2>1. CASE Parse(d)
    <3>1. \/ UNCHANGED receivedPackets
          \/ \E i \in Nat : ParseMessage(d, i)
      BY <2>1 DEF Parse
    <3> QED
      BY <3>1 DEF ParseMessage
  <2>2. CASE RecvBody(d)
    <3>1. \E n \in Nat : TakeBody(d, n)
      BY <2>2, RecvBodyCount
    <3>2. PICK n \in Nat : TakeBody(d, n)
      BY <3>1
    <3> DEFINE m      == wire[Peer(d)][cur[d]]
               intact == /\ m.start + HeaderSize <= taken[d]
                         /\ taken[d] + n <= m.start + m.len
               whole  == n = todo[d]
    <3>3. /\ receivedPackets' = [receivedPackets EXCEPT ![d] =
                                   IF intact /\ whole THEN @ + 1 ELSE @]
          /\ pc' = [pc EXCEPT ![d] = IF ~intact THEN "exception"
                                     ELSE IF whole THEN "deliver" ELSE @]
      BY <3>2 DEF TakeBody
    <3> HIDE DEF intact, whole
    <3> QED
      BY <3>3, <1>1
  <2> QED
    BY <1>2, <2>1, <2>2
<1>3. CASE \E d \in End : Parse(d) \/ RecvBody(d)
  BY <1>1, <1>2, <1>3
<1>4. CASE UNCHANGED receivedPackets
  BY <1>4
<1>5. \/ \E d \in End : Parse(d) \/ RecvBody(d)
      \/ UNCHANGED receivedPackets
  <2>1. CASE \E d \in End : Transfer(d)
    BY <2>1 DEF Transfer, SendBytes, RecvHeader, ConnectionLost, statVars
  <2>2. CASE StartJob \/ LimitReached \/ RecvResponse \/ RecvCancelled \/ SendResponse
             \/ TerminateAll \/ BreakConnection \/ \E d \in End : EmptyWakeup(d)
    BY <2>2 DEF StartJob, LimitReached, RecvResponse, RecvCancelled, SendResponse,
                TerminateAll, BreakConnection, EmptyWakeup, statVars
  <2>3. CASE UNCHANGED vars
    BY <2>3 DEF vars, statVars
  <2> QED
    BY <2>1, <2>2, <2>3, Ends DEF Next, Client, Server, Over
<1> QED
  BY <1>3, <1>4, <1>5

(* receive() returns the messages of its peer one by one in their order.   *)
THEOREM DeliveredInOrder == Spec => InOrder
<1> DEFINE Step == \A e \in End :
              LET before == receivedPackets[e]
                  after  == receivedPackets'[e]
              IN  after # before => after = before + 1 /\ cur'[e] = after
<1>1. StreamInv /\ StreamInv' /\ [Next]_vars => Step
  <2> SUFFICES ASSUME StreamInv, StreamInv', [Next]_vars, NEW e \in End,
                      receivedPackets'[e] # receivedPackets[e]
               PROVE  /\ receivedPackets'[e] = receivedPackets[e] + 1
                      /\ cur'[e] = receivedPackets'[e]
    OBVIOUS
  <2>1. receivedPackets'[e] = receivedPackets[e] + 1 /\ pc'[e] = "deliver"
    BY CountStep DEF StreamInv
  <2>2. Receiver(e)'
    BY DEF StreamInv, Progress
  <2> QED
    BY <2>1, <2>2 DEF Receiver, Handled
<1>2. StreamInv /\ StreamInv' /\ [Next]_vars => [Step]_vars
  BY <1>1
<1> HIDE DEF Step
<1>3. Spec => [][Step]_vars
  BY <1>2, Invariant, PTL DEF Spec
<1> QED
  BY <1>3 DEF InOrder, Step

-----------------------------------------------------------------------------
(***************************************************************************)
(* The statistics: what the two threads have counted.                      *)
(***************************************************************************)

(* What a step leaves alone of the counts of an end that does not act.     *)
LEMMA CountedFrame ==
  ASSUME NEW e \in End, SentCounted(e), ReceivedCounted(e),
         pc'[e] = pc[e], wire'[e] = wire[e], unsent'[e] = unsent[e],
         sentOctets'[e] = sentOctets[e], sentPackets'[e] = sentPackets[e],
         receivedOctets'[e] = receivedOctets[e], content'[e] = content[e],
         taken'[e] = taken[e]
  PROVE  SentCounted(e)' /\ ReceivedCounted(e)'
BY DEF SentCounted, ReceivedCounted, After

(* Nothing is said of a thread that has left its loop.                     *)
LEMMA CountedEnds ==
  ASSUME NEW e \in End, pc'[e] \in Ended
  PROVE  SentCounted(e)' /\ ReceivedCounted(e)'
BY DEF SentCounted, ReceivedCounted

(* A thread that is not in send() counts nothing as sent.                  *)
LEMMA SentFrame ==
  ASSUME NEW e \in End, SentCounted(e), wire'[e] = wire[e],
         sentOctets'[e] = sentOctets[e], sentPackets'[e] = sentPackets[e],
         pc[e] \notin {"sending"} \cup Ended, pc'[e] # "sending"
  PROVE  SentCounted(e)'
BY DEF SentCounted, After

(* A thread that begins or ends a job has counted all that it took.        *)
LEMMA ReceivedFrame ==
  ASSUME TypeOK, NEW e \in End, ReceivedCounted(e),
         receivedOctets'[e] = receivedOctets[e], content'[e] = content[e],
         taken'[e] = taken[e], pc[e] \notin {"recv"} \cup Ended,
         pc'[e] = "recv" => content[e] = 0
  PROVE  ReceivedCounted(e)'
<1>1. receivedOctets[e] \in Nat /\ content[e] \in Nat
  BY DEF TypeOK
<1> QED
  BY <1>1 DEF ReceivedCounted

(* A message that is begun is counted when it is out.                      *)
LEMMA BeginSendCounted ==
  ASSUME TypeOK, NEW e \in End, NEW m \in Message, BeginSend(e, m),
         SentCounted(e), m.start = written[e], written[e] = After(e, Len(wire[e])),
         pc[e] \notin {"sending"} \cup Ended, pc'[e] = "sending",
         UNCHANGED <<sentOctets, sentPackets>>
  PROVE  SentCounted(e)'
<1>1. /\ wire[e] \in Seq(Message) /\ wire \in [End -> Seq(Message)] /\ unsent \in [End -> Nat]
      /\ sentOctets[e] \in Nat /\ sentPackets[e] \in Nat /\ m.len \in Nat /\ m.start \in Nat
  BY DEF TypeOK, Message
<1>2. wire'[e] = Append(wire[e], m) /\ unsent'[e] = m.len
  BY <1>1 DEF BeginSend
<1>3. /\ Len(wire'[e]) = Len(wire[e]) + 1 /\ Len(wire[e]) \in Nat
      /\ Behind(wire'[e], Len(wire'[e])) = m.start + m.len
  BY <1>1, <1>2, AppendFacts
<1>4. sentOctets[e] = m.start /\ sentPackets[e] = Len(wire[e])
  BY <1>1 DEF SentCounted
<1>5. sentOctets'[e] + unsent'[e] = Behind(wire'[e], Len(wire'[e]))
  BY <1>2, <1>3, <1>4
<1>6. sentPackets'[e] + 1 = Len(wire'[e])
  BY <1>3, <1>4
<1> QED
  BY <1>5, <1>6 DEF SentCounted, After

(* A chunk is counted when all of it was taken, the message with the last. *)
LEMMA SendBytesCounted ==
  ASSUME StreamInv, Counted, NEW e \in End, SendBytes(e)
  PROVE  SentCounted(e)' /\ ReceivedCounted(e)'
<1> DEFINE sentLen == Lesser(unsent[e], BufSize)
           rest    == unsent[e] - sentLen
<1>1. PICK n \in Nat \ {0} : n <= chunk[e] /\ HandOver(e, n)
  BY SendBytesCount DEF StreamInv
<1>2. /\ pc[e] = "sending" /\ wire' = wire /\ UNCHANGED receivedOctets
      /\ taken' = taken /\ content' = content
  BY DEF SendBytes, recvVars
<1>3. /\ unsent[e] \in Nat /\ sentOctets[e] \in Nat /\ sentPackets[e] \in Nat
      /\ content[e] \in Nat /\ receivedOctets[e] \in Nat /\ BufSize \in Nat
  BY BabblerAssumption DEF StreamInv, TypeOK
<1>4. /\ unsent \in [End -> Nat] /\ sentOctets \in [End -> Nat]
      /\ sentPackets \in [End -> Nat] /\ pc \in [End -> States]
  BY DEF StreamInv, TypeOK, States
<1>5. sentLen \in Nat /\ rest \in Nat /\ sentLen + rest = unsent[e]
  BY <1>3 DEF Lesser
<1>6. /\ sentOctets[e] + unsent[e] = After(e, Len(wire[e]))
      /\ sentPackets[e] + 1 = Len(wire[e])
      /\ receivedOctets[e] + 0 = taken[e]
  BY <1>2 DEF Counted, SentCounted, ReceivedCounted, Ended
<1> HIDE DEF sentLen, rest
<1>7. \/ UNCHANGED <<pc, unsent, sentOctets, sentPackets>>
      \/ /\ unsent' = [unsent EXCEPT ![e] = rest]
         /\ sentOctets' = [sentOctets EXCEPT ![e] = @ + sentLen]
         /\ UNCHANGED <<pc, sentPackets>>
      \/ /\ rest = 0
         /\ sentOctets' = [sentOctets EXCEPT ![e] = @ + sentLen]
         /\ sentPackets' = [sentPackets EXCEPT ![e] = @ + 1]
         /\ pc'[e] \in {"ready", "done"} \/ pc'[e] = EnterReceive(e)
  <2>1. CASE n < chunk[e]
    BY <1>1, <2>1 DEF HandOver
  <2>2. CASE ~(n < chunk[e]) /\ rest > 0
    BY <1>1, <2>2 DEF HandOver, sentLen, rest
  <2>3. CASE ~(n < chunk[e]) /\ ~(rest > 0)
    <3>1. rest = 0
      BY <1>5, <2>3
    <3>2. /\ sentOctets' = [sentOctets EXCEPT ![e] = @ + sentLen]
          /\ sentPackets' = [sentPackets EXCEPT ![e] = @ + 1]
          /\ \/ e = "client" /\ EndJob
             \/ pc' = [pc EXCEPT ![e] = EnterReceive(e)]
      BY <1>1, <2>3 DEF HandOver, sentLen, rest
    <3>3. e = "client" /\ EndJob => pc'[e] \in {"ready", "done"}
      BY <1>4 DEF EndJob
    <3>4. pc' = [pc EXCEPT ![e] = EnterReceive(e)] => pc'[e] = EnterReceive(e)
      BY <1>4
    <3> QED
      BY <3>1, <3>2, <3>3, <3>4
  <2> QED
    BY <2>1, <2>2, <2>3
<1>8. After(e, Len(wire[e]))' = After(e, Len(wire[e]))
  BY <1>2 DEF After
<1>9. CASE UNCHANGED <<pc, unsent, sentOctets, sentPackets>>
  BY <1>2, <1>9, CountedFrame DEF Counted
<1>10. CASE /\ unsent' = [unsent EXCEPT ![e] = rest]
            /\ sentOctets' = [sentOctets EXCEPT ![e] = @ + sentLen]
            /\ UNCHANGED <<pc, sentPackets>>
  <2>1. unsent'[e] = rest /\ sentOctets'[e] = sentOctets[e] + sentLen
    BY <1>4, <1>10
  <2>2. sentOctets'[e] + unsent'[e] = sentOctets[e] + unsent[e]
    BY <1>3, <1>5, <2>1
  <2>3. SentCounted(e)'
    BY <1>2, <1>6, <1>8, <1>10, <2>2 DEF SentCounted
  <2>4. ReceivedCounted(e)'
    BY <1>2, <1>10 DEF Counted, ReceivedCounted
  <2> QED
    BY <2>3, <2>4
<1>11. CASE /\ rest = 0
            /\ sentOctets' = [sentOctets EXCEPT ![e] = @ + sentLen]
            /\ sentPackets' = [sentPackets EXCEPT ![e] = @ + 1]
            /\ pc'[e] \in {"ready", "done"} \/ pc'[e] = EnterReceive(e)
  <2>1. /\ sentOctets'[e] = sentOctets[e] + unsent[e]
        /\ sentPackets'[e] = sentPackets[e] + 1
    <3>1. /\ sentOctets'[e] = sentOctets[e] + sentLen
          /\ sentPackets'[e] = sentPackets[e] + 1
      BY <1>4, <1>11
    <3> QED
      BY <1>5, <1>11, <3>1
  <2>2. pc'[e] # "sending"
    BY <1>11 DEF EnterReceive
  <2>3. /\ sentOctets'[e] + 0 = After(e, Len(wire[e]))
        /\ sentPackets'[e] + 0 = Len(wire[e])
    BY <1>3, <1>6, <2>1
  <2>4. SentCounted(e)'
    BY <1>2, <1>8, <2>2, <2>3 DEF SentCounted
  <2>5. pc'[e] = "recv" => content[e] = 0
    BY <1>11 DEF EnterReceive
  <2>6. ReceivedCounted(e)'
    BY <1>2, <2>5, ReceivedFrame DEF StreamInv, Counted, Ended
  <2> QED
    BY <2>4, <2>6
<1> QED
  BY <1>7, <1>9, <1>10, <1>11

(* The bytes of a header are counted when it is there.                     *)
LEMMA RecvHeaderCounted ==
  ASSUME StreamInv, Counted, NEW e \in End, RecvHeader(e)
  PROVE  SentCounted(e)' /\ ReceivedCounted(e)'
<1>1. PICK n \in Nat \ {0} : TakeHeader(e, n)
  BY RecvHeaderCount DEF StreamInv
<1>2. /\ taken \in [End -> Nat] /\ content \in [End -> Nat]
      /\ receivedOctets \in [End -> Nat] /\ pc \in [End -> States]
  BY DEF StreamInv, TypeOK, States
<1>3. /\ taken[e] \in Nat /\ content[e] \in Nat /\ receivedOctets[e] \in Nat
  BY <1>2
<1>4. /\ taken'[e] = taken[e] + n /\ content'[e] = content[e] + n
      /\ \/ pc' = pc /\ receivedOctets' = receivedOctets
         \/ pc'[e] = "parse" /\ receivedOctets'[e] = receivedOctets[e] + (content[e] + n)
  BY <1>1, <1>2 DEF TakeHeader
<1>5. /\ pc[e] = "recv" /\ wire' = wire /\ UNCHANGED <<sentOctets, sentPackets>>
  BY DEF RecvHeader, sendVars
<1>6. receivedOctets[e] + content[e] = taken[e]
  BY <1>5 DEF Counted, ReceivedCounted, Ended
<1>7. SentCounted(e)'
  BY <1>4, <1>5, SentFrame DEF Counted, Ended
<1>8. CASE pc' = pc /\ receivedOctets' = receivedOctets
  <2>1. receivedOctets'[e] + content'[e] = taken'[e]
    BY <1>3, <1>4, <1>6, <1>8
  <2> QED
    BY <1>5, <1>7, <1>8, <2>1 DEF ReceivedCounted
<1>9. CASE pc'[e] = "parse" /\ receivedOctets'[e] = receivedOctets[e] + (content[e] + n)
  <2>1. receivedOctets'[e] + 0 = taken'[e]
    BY <1>3, <1>4, <1>6, <1>9
  <2> QED
    BY <1>7, <1>9, <2>1 DEF ReceivedCounted
<1> QED
  BY <1>4, <1>8, <1>9

(* Parsing takes nothing: all it looks at has been counted.                *)
LEMMA ParseCounted ==
  ASSUME StreamInv, Counted, NEW e \in End, Parse(e)
  PROVE  SentCounted(e)' /\ ReceivedCounted(e)'
<1>1. /\ pc[e] = "parse" /\ wire' = wire /\ UNCHANGED <<sentOctets, sentPackets>>
      /\ taken' = taken /\ receivedOctets' = receivedOctets
  BY DEF Parse, sendVars
<1>2. pc \in [End -> States]
  BY DEF StreamInv, TypeOK, States
<1>3. pc'[e] \in {"body", "deliver", "bug", "exception"}
  BY <1>2 DEF Parse, ParseMessage
<1>4. SentCounted(e)'
  BY <1>1, <1>3, SentFrame DEF Counted, Ended
<1>5. ReceivedCounted(e)'
  BY <1>1, <1>3 DEF Counted, ReceivedCounted, Ended
<1> QED
  BY <1>4, <1>5

(* The bytes of the payload are counted as they are taken.                 *)
LEMMA RecvBodyCounted ==
  ASSUME StreamInv, Counted, NEW e \in End, RecvBody(e)
  PROVE  SentCounted(e)' /\ ReceivedCounted(e)'
<1>1. PICK n \in Nat : TakeBody(e, n)
  BY RecvBodyCount DEF StreamInv
<1>2. /\ taken \in [End -> Nat] /\ receivedOctets \in [End -> Nat] /\ pc \in [End -> States]
  BY DEF StreamInv, TypeOK, States
<1>3. /\ pc[e] = "body" /\ wire' = wire /\ UNCHANGED <<sentOctets, sentPackets>>
  BY DEF RecvBody, sendVars
<1>4. taken'[e] = taken[e] + n /\ receivedOctets'[e] = receivedOctets[e] + n
  BY <1>1, <1>2 DEF TakeBody
<1>5. pc'[e] \in {"exception", "deliver", "body"}
  <2>1. \/ pc' = [pc EXCEPT ![e] = "exception"]
        \/ pc' = [pc EXCEPT ![e] = "deliver"]
        \/ pc' = [pc EXCEPT ![e] = @]
    BY <1>1 DEF TakeBody
  <2> QED
    BY <1>2, <1>3, <2>1
<1>6. receivedOctets[e] + 0 = taken[e]
  BY <1>3 DEF Counted, ReceivedCounted, Ended
<1>7. receivedOctets'[e] + 0 = taken'[e]
  <2>1. taken[e] \in Nat /\ receivedOctets[e] \in Nat
    BY <1>2
  <2> QED
    BY <1>4, <1>6, <2>1
<1>8. SentCounted(e)'
  BY <1>3, <1>5, SentFrame DEF Counted, Ended
<1>9. ReceivedCounted(e)'
  BY <1>5, <1>7 DEF ReceivedCounted
<1> QED
  BY <1>8, <1>9

(* Steps of a thread on its socket keep its counts.                        *)
LEMMA TransferCounted ==
  ASSUME StreamInv, Counted, NEW e \in End, Transfer(e)
  PROVE  SentCounted(e)' /\ ReceivedCounted(e)'
<1>1. CASE ConnectionLost(e)
  <2>1. pc'[e] \in Ended
    BY <1>1 DEF ConnectionLost, StreamInv, TypeOK, Ended
  <2> QED
    BY <2>1, CountedEnds
<1> QED
  BY <1>1, SendBytesCounted, RecvHeaderCounted, ParseCounted, RecvBodyCounted DEF Transfer

(* They leave those of its peer alone.                                     *)
LEMMA TransferOther ==
  ASSUME StreamInv, Counted, NEW e \in End, NEW d \in End, d # e, Transfer(e)
  PROVE  SentCounted(d)' /\ ReceivedCounted(d)'
<1>1. /\ pc \in [End -> States] /\ unsent \in [End -> Nat]
      /\ sentOctets \in [End -> Nat] /\ sentPackets \in [End -> Nat]
      /\ receivedOctets \in [End -> Nat] /\ content \in [End -> Nat] /\ taken \in [End -> Nat]
  BY DEF StreamInv, TypeOK, States
<1>2. wire' = wire
  BY DEF Transfer, SendBytes, RecvHeader, Parse, RecvBody, ConnectionLost, sendVars
<1>3. /\ pc'[d] = pc[d] /\ unsent'[d] = unsent[d]
      /\ sentOctets'[d] = sentOctets[d] /\ sentPackets'[d] = sentPackets[d]
      /\ receivedOctets'[d] = receivedOctets[d] /\ content'[d] = content[d]
      /\ taken'[d] = taken[d]
  <2>1. CASE SendBytes(e)
    <3>1. PICK n \in Nat \ {0} : HandOver(e, n)
      BY <2>1, SendBytesCount DEF StreamInv
    <3>2. UNCHANGED <<receivedOctets, content, taken>>
      BY <2>1 DEF SendBytes, recvVars
    <3> DEFINE sentLen == Lesser(unsent[e], BufSize)
               rest    == unsent[e] - sentLen
    <3>3. /\ \/ unsent' = unsent
             \/ unsent' = [unsent EXCEPT ![e] = rest]
          /\ \/ sentOctets' = sentOctets
             \/ sentOctets' = [sentOctets EXCEPT ![e] = @ + sentLen]
          /\ \/ sentPackets' = sentPackets
             \/ sentPackets' = [sentPackets EXCEPT ![e] = @ + 1]
          /\ \/ pc' = pc
             \/ e = "client" /\ EndJob
             \/ pc' = [pc EXCEPT ![e] = EnterReceive(e)]
      BY <3>1 DEF HandOver
    <3> HIDE DEF sentLen, rest
    <3>4. unsent'[d] = unsent[d] /\ sentOctets'[d] = sentOctets[d]
          /\ sentPackets'[d] = sentPackets[d]
      BY <1>1, <3>3
    <3>5. pc'[d] = pc[d]
      BY <1>1, <3>3 DEF EndJob
    <3> QED
      BY <3>2, <3>4, <3>5
  <2>2. CASE RecvHeader(e)
    <3>1. PICK n \in Nat \ {0} : TakeHeader(e, n)
      BY <2>2, RecvHeaderCount DEF StreamInv
    <3> QED
      BY <1>1, <2>2, <3>1 DEF RecvHeader, TakeHeader, sendVars
  <2>3. CASE Parse(e)
    BY <1>1, <2>3 DEF Parse, ParseMessage, sendVars
  <2>4. CASE RecvBody(e)
    <3>1. PICK n \in Nat : TakeBody(e, n)
      BY <2>4, RecvBodyCount DEF StreamInv
    <3>2. /\ UNCHANGED <<unsent, sentOctets, sentPackets>>
          /\ taken' = [taken EXCEPT ![e] = @ + n]
          /\ receivedOctets' = [receivedOctets EXCEPT ![e] = @ + n]
          /\ \/ content' = [content EXCEPT ![e] = 0]
             \/ content' = [content EXCEPT ![e] = n]
          /\ \/ pc' = [pc EXCEPT ![e] = "exception"]
             \/ pc' = [pc EXCEPT ![e] = "deliver"]
             \/ pc' = [pc EXCEPT ![e] = @]
      BY <2>4, <3>1 DEF RecvBody, TakeBody, sendVars
    <3> QED
      BY <1>1, <3>2
  <2>5. CASE ConnectionLost(e)
    BY <1>1, <2>5 DEF ConnectionLost, sendVars, recvVars, statVars
  <2> QED
    BY <2>1, <2>2, <2>3, <2>4, <2>5 DEF Transfer
<1> QED
  BY <1>2, <1>3, CountedFrame DEF Counted

(* A job begins or ends between two messages.                              *)
LEMMA JobCounted ==
  ASSUME StreamInv, StreamInv', Counted, StartJob \/ LimitReached \/ RecvResponse \/ RecvCancelled
  PROVE  Counted'
<1>1. /\ pc \in [End -> States] /\ wire \in [End -> Seq(Message)]
      /\ unsent \in [End -> Nat] /\ taken \in [End -> Nat]
  BY DEF StreamInv, TypeOK, States
<1>2. UNCHANGED <<sentOctets, sentPackets, receivedOctets, content>>
  BY DEF StartJob, LimitReached, RecvResponse, RecvCancelled, recvVars, statVars
<1>3. /\ pc'["server"] = pc["server"] /\ wire'["server"] = wire["server"]
      /\ unsent'["server"] = unsent["server"] /\ taken'["server"] = taken["server"]
  BY <1>1, Ends DEF StartJob, SendRequest, LimitReached, RecvResponse, RecvCancelled,
     BeginSend, EndJob, recvVars, sendVars
<1>4. SentCounted("server")' /\ ReceivedCounted("server")'
  BY <1>2, <1>3, CountedFrame, Ends DEF Counted
<1>5. SentCounted("client")' /\ ReceivedCounted("client")'
  <2>1. CASE pc'["client"] \in Ended
    BY <2>1, CountedEnds, Ends
  <2>5. CASE StartJob /\ pc'["client"] \notin Ended \cup {"sending"}
    <3>4. UNCHANGED sendVars
      BY <1>1, <2>5, StartJobOutcome, Ends DEF Ended
    <3>5. pc["client"] = "ready" /\ taken' = taken
      BY <2>5 DEF StartJob, recvVars
    <3>6. pc'["client"] \in {"ready", "recv", "parse"}
      BY <1>1, <2>5, StartJobOutcome, Ends DEF EndJob, EnterReceive, Ended
    <3>1. pc["client"] = "ready" /\ pc'["client"] \in {"ready", "recv", "parse"}
          /\ UNCHANGED <<wire, unsent, taken>>
      BY <3>4, <3>5, <3>6 DEF sendVars
    <3>2. content["client"] = 0
      BY <3>1 DEF StreamInv, Conversation, Quiet
    <3> QED
      BY <1>2, <3>1, <3>2, SentFrame, ReceivedFrame, Ends DEF StreamInv, Counted, Ended
  <2>2. CASE StartJob /\ pc'["client"] = "sending"
    <3>1. PICK req \in ReqSizes, resp \in RespSizes :
            /\ req \in Nat /\ resp \in Nat /\ resp \notin 1 .. HeaderSize - 1
            /\ pc' = [pc EXCEPT !["client"] = "sending"]
            /\ BeginSend("client",
                 [start |-> written["client"], len |-> req, seq |-> seq',
                  options |-> IF resp = 0 THEN 0 ELSE resp - HeaderSize])
      BY <1>1, <2>2, StartJobOutcome, Ends DEF EndJob, EnterReceive
    <3> DEFINE m == [start |-> written["client"], len |-> req, seq |-> seq',
                     options |-> IF resp = 0 THEN 0 ELSE resp - HeaderSize]
    <3>2. m \in Message
      BY <2>2, <3>1, RequestType DEF StreamInv, StartJob
    <3>3. pc["client"] = "ready" /\ pc'["client"] = "sending" /\ taken' = taken
      BY <1>1, <2>2, <3>1, Ends DEF StartJob, recvVars
    <3>4. written["client"] = After("client", Len(wire["client"]))
      BY <3>3, Ends DEF StreamInv, Progress, Sender, Ended
    <3>5. m.start = written["client"] /\ BeginSend("client", m)
      BY <3>1
    <3> HIDE DEF m
    <3>6. SentCounted("client")'
      BY <1>2, <3>2, <3>3, <3>4, <3>5, BeginSendCounted, Ends DEF StreamInv, Counted, Ended
    <3>7. ReceivedCounted("client")'
      BY <1>2, <3>3, ReceivedFrame, Ends DEF StreamInv, Counted, Ended
    <3> QED
      BY <3>6, <3>7
  <2>3. CASE RecvResponse /\ pc'["client"] \notin Ended
    <3>1. /\ pc["client"] = "deliver" /\ pc'["client"] = "ready" /\ UNCHANGED <<wire, taken>>
      BY <1>1, <2>3, Ends DEF RecvResponse, EndJob, Ended, sendVars, recvVars
    <3> QED
      BY <1>2, <3>1, SentFrame, ReceivedFrame, Ends DEF StreamInv, Counted, Ended
  <2>4. LimitReached \/ RecvCancelled => pc'["client"] \in Ended
    BY <1>1, Ends DEF LimitReached, RecvCancelled, Ended
  <2> QED
    BY <2>1, <2>2, <2>3, <2>4, <2>5
<1> QED
  BY <1>4, <1>5, Ends DEF Counted

(* An answer is begun, or the request wants none.                          *)
LEMMA SendResponseCounted ==
  ASSUME StreamInv, Counted, SendResponse
  PROVE  Counted'
<1>1. /\ pc \in [End -> States] /\ wire \in [End -> Seq(Message)]
      /\ unsent \in [End -> Nat]
  BY DEF StreamInv, TypeOK, States
<1>2. UNCHANGED <<sentOctets, sentPackets, receivedOctets, content, taken>>
      /\ pc["server"] = "deliver"
  BY DEF SendResponse, recvVars, statVars
<1> DEFINE request == wire["client"][cur["server"]]
           m == [start |-> written["server"], len |-> request.options + HeaderSize,
                 seq |-> request.seq, options |-> 0]
<1>3. \/ /\ pc' = [pc EXCEPT !["server"] = EnterReceive("server")]
         /\ UNCHANGED <<wire, unsent>>
      \/ pc' = [pc EXCEPT !["server"] = "sending"] /\ BeginSend("server", m)
  BY DEF SendResponse, sendVars
<1>4. request \in Message
  <2>1. cur["server"] = Handled("server") /\ Handled("server") > 0
        /\ Handled("server") <= Len(wire["client"])
    BY <1>2, Ends DEF StreamInv, Progress, Receiver, Ended
  <2>2. wire["client"] \in Seq(Message) /\ Handled("server") \in Nat
    BY NumberTypes DEF StreamInv
  <2> QED
    BY <2>1, <2>2
<1>5. m \in Message
  <2>1. request.options \in Nat /\ request.seq \in Nat
    BY <1>4 DEF Message
  <2>2. written["server"] \in Nat /\ HeaderSize \in Nat
    BY BabblerAssumption, Ends DEF StreamInv, TypeOK
  <2> HIDE DEF request
  <2>3. request.options + HeaderSize \in Nat
    BY <2>1, <2>2
  <2> QED
    BY <2>1, <2>2, <2>3 DEF Message
<1>6. m.start = written["server"]
  OBVIOUS
<1> HIDE DEF m, request
<1>7. SentCounted("server") /\ ReceivedCounted("server")
      /\ SentCounted("client") /\ ReceivedCounted("client")
  BY Ends DEF Counted
<1>8. CASE /\ pc' = [pc EXCEPT !["server"] = EnterReceive("server")]
           /\ UNCHANGED <<wire, unsent>>
  <2>1. pc'["server"] = EnterReceive("server") /\ pc'["client"] = pc["client"]
    BY <1>1, <1>8, Ends
  <2>2. /\ pc'["server"] # "sending"
        /\ pc'["server"] = "recv" => content["server"] = 0
    BY <2>1 DEF EnterReceive
  <2>3. SentCounted("server")' /\ ReceivedCounted("server")'
    BY <1>2, <1>7, <1>8, <2>2, SentFrame, ReceivedFrame, Ends DEF StreamInv, Ended
  <2>4. SentCounted("client")' /\ ReceivedCounted("client")'
    BY <1>2, <1>7, <1>8, <2>1, CountedFrame, Ends
  <2> QED
    BY <2>3, <2>4, Ends DEF Counted
<1>9. CASE pc' = [pc EXCEPT !["server"] = "sending"] /\ BeginSend("server", m)
  <2>1. pc'["server"] = "sending" /\ pc'["client"] = pc["client"]
    BY <1>1, <1>9, Ends
  <2>2. wire'["client"] = wire["client"] /\ unsent'["client"] = unsent["client"]
    BY <1>1, <1>9, Ends DEF BeginSend
  <2>3. written["server"] = After("server", Len(wire["server"]))
    BY <1>2, Ends DEF StreamInv, Progress, Sender, Ended
  <2>4. SentCounted("server")'
    BY <1>2, <1>5, <1>6, <1>7, <1>9, <2>1, <2>3, BeginSendCounted, Ends DEF StreamInv, Ended
  <2>5. ReceivedCounted("server")'
    BY <1>2, <1>7, <2>1, ReceivedFrame, Ends DEF StreamInv, Ended
  <2>6. SentCounted("client")' /\ ReceivedCounted("client")'
    BY <1>2, <1>7, <2>1, <2>2, CountedFrame, Ends
  <2> QED
    BY <2>4, <2>5, <2>6, Ends DEF Counted
<1> QED
  BY <1>3, <1>8, <1>9

(* At first nothing is counted.                                            *)
LEMMA InitCounted == Init => Counted
<1> SUFFICES ASSUME Init, NEW e \in End
             PROVE  SentCounted(e) /\ ReceivedCounted(e)
  BY DEF Counted
<1>1. /\ wire[e] = << >> /\ sentOctets[e] = 0 /\ sentPackets[e] = 0
      /\ receivedOctets[e] = 0 /\ content[e] = 0 /\ taken[e] = 0
      /\ pc[e] \in {"ready", "recv"}
  BY DEF Init
<1>2. Len(wire[e]) = 0
  BY <1>1
<1> QED
  BY <1>1, <1>2 DEF SentCounted, ReceivedCounted, After, Behind

(* The counts are right in every reachable state.                          *)
THEOREM CountsRight == Spec => []Counted
<1>1. StreamInv /\ StreamInv' /\ Counted /\ [Next]_vars => Counted'
  <2> SUFFICES ASSUME StreamInv, StreamInv', Counted, [Next]_vars
               PROVE  Counted'
    OBVIOUS
  <2>1. CASE \E e \in End : Transfer(e)
    BY <2>1, TransferCounted, TransferOther DEF Counted
  <2>2. CASE StartJob \/ LimitReached \/ RecvResponse \/ RecvCancelled
    BY <2>2, JobCounted
  <2>3. CASE SendResponse
    BY <2>3, SendResponseCounted
  <2>4. CASE \/ TerminateAll \/ BreakConnection \/ UNCHANGED vars
             \/ \E e \in End : EmptyWakeup(e)
    <3>1. UNCHANGED <<pc, sendVars, recvVars, statVars>>
      BY <2>4 DEF TerminateAll, BreakConnection, EmptyWakeup, vars
    <3> QED
      BY <3>1, CountedFrame DEF Counted, sendVars, recvVars, statVars
  <2> QED
    BY <2>1, <2>2, <2>3, <2>4, Ends DEF Next, Client, Server, Over
<1> QED
  BY <1>1, InitCounted, Invariant, PTL DEF Spec

(* Between two jobs the two ends have counted the same.                    *)
LEMMA CountsAgree ==
  ASSUME StreamInv, Counted, pc["client"] = "ready",
         pc["server"] = "recv", content["server"] = 0, Avail("server") = 0
  PROVE  /\ \A e \in End : /\ sentOctets[e] = receivedOctets[Peer(e)]
                           /\ sentPackets[e] = receivedPackets[Peer(e)]
         /\ sentPackets["client"] = Len(wire["client"])
         /\ jobs = seq
<1>1. /\ \A e \in End : /\ sentOctets[e] \in Nat /\ sentPackets[e] \in Nat
                        /\ receivedOctets[e] \in Nat /\ taken[e] \in Nat
                        /\ written[e] \in Nat /\ content[e] \in Nat
      /\ Requests \in Nat /\ Responses \in Nat /\ Handled("server") \in Nat
  BY NumberTypes DEF StreamInv, TypeOK
<1>2. Quiet /\ jobs = seq
  BY DEF StreamInv, Conversation, JobProgress, Ended
<1>3. /\ sentOctets["client"] = After("client", Requests)
      /\ sentPackets["client"] = Requests
      /\ sentOctets["server"] = After("server", Responses)
      /\ sentPackets["server"] = Responses
  <2>1. SentCounted("client") /\ SentCounted("server")
    BY Ends DEF Counted
  <2>2. /\ sentOctets["client"] + 0 = After("client", Requests)
        /\ sentPackets["client"] + 0 = Requests
        /\ sentOctets["server"] + 0 = After("server", Responses)
        /\ sentPackets["server"] + 0 = Responses
    BY <2>1 DEF SentCounted, Ended, Requests, Responses
  <2> QED
    BY <1>1, <2>2, Ends
<1>4. receivedOctets["client"] = taken["client"] /\ receivedOctets["server"] = taken["server"]
  <2>1. ReceivedCounted("client") /\ ReceivedCounted("server")
    BY Ends DEF Counted
  <2>2. receivedOctets["client"] + 0 = taken["client"] /\ receivedOctets["server"] + 0 = taken["server"]
    BY <2>1 DEF ReceivedCounted, Ended
  <2> QED
    BY <1>1, <2>2, Ends
<1>5. taken["server"] = written["client"]
  BY <1>1, Ends DEF Avail
<1>6. written["client"] = After("client", Requests)
  BY Ends DEF StreamInv, Progress, Sender, Ended, Requests
<1>7. taken["client"] = After("server", Responses) /\ Handled("client") = Responses
  BY <1>2 DEF Quiet
<1>8. Handled("server") = Requests
  <2>1. taken["server"] - content["server"] = After("client", Handled("server"))
        /\ Handled("server") <= Requests
    BY Ends DEF StreamInv, Progress, Receiver, Ended, Requests
  <2>2. After("client", Handled("server")) = After("client", Requests)
    BY <1>1, <1>5, <1>6, <2>1, Ends
  <2>3. \A i \in 0 .. Requests, j \in 1 .. Requests :
          i < j => Behind(wire["client"], i) <= wire["client"][j].start
    BY Ends DEF StreamInv, WireLayout, Layout, Requests
  <2>4. \A j \in 1 .. Requests :
          /\ wire["client"][j].len > HeaderSize
          /\ wire["client"][j].start \in Nat /\ wire["client"][j].len \in Nat
          /\ Behind(wire["client"], j) = wire["client"][j].start + wire["client"][j].len
    <3>1. wire["client"] \in Seq(Message)
      BY NumberTypes DEF StreamInv
    <3>2. \A j \in 1 .. Requests : wire["client"][j] \in Message /\ wire["client"][j].len > HeaderSize
      BY <3>1, Ends DEF StreamInv, WireLayout, Layout, Requests
    <3> QED
      BY <1>1, <3>2 DEF Message, Behind
  <2>5. ~(Handled("server") < Requests)
    <3>1. SUFFICES ASSUME Handled("server") < Requests
                   PROVE  FALSE
      OBVIOUS
    <3>2. Handled("server") \in 0 .. Requests /\ Requests \in 1 .. Requests
      BY <1>1, <3>1
    <3>3. Behind(wire["client"], Handled("server")) <= wire["client"][Requests].start
      BY <2>3, <3>1, <3>2
    <3>4. HeaderSize \in Nat
      BY BabblerAssumption
    <3>5. Behind(wire["client"], Handled("server")) = Behind(wire["client"], Requests)
      BY <2>2 DEF After
    <3> QED
      BY <2>4, <3>2, <3>3, <3>4, <3>5
  <2> QED
    BY <1>1, <2>1, <2>5
<1>9. /\ sentOctets["client"] = receivedOctets["server"]
      /\ sentPackets["client"] = receivedPackets["server"]
      /\ sentOctets["server"] = receivedOctets["client"]
      /\ sentPackets["server"] = receivedPackets["client"]
  BY <1>3, <1>4, <1>5, <1>6, <1>7, <1>8 DEF Handled
<1> QED
  BY <1>2, <1>3, <1>9, Ends DEF Requests

(* Between two jobs the client's statistics and the responder's agree.     *)
THEOREM StatisticsAgree == Spec => []StatsAgree
<1>1. StreamInv /\ Counted => StatsAgree
  BY CountsAgree DEF StatsAgree
<1> QED
  BY <1>1, Invariant, CountsRight, PTL

-----------------------------------------------------------------------------
(***************************************************************************)
(* Every step is one of the request-reply contract, or stutters.           *)
(***************************************************************************)

(* What Abstract calls wanted.                                             *)
Wanted == /\ wire["client"] # << >>
          /\ wire["client"][Len(wire["client"])].options # 0

(* What it calls completed.                                                *)
Completed == Len(wire["client"]) - (IF jobs # seq /\ OnWire THEN 1 ELSE 0)

(* A step that issues no request and completes no job serves one or none.  *)
LEMMA ServeStep ==
  ASSUME StreamInv, StreamInv', [Next]_vars, wire'["client"] = wire["client"], Completed' = Completed
  PROVE  Abstract!Serve \/ UNCHANGED Abstract!vars
<1> DEFINE h == receivedPackets["server"]
<1>1. \/ receivedPackets'["server"] = h
      \/ receivedPackets'["server"] = h + 1
  BY CountStep, Ends DEF StreamInv
<1>2. CASE receivedPackets'["server"] = h
  BY <1>2 DEF Abstract!vars, Completed
<1>3. CASE receivedPackets'["server"] = h + 1
  <2>1. h + 1 <= Len(wire["client"])
    BY <1>3, Ends DEF StreamInv, Progress, Receiver, Handled
  <2>2. h \in Nat /\ Len(wire["client"]) \in Nat
    BY NumberTypes DEF StreamInv, Requests, Handled
  <2>3. h < Len(wire["client"])
    BY <2>1, <2>2
  <2> QED
    BY <1>3, <2>3 DEF Abstract!Serve, Completed
<1> QED
  BY <1>1, <1>2, <1>3

(* A completed job is the last one issued, served if it wants a reply.     *)
LEMMA CompleteStep ==
  ASSUME StreamInv, wire'["client"] = wire["client"], UNCHANGED receivedPackets,
         jobs' = jobs + 1, seq' = seq,
         \/ pc["client"] = "sending" /\ respSize = 0
         \/ pc["client"] = "deliver"
  PROVE  Abstract!Complete
<1>1. TypeOK /\ JobProgress /\ Conversation
  BY DEF StreamInv
<1>2. Requests \in Nat /\ jobs \in Nat
  BY <1>1, NumberTypes
<1>3. /\ seq = jobs + 1 /\ Requests > 0 /\ wire["client"][Requests].seq = seq
      /\ respSize = 0 => wire["client"][Requests].options = 0
  <2>1. reqSize >= HeaderSize /\ reqSize # HeaderSize
    BY <1>1 DEF JobProgress, Ended
  <2>2. reqSize \in Nat /\ HeaderSize \in Nat
    BY <1>1, BabblerAssumption DEF TypeOK
  <2>3. reqSize > HeaderSize
    BY <2>1, <2>2
  <2> QED
    BY <1>1, <2>3 DEF JobProgress, Ended
<1>4. Completed = Len(wire["client"]) - 1 /\ Completed' = Len(wire["client"])
  <2>1. jobs # seq /\ jobs' = seq'
    BY <1>2, <1>3
  <2>2. OnWire
    BY <1>3 DEF OnWire, Requests
  <2>3. Completed = Len(wire["client"]) - 1
    BY <2>1, <2>2 DEF Completed
  <2>4. Completed' = Len(wire["client"])'
    <3>1. ~(jobs # seq /\ OnWire)'
      BY <2>1
    <3>2. Len(wire["client"])' \in Nat
      BY <1>2 DEF Requests
    <3>3. Completed' = Len(wire["client"])' - 0
      BY <3>1, Zenon DEF Completed
    <3> QED
      BY <3>2, <3>3
  <2> QED
    BY <2>3, <2>4
<1>5. Wanted => receivedPackets["server"] = Len(wire["client"])
  <2>1. CASE pc["client"] = "sending" /\ respSize = 0
    BY <1>3, <2>1 DEF Wanted, Requests
  <2>2. CASE pc["client"] = "deliver"
    BY <1>1, <2>2 DEF Conversation, Handled, Requests
  <2> QED
    BY <2>1, <2>2
<1>6. Completed < Len(wire["client"]) /\ Completed' = Completed + 1
  BY <1>2, <1>4 DEF Requests
<1> QED
  BY <1>5, <1>6 DEF Abstract!Complete, Wanted, Completed

(* A started job issues a request; one that ends in a BUG_ON, or has only  *)
(* a header to send, does not.                                             *)
LEMMA IssueStep ==
  ASSUME StreamInv, StreamInv', StartJob
  PROVE  Abstract!Issue \/ UNCHANGED Abstract!vars
<1>1. pc["client"] = "ready" /\ UNCHANGED receivedPackets /\ seq' = seq + 1
  BY DEF StartJob, statVars
<1>2. /\ jobs = seq /\ seq \in Nat /\ Requests \in Nat
      /\ Requests > 0 => wire["client"][Requests].seq <= seq
  BY <1>1, NumberTypes DEF StreamInv, JobProgress
<1>3. Completed = Len(wire["client"])
  BY <1>2 DEF Completed, Requests
<1>4. CASE UNCHANGED sendVars
  <2>1. Requests > 0 => wire["client"][Requests].seq # seq + 1
    BY <1>2, LastSeq DEF StreamInv
  <2>2. ~OnWire'
    BY <1>1, <1>4, <2>1 DEF OnWire, Requests, sendVars
  <2>3. Completed' = Completed
    BY <1>2, <1>3, <1>4, <2>2 DEF Completed, Requests, sendVars
  <2> QED
    BY <1>1, <1>4, <2>3 DEF sendVars, Abstract!vars, Completed
<1>5. CASE ~UNCHANGED sendVars
  <2>1. PICK m : /\ wire' = [wire EXCEPT !["client"] = Append(@, m)]
                 /\ m.seq = seq' /\ jobs' = jobs /\ m \in Message
    <3>1. PICK req \in ReqSizes, resp \in RespSizes :
            /\ req \in Nat /\ resp \in Nat /\ resp \notin 1 .. HeaderSize - 1
            /\ BeginSend("client",
                 [start |-> written["client"], len |-> req, seq |-> seq',
                  options |-> IF resp = 0 THEN 0 ELSE resp - HeaderSize])
            /\ jobs' = jobs
      BY <1>5, StartJobOutcome
    <3> DEFINE m == [start |-> written["client"], len |-> req, seq |-> seq',
                     options |-> IF resp = 0 THEN 0 ELSE resp - HeaderSize]
    <3>2. m \in Message
      BY <1>1, <3>1, RequestType DEF StreamInv
    <3>3. m.seq = seq' /\ BeginSend("client", m)
      BY <3>1
    <3> HIDE DEF m
    <3> QED
      BY <3>1, <3>2, <3>3 DEF BeginSend
  <2>2. wire \in [End -> Seq(Message)] /\ wire["client"] \in Seq(Message)
    BY Ends DEF StreamInv, TypeOK
  <2>3. wire'["client"] = Append(wire["client"], m)
    BY <2>1, <2>2, Ends
  <2>4. Requests' = Requests + 1 /\ wire'["client"][Requests + 1] = m
    BY <2>1, <2>2, <2>3, AppendFacts DEF Requests
  <2>5. jobs' # seq' /\ OnWire'
    BY <1>1, <1>2, <2>1, <2>4 DEF OnWire, Requests
  <2>6. Completed' = Completed
    BY <1>2, <1>3, <2>4, <2>5 DEF Completed, Requests
  <2> QED
    BY <1>1, <1>3, <2>4, <2>6 DEF Abstract!Issue, Completed, Requests
<1> QED
  BY <1>4, <1>5

(* Before the first request the abstract state is the initial one.         *)
LEMMA AbstractInit == Init => Abstract!Init
<1> SUFFICES ASSUME Init PROVE Abstract!Init
  OBVIOUS
<1>1. wire["client"] = << >> /\ receivedPackets["server"] = 0 /\ jobs = 0
  BY Ends DEF Init
<1>2. Len(wire["client"]) = 0 /\ ~Wanted /\ Completed = 0
  BY <1>1 DEF Wanted, Completed, OnWire
<1> QED
  BY <1>1, <1>2 DEF Abstract!Init, Wanted, Completed

(* Every step of the connection is one of the contract or invisible to it. *)
LEMMA AbstractStep ==
  ASSUME StreamInv, StreamInv', [Next]_vars
  PROVE  Abstract!Next \/ UNCHANGED Abstract!vars
<1>1. CASE StartJob
  BY <1>1, IssueStep DEF Abstract!Next
<1>2. CASE SendBytes("client") /\ jobs' # jobs
  <2>1. /\ UNCHANGED <<wire, receivedPackets>>
        /\ pc["client"] = "sending"
        /\ respSize = 0 /\ EndJob /\ seq' = seq
    <3>1. PICK n : HandOver("client", n)
      BY <1>2 DEF SendBytes
    <3>2. respSize = 0 /\ EndJob
      BY <1>2, <3>1 DEF HandOver
    <3> QED
      BY <1>2, <3>2 DEF SendBytes
  <2>2. jobs' = jobs + 1
    BY <2>1 DEF EndJob
  <2> QED
    BY <2>1, <2>2, CompleteStep DEF Abstract!Next
<1>3. CASE RecvResponse /\ jobs' # jobs
  <2>1. /\ UNCHANGED <<wire, receivedPackets>>
        /\ pc["client"] = "deliver" /\ jobs' = jobs + 1 /\ seq' = seq
    BY <1>3 DEF RecvResponse, EndJob, sendVars, statVars
  <2> QED
    BY <2>1, CompleteStep DEF Abstract!Next
<1>4. CASE wire'["client"] = wire["client"] /\ jobs' = jobs /\ seq' = seq
  <2>1. Completed' = Completed
    BY <1>4 DEF Completed, OnWire
  <2> QED
    BY <1>4, <2>1, ServeStep DEF Abstract!Next
<1>5. \/ StartJob
      \/ SendBytes("client") /\ jobs' # jobs
      \/ RecvResponse /\ jobs' # jobs
      \/ wire'["client"] = wire["client"] /\ jobs' = jobs /\ seq' = seq
  <2>1. CASE SendBytes("client")
    BY <2>1 DEF SendBytes
  <2>2. CASE SendBytes("server")
    <3>1. PICK n : HandOver("server", n)
      BY <2>2 DEF SendBytes
    <3>2. jobs' = jobs
      BY <3>1 DEF HandOver
    <3> QED
      BY <2>2, <3>2 DEF SendBytes
  <2>3. CASE RecvResponse
    BY <2>3 DEF RecvResponse, sendVars
  <2>4. CASE SendResponse
    <3>1. wire' = wire \/ \E m : wire' = [wire EXCEPT !["server"] = Append(@, m)]
      BY <2>4 DEF SendResponse, BeginSend, sendVars
    <3>2. wire \in [End -> Seq(Message)]
      BY DEF StreamInv, TypeOK
    <3>3. wire'["client"] = wire["client"]
      BY <3>1, <3>2, Ends
    <3> QED
      BY <2>4, <3>3 DEF SendResponse, jobVars
  <2>5. CASE \E e \in End : RecvHeader(e) \/ Parse(e) \/ RecvBody(e) \/ ConnectionLost(e)
    BY <2>5 DEF RecvHeader, Parse, RecvBody, ConnectionLost, sendVars, jobVars
  <2>6. CASE \/ LimitReached \/ RecvCancelled \/ TerminateAll \/ BreakConnection
             \/ \E e \in End : EmptyWakeup(e)
    BY <2>6 DEF LimitReached, RecvCancelled, TerminateAll, BreakConnection, EmptyWakeup,
                sendVars, jobVars
  <2>7. CASE UNCHANGED vars
    BY <2>7 DEF vars, sendVars, jobVars
  <2>8. CASE StartJob
    BY <2>8
  <2> QED
    BY <2>1, <2>2, <2>3, <2>4, <2>5, <2>6, <2>7, <2>8, Ends
       DEF Next, Client, Server, Transfer, Over
<1> QED
  BY <1>1, <1>2, <1>3, <1>4, <1>5

(* The connection implements the request-reply contract.                   *)
THEOREM Refinement == Spec => ImplementsRequestReply
<1>1. Init => Abstract!Init
  BY AbstractInit
<1>2. StreamInv /\ StreamInv' /\ [Next]_vars => [Abstract!Next]_Abstract!vars
  BY AbstractStep
<1> QED
  BY <1>1, <1>2, Invariant, PTL DEF Spec, ImplementsRequestReply, Abstract!Spec
=============================================================================
