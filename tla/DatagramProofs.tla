--------------------------- MODULE DatagramProofs ---------------------------
(***************************************************************************)
(* The theorems about net-babbler over UDP, for every number of clients    *)
(* and threads, every buffer and any faults of the network.  Why they hold:*)
(* as long as every message is one datagram it is received as a whole, only*)
(* the job in progress has its sequence number, and while nothing is       *)
(* doubled a request or its answer is in one place only.                   *)
(***************************************************************************)
EXTENDS Datagram, TLAPS

States == {"ready", "recv", "body", "deliver"} \cup Ended

(* The smaller of two numbers.                                             *)
LEMMA LesserFacts ==
  ASSUME NEW a \in Int, NEW b \in Int
  PROVE  /\ Lesser(a, b) \in {a, b} /\ Lesser(a, b) <= a /\ Lesser(a, b) <= b
         /\ a <= b => Lesser(a, b) = a
BY DEF Lesser

(* A thread is of one program, and its buffer holds more than a header.    *)
LEMMA Programs ==
  ASSUME NEW r \in Receivers
  PROVE  /\ r \in Clients <=> r \notin Threads
         /\ Buf(r) \in Nat \ {0} /\ HeaderSize \in Nat \ {0} /\ HeaderSize < Buf(r)
         /\ Buf(r) \in {ClientBuf, ServerBuf}
<1>1. /\ HeaderSize \in Nat \ {0} /\ ClientBuf \in Nat /\ ServerBuf \in Nat
      /\ HeaderSize < ClientBuf /\ HeaderSize < ServerBuf
  BY DatagramAssumption
<1>2. r \in Clients <=> r \notin Threads
  BY DatagramAssumption DEF Receivers
<1> QED
  BY <1>1, <1>2 DEF Buf

(* What every message has.                                                 *)
LEMMA MessageFacts ==
  ASSUME NEW m \in Request \cup Response
  PROVE  /\ m.client \in Clients /\ m.seq \in Nat /\ m.len \in Nat \ {0}
         /\ Answer(m) \in Nat
         /\ m.kind = "request" => m \in Request /\ Answer(m) = m.resp
         /\ m.kind = "response" => m \in Response /\ Answer(m) = m.len
         /\ m \in Request => m.kind = "request"
         /\ m \in Response => m.kind = "response"
BY DEF Request, Response, Answer

(* The k-th bufferful of a message begins inside it.                       *)
LEMMA PieceInside ==
  ASSUME NEW len \in Nat \ {0}, NEW buf \in Nat \ {0},
         NEW k \in 0 .. (len - 1) \div buf
  PROVE  k * buf \in Nat /\ k * buf < len
<1> DEFINE q == (len - 1) \div buf
<1>1. q \in Nat /\ q * buf <= len - 1
  OBVIOUS
<1>2. k \in Nat /\ k <= q
  BY <1>1
<1>3. ASSUME NEW x \in Nat, NEW y \in Nat, x <= y
      PROVE  x * buf \in Nat /\ x * buf <= y * buf
  BY <1>3
<1> HIDE DEF q
<1>4. k * buf \in Nat /\ k * buf <= q * buf
  BY <1>1, <1>2, <1>3
<1>5. q * buf \in Nat
  BY <1>1, <1>3
<1> QED
  BY <1>1, <1>4, <1>5

(* A message that the buffer holds is one bufferful.                       *)
LEMMA OneBufferful ==
  ASSUME NEW len \in Nat \ {0}, NEW buf \in Nat \ {0}, len <= buf
  PROVE  (len - 1) \div buf = 0
OBVIOUS

(* The pieces of a message, and of one that the buffer holds.              *)
LEMMA PiecesFacts ==
  ASSUME NEW m, m.len \in Nat \ {0}, NEW buf \in Nat \ {0}, NEW d \in Pieces(m, buf)
  PROVE  /\ d.msg = m /\ d.off \in Nat /\ d.n \in 1 .. m.len
         /\ m.len <= buf => d = [msg |-> m, off |-> 0, n |-> m.len]
<1>1. PICK k \in 0 .. (m.len - 1) \div buf :
        d = [msg |-> m, off |-> k * buf, n |-> Lesser(buf, m.len - k * buf)]
  BY DEF Pieces
<1>2. k * buf \in Nat /\ k * buf < m.len
  BY PieceInside
<1>3. Lesser(buf, m.len - k * buf) \in 1 .. m.len
  BY <1>2 DEF Lesser
<1>4. ASSUME m.len <= buf
      PROVE  d = [msg |-> m, off |-> 0, n |-> m.len]
  <2>1. k = 0
    BY <1>4, OneBufferful
  <2>2. k * buf = 0 /\ m.len - 0 = m.len
    BY <2>1
  <2>3. Lesser(buf, m.len) = m.len
    BY <1>4 DEF Lesser
  <2> QED
    BY <1>1, <2>2, <2>3
<1> QED
  BY <1>1, <1>2, <1>3, <1>4

(* What send() does: it is refused, or its pieces are under way.           *)
LEMMA SendFacts ==
  ASSUME TypeOK, NEW r \in Receivers, NEW m \in Request \cup Response, NEW next,
         Send(r, m, next)
  PROVE  /\ \/ pc' = [pc EXCEPT ![r] = "error"] /\ oversize' = TRUE
            \/ pc' = [pc EXCEPT ![r] = next] /\ oversize' = oversize
         /\ split => split'
         /\ split' \in BOOLEAN /\ oversize' \in BOOLEAN
         /\ \A d \in net' : d \notin net =>
              /\ pc' = [pc EXCEPT ![r] = next]
              /\ d.msg = m /\ d.off \in Nat /\ d.n \in 1 .. m.len
              /\ ~split' => /\ d = [msg |-> m, off |-> 0, n |-> m.len]
                            /\ m.len <= ClientBuf /\ m.len <= ServerBuf
<1>1. m.len \in Nat \ {0} /\ Buf(r) \in Nat \ {0} /\ Buf(r) \in {ClientBuf, ServerBuf}
      /\ ClientBuf \in Nat /\ ServerBuf \in Nat
  BY MessageFacts, Programs, DatagramAssumption
<1>2. CASE Lesser(m.len, Buf(r)) > MaxDatagram
  BY <1>2 DEF Send, TypeOK
<1>3. CASE ~(Lesser(m.len, Buf(r)) > MaxDatagram)
  <2>1. /\ pc' = [pc EXCEPT ![r] = next] /\ oversize' = oversize
        /\ net' = net \cup Pieces(m, Buf(r))
        /\ split' = (split \/ m.len > ClientBuf \/ m.len > ServerBuf)
    BY <1>3 DEF Send
  <2>2. ASSUME NEW d \in net', d \notin net
        PROVE  /\ d.msg = m /\ d.off \in Nat /\ d.n \in 1 .. m.len
               /\ ~split' => /\ d = [msg |-> m, off |-> 0, n |-> m.len]
                             /\ m.len <= ClientBuf /\ m.len <= ServerBuf
    <3>1. d \in Pieces(m, Buf(r))
      BY <2>1, <2>2
    <3>2. ~split' => m.len <= ClientBuf /\ m.len <= ServerBuf
      <4>1. ~split' => ~(m.len > ClientBuf) /\ ~(m.len > ServerBuf)
        BY <2>1, Zenon
      <4> QED
        BY <1>1, <4>1
    <3>3. ~split' => m.len <= Buf(r)
      BY <1>1, <3>2
    <3> QED
      BY <1>1, <3>1, <3>2, <3>3, PiecesFacts
  <2>3. split \in BOOLEAN /\ oversize \in BOOLEAN
    BY DEF TypeOK
  <2> QED
    BY <2>1, <2>2, <2>3
<1> QED
  BY <1>2, <1>3
-----------------------------------------------------------------------------
(* A step that puts nothing under way and brings nobody a message.         *)
Quiet ==
  /\ net' \subseteq net /\ UNCHANGED <<seq, size, junk>>
  /\ \A r \in Receivers : pc'[r] \in {"body", "deliver"} =>
       pc'[r] = pc[r] /\ cur'[r] = cur[r] /\ done'[r] = done[r] /\ source'[r] = source[r]

(* It keeps what is known of the messages ...                              *)
LEMMA TrafficFrame ==
  ASSUME Traffic, Quiet, Received', \A c \in Clients : pc'[c] = "ready" => seq[c] < Count
  PROVE  Traffic'
BY DEF Traffic, Quiet

(* ... and of whole ones ...                                               *)
LEMMA WholeFrame ==
  ASSUME Whole, Quiet
  PROVE  Whole'
<1>1. Threads \subseteq Receivers
  BY DEF Receivers
<1> QED
  BY <1>1 DEF Whole, Quiet, Delivers

(* ... and their sequence numbers ...                                      *)
LEMMA FitsFrame ==
  ASSUME Fits, Quiet
  PROVE  Fits'
BY DEF Fits, Quiet, Delivers, InTime

(* ... and where they are, unless it makes a client wait no longer.        *)
LEMMA OnceFrame ==
  ASSUME Traffic, Once, Quiet,
         \A c \in Clients : pc'[c] \in {"ready", "deliver", "done"} =>
                              pc[c] \in {"ready", "deliver", "done"}
  PROVE  Once'
<1>1. Threads \subseteq Receivers /\ Clients \subseteq Receivers
  BY DEF Receivers
<1>2. /\ \A d \in net : d.msg.client \in Clients
      /\ \A t \in Threads : Delivers(t) => cur[t].client \in Clients
  BY <1>1, MessageFacts DEF Traffic, Delivers
<1>3. \A r \in Receivers : Delivers(r)' => Delivers(r) /\ cur'[r] = cur[r]
  BY DEF Quiet, Delivers
<1>4. /\ seq' = seq /\ net' \subseteq net
  BY DEF Quiet
<1>5. \A d \in net' : Awaited(d.msg) => Awaited(d.msg)'
  BY <1>2, <1>4 DEF Awaited
<1>6. \A t \in Threads : Delivers(t)' /\ Awaited(cur[t]) => Awaited(cur[t])'
  BY <1>1, <1>2, <1>3, <1>4 DEF Awaited
<1> QED
  BY <1>1, <1>3, <1>4, <1>5, <1>6 DEF Once

(* The invariant from its parts.                                           *)
LEMMA FrameInv ==
  ASSUME SharedInv, Quiet, EndsExplained', Received', UNCHANGED split, doubled' = 0 => doubled = 0,
         \A c \in Clients : pc'[c] = "ready" => seq[c] < Count,
         \A c \in Clients : pc'[c] \in {"ready", "deliver", "done"} =>
                              pc[c] \in {"ready", "deliver", "done"}
  PROVE  SharedInv'
<1>1. Traffic'
  BY TrafficFrame DEF SharedInv
<1>2. ~split' => Whole' /\ Fits'
  BY WholeFrame, FitsFrame DEF SharedInv
<1>3. ~split' /\ doubled' = 0 => Once'
  BY OnceFrame DEF SharedInv
<1> QED
  BY <1>1, <1>2, <1>3 DEF SharedInv
-----------------------------------------------------------------------------
(* A client that finds the server gone sends and receives no more.         *)
LEMMA RefusedInv ==
  ASSUME SharedInv, NEW c \in Clients, Refused(c)
  PROVE  SharedInv'
<1>1. /\ pc' = [pc EXCEPT ![c] = "error"] /\ pc[c] \in {"ready", "recv", "body"}
      /\ \A t \in Threads : pc[t] \in {"aborted", "error"}
      /\ UNCHANGED <<seq, size, net, junk, cur, done, source, lost, doubled,
                  split, oversize, undersize>>
  BY DEF Refused, recvVars, faultVars, sizeVars
<1>2. /\ TypeOK /\ pc \in [Receivers -> States] /\ c \in Receivers /\ c \notin Threads
      /\ EndsExplained
  BY Programs DEF SharedInv, EndsExplained, TypeOK, States, Receivers
<1>3. \A r \in Receivers : pc'[r] = IF r = c THEN "error" ELSE pc[r]
  BY <1>1, <1>2
<1>4. TypeOK'
  BY <1>1, <1>2 DEF TypeOK, Ended
<1>5. split \/ oversize
  <2>1. PICK t \in Threads : TRUE
    BY DatagramAssumption
  <2> QED
    BY <1>1, <1>2, <2>1 DEF EndsExplained
<1>6. EndsExplained'
  BY <1>1, <1>2, <1>3, <1>4, <1>5 DEF EndsExplained, Receivers
<1>7. Quiet /\ Received'
  BY <1>1, <1>3 DEF Quiet, Received, SharedInv, Traffic
<1>8. \A d \in Clients : /\ pc'[d] = "ready" => seq[d] < Count
                         /\ pc'[d] \in {"ready", "deliver", "done"} => pc[d] = pc'[d]
  BY <1>2, <1>3 DEF Receivers, SharedInv, Traffic
<1> QED
  BY <1>1, <1>6, <1>7, <1>8, FrameInv

(* A datagram that is lost is no longer anywhere.                          *)
LEMMA LoseInv ==
  ASSUME SharedInv, Lose
  PROVE  SharedInv'
<1>1. /\ net' \subseteq net /\ lost' = lost + 1
      /\ UNCHANGED <<pc, seq, size, junk, cur, done, source, doubled,
                  split, oversize, undersize>>
  BY DEF Lose, recvVars, sizeVars
<1>2. EndsExplained'
  BY <1>1 DEF SharedInv, EndsExplained, TypeOK
<1>3. Quiet /\ Received'
  BY <1>1 DEF Quiet, Received, SharedInv, Traffic
<1> QED
  BY <1>1, <1>2, <1>3, FrameInv DEF SharedInv, Traffic

(* Nothing changes when everything stays as it is.                         *)
LEMMA StutterInv ==
  ASSUME SharedInv, UNCHANGED vars
  PROVE  SharedInv'
<1>1. UNCHANGED <<pc, seq, size, net, junk, cur, done, source, lost, doubled,
                  split, oversize, undersize>>
  BY DEF vars, recvVars, faultVars, sizeVars
<1>2. EndsExplained'
  BY <1>1 DEF SharedInv, EndsExplained, TypeOK
<1>3. Quiet /\ Received'
  BY <1>1 DEF Quiet, Received, SharedInv, Traffic
<1> QED
  BY <1>1, <1>2, <1>3, FrameInv DEF SharedInv, Traffic

(* Whom a cProtocolException takes with it.                                *)
LEMMA AbortFacts ==
  ASSUME TypeOK, NEW r \in Receivers, Abort(r)
  PROVE  /\ pc' \in [Receivers -> States]
         /\ \A x \in Receivers : \/ pc'[x] = pc[x]
                                 \/ /\ pc'[x] = "aborted" /\ (r \in Clients => x \in Clients)
                                    /\ (r \in Threads => x \in Threads)
<1>1. pc' \in [Receivers -> States]
  BY DEF TypeOK, Abort, States, Ended
<1>2. \A x \in Receivers : \/ pc'[x] = pc[x]
                           \/ pc'[x] = "aborted" /\ (x \in Clients) = (r \in Clients)
  BY DEF Abort
<1> QED
  BY <1>1, <1>2, Programs

(* A response is taken, or it is a late one and ends the client.           *)
LEMMA RecvResponseInv ==
  ASSUME SharedInv, NEW c \in Clients, RecvResponse(c)
  PROVE  SharedInv'
<1>1. /\ pc[c] = "deliver"
      /\ \/ cur[c].seq = seq[c] /\ pc' = [pc EXCEPT ![c] = AfterJob(c, seq[c])]
         \/ cur[c].seq # seq[c] /\ Abort(c)
      /\ cur' = [cur EXCEPT ![c] = Nothing]
      /\ done' = [done EXCEPT ![c] = 0]
      /\ source' = [source EXCEPT ![c] = c]
      /\ UNCHANGED <<seq, size, net, junk, lost, doubled,
                  split, oversize, undersize>>
  BY DEF RecvResponse, Forget, faultVars, sizeVars
<1>2. /\ TypeOK /\ pc \in [Receivers -> States] /\ c \in Receivers /\ c \notin Threads
      /\ EndsExplained /\ Traffic
  BY Programs DEF SharedInv, EndsExplained, TypeOK, States, Receivers
<1>3. /\ AfterJob(c, seq[c]) \in {"ready", "done"}
      /\ AfterJob(c, seq[c]) = "ready" => seq[c] < Count
  <2>1. seq[c] \in 0 .. Count /\ Count \in Nat
    BY <1>2, DatagramAssumption DEF TypeOK
  <2> QED
    BY <2>1 DEF AfterJob
<1>4. \/ /\ pc'[c] \in {"ready", "done"} /\ (pc'[c] = "ready" => seq[c] < Count)
         /\ \A x \in Receivers : x # c => pc'[x] = pc[x]
      \/ /\ cur[c].seq # seq[c] /\ pc'[c] = "aborted"
         /\ \A x \in Receivers : pc'[x] = pc[x] \/ (pc'[x] = "aborted" /\ x \in Clients)
  <2>1. CASE cur[c].seq = seq[c] /\ pc' = [pc EXCEPT ![c] = AfterJob(c, seq[c])]
    BY <1>2, <1>3, <2>1
  <2>2. CASE cur[c].seq # seq[c] /\ Abort(c)
    <3>1. pc'[c] = "aborted"
      BY <1>2, <2>2 DEF Abort
    <3>2. \A x \in Receivers : pc'[x] = pc[x] \/ (pc'[x] = "aborted" /\ x \in Clients)
      BY <1>2, <2>2, AbortFacts
    <3> QED
      BY <2>2, <3>1, <3>2
  <2> QED
    BY <1>1, <2>1, <2>2
<1>5. TypeOK'
  <2>1. pc' \in [Receivers -> States]
    <3>1. CASE Abort(c)
      BY <1>2, <3>1, AbortFacts
    <3>2. CASE pc' = [pc EXCEPT ![c] = AfterJob(c, seq[c])]
      <4>1. AfterJob(c, seq[c]) \in States
        BY <1>3 DEF States, Ended
      <4> QED
        BY <1>2, <3>2, <4>1
    <3> QED
      BY <1>1, <3>1, <3>2
  <2> QED
    BY <1>1, <1>2, <2>1 DEF TypeOK, States
<1>6. cur[c].seq # seq[c] => split \/ doubled > 0
  <2>1. ~split /\ doubled = 0 => cur[c].seq = seq[c]
    BY <1>1 DEF SharedInv, Once, Delivers
  <2>2. doubled \in Nat /\ split \in BOOLEAN
    BY <1>2 DEF TypeOK
  <2> QED
    BY <2>1, <2>2
<1>7. \A t \in Threads : t \in Receivers /\ t \notin Clients
  BY DatagramAssumption DEF Receivers
<1>8. EndsExplained'
  BY <1>1, <1>2, <1>4, <1>5, <1>6, <1>7 DEF EndsExplained, Receivers
<1>9. Quiet
  <2>1. \A r \in Receivers : r # c => cur'[r] = cur[r] /\ done'[r] = done[r] /\ source'[r] = source[r]
    <3>1. \A r \in Receivers : r # c =>
            /\ [cur EXCEPT ![c] = Nothing][r] = cur[r]
            /\ [done EXCEPT ![c] = 0][r] = done[r]
            /\ [source EXCEPT ![c] = c][r] = source[r]
      BY <1>2 DEF Traffic
    <3> QED
      BY <1>1, <3>1
  <2>2. \A r \in Receivers : pc'[r] \in {"body", "deliver"} => r # c /\ pc'[r] = pc[r]
    BY <1>4
  <2> QED
    BY <1>1, <2>1, <2>2 DEF Quiet
<1>10. \A d \in Clients : /\ pc'[d] = "ready" => seq[d] < Count
                          /\ pc'[d] \in {"ready", "deliver", "done"} =>
                               pc[d] \in {"ready", "deliver", "done"}
  BY <1>1, <1>2, <1>4 DEF Receivers, Traffic
<1>11. Received'
  BY <1>1, <1>2 DEF Received, Traffic
<1> QED
  BY <1>1, <1>8, <1>9, <1>10, <1>11, FrameInv
-----------------------------------------------------------------------------
(* A datagram is taken; a copy of it stays behind only if it was doubled.  *)
LEMMA TakeFacts ==
  ASSUME TypeOK, NEW d \in net, Take(d), lost' = lost
  PROVE  /\ net' \subseteq net /\ doubled' \in Nat /\ lost' \in Nat
         /\ doubled <= doubled'
         /\ doubled' = 0 => net' = net \ {d} /\ doubled = 0
<1>1. doubled \in Nat /\ lost \in Nat
  BY DEF TypeOK
<1>2. CASE net' = net \ {d} /\ UNCHANGED faultVars
  BY <1>1, <1>2 DEF faultVars
<1>3. CASE doubled' = doubled + 1 /\ UNCHANGED <<net, lost>>
  BY <1>1, <1>3
<1> QED
  BY <1>2, <1>3 DEF Take

(* n octets of a message have come.                                        *)
LEMMA ProgressFacts ==
  ASSUME TypeOK, Received, NEW r \in Receivers, NEW m \in Request \cup Response,
         NEW n \in Nat, n <= m.len, Progress(r, m, n)
  PROVE  /\ pc' \in [Receivers -> States] /\ done' \in [Receivers -> Nat]
         /\ cur' \in [Receivers -> Request \cup Response \cup {Nothing}]
         /\ pc'[r] = IF n = m.len THEN "deliver" ELSE "body"
         /\ cur'[r] = m /\ done'[r] = n
         /\ \A x \in Receivers : x # r =>
              pc'[x] = pc[x] /\ cur'[x] = cur[x] /\ done'[x] = done[x]
BY DEF TypeOK, Received, Progress, States, Ended

(* recvfrom says where the datagram came from.                             *)
LEMMA RememberFacts ==
  ASSUME Received, NEW r \in Receivers, NEW d, d.msg.client \in Clients, Remember(r, d)
  PROVE  /\ source' \in [Receivers -> Receivers]
         /\ source'[r] = d.msg.client
         /\ \A x \in Receivers : x # r => source'[x] = source[x]
BY DEF Received, Remember, Receivers

(* A datagram is for a thread of the server, or answers its client.        *)
LEMMA ForFacts ==
  ASSUME NEW r \in Receivers, NEW d, d.msg \in Request \cup Response, For(r, d)
  PROVE  /\ r \in Threads => d.msg \in Request
         /\ r \in Clients => d.msg \in Response /\ d.msg.client = r
BY MessageFacts, Programs DEF For

(* The types and Traffic after a piece has come, from what it changes.     *)
LEMMA PieceTraffic ==
  ASSUME TypeOK, Traffic, NEW r \in Receivers, NEW m \in Request \cup Response,
         NEW n \in Nat, n <= m.len,
         net' \subseteq net, Received', source'[r] \in Clients,
         r \in Threads => m \in Request,
         r \in Clients => m \in Response /\ m.client = r,
         pc'[r] \in {"body", "deliver"}, cur'[r] = m, done'[r] = n,
         UNCHANGED <<seq, junk>>,
         \A x \in Receivers : x # r => /\ pc'[x] = pc[x] /\ cur'[x] = cur[x]
                                       /\ done'[x] = done[x] /\ source'[x] = source[x]
  PROVE  Traffic'
<1>1. \A x \in Receivers :
        /\ junk'[x] <= Buf(x)
        /\ pc'[x] \in {"body", "deliver"} =>
             /\ x \in Threads => cur'[x] \in Request /\ source'[x] \in Clients
             /\ x \in Clients => cur'[x] \in Response /\ cur'[x].client = x
             /\ done'[x] <= cur'[x].len
  BY DEF Traffic
<1>2. \A c \in Clients : pc'[c] = "ready" => seq'[c] < Count
  BY DEF Traffic, Receivers
<1> QED
  BY <1>1, <1>2 DEF Traffic

(* More of a message that is split.                                        *)
LEMMA ReceiveBodyInv ==
  ASSUME SharedInv, NEW r \in Receivers, ReceiveBody(r)
  PROVE  SharedInv'
<1>1. TypeOK /\ Traffic /\ Received /\ EndsExplained
  BY DEF SharedInv, EndsExplained, Traffic
<1>2. pc[r] = "body" /\ UNCHANGED <<seq, size, lost, split, oversize, undersize>>
  BY DEF ReceiveBody, sizeVars
<1>3. split
  BY <1>2 DEF SharedInv, Whole
<1> DEFINE N(d) == Lesser(d.n, Lesser(cur[r].len - done[r], Buf(r)))
<1>4. PICK d \in net :
        /\ For(r, d) /\ Take(d) /\ Remember(r, d)
        /\ IF Continues(r, d)
           THEN Progress(r, cur[r], done[r] + N(d))
           ELSE Abort(r) /\ UNCHANGED <<junk, cur, done>>
  BY DEF ReceiveBody, sizeVars
<1>5. /\ d.msg \in Request \cup Response /\ d.n \in 1 .. d.msg.len
      /\ d.msg.client \in Clients
  BY <1>1, MessageFacts DEF Traffic
<1>6. /\ net' \subseteq net /\ doubled' \in Nat /\ lost' \in Nat /\ doubled <= doubled'
  BY <1>1, <1>2, TakeFacts, <1>4
<1>7. /\ source' \in [Receivers -> Receivers] /\ source'[r] \in Clients
      /\ \A x \in Receivers : x # r => source'[x] = source[x]
  BY <1>1, <1>4, <1>5, RememberFacts
<1>8. /\ cur[r] \in Request \cup Response
      /\ r \in Threads => cur[r] \in Request
      /\ r \in Clients => cur[r] \in Response /\ cur[r].client = r
      /\ done[r] <= cur[r].len /\ done[r] \in Nat /\ cur[r].len \in Nat \ {0}
  <2>1. /\ r \in Threads => cur[r] \in Request
        /\ r \in Clients => cur[r] \in Response /\ cur[r].client = r
        /\ done[r] <= cur[r].len /\ done[r] \in Nat
    BY <1>1, <1>2 DEF Traffic, TypeOK
  <2>2. cur[r] \in Request \cup Response
    BY <2>1 DEF Receivers
  <2> QED
    BY <2>1, <2>2, MessageFacts
<1>9. CASE Progress(r, cur[r], done[r] + N(d))
  <2>1. done[r] + N(d) \in Nat /\ done[r] + N(d) <= cur[r].len
    <3>1. d.n \in Nat /\ Buf(r) \in Nat
      BY <1>5, Programs, MessageFacts
    <3> QED
      BY <3>1, <1>8 DEF Lesser
  <2>2. junk' = junk
    BY <1>9 DEF Progress
  <2> HIDE DEF N
  <2>3. /\ pc' \in [Receivers -> States] /\ done' \in [Receivers -> Nat]
        /\ cur' \in [Receivers -> Request \cup Response \cup {Nothing}]
        /\ pc'[r] \in {"body", "deliver"}
        /\ cur'[r] = cur[r] /\ done'[r] = done[r] + N(d)
        /\ \A x \in Receivers : x # r =>
             pc'[x] = pc[x] /\ cur'[x] = cur[x] /\ done'[x] = done[x]
    BY <1>1, <1>8, <1>9, <2>1, ProgressFacts
  <2>4. TypeOK'
    BY <1>1, <1>2, <1>6, <2>2, <2>3 DEF TypeOK, States
  <2>5. EndsExplained'
    BY <1>1, <1>2, <1>3, <2>3, <2>4 DEF EndsExplained, Receivers
  <2>6. Received'
    BY <1>7, <2>3 DEF Received
  <2>7. Traffic'
    BY <1>1, <1>2, <1>6, <1>7, <1>8, <2>1, <2>2, <2>3, <2>6, PieceTraffic
  <2> QED
    BY <1>2, <1>3, <2>5, <2>7 DEF SharedInv
<1>10. CASE Abort(r) /\ UNCHANGED <<junk, cur, done>>
  <2>1. /\ pc' \in [Receivers -> States]
        /\ \A x \in Receivers : pc'[x] = pc[x] \/ pc'[x] = "aborted"
        /\ pc'[r] = "aborted"
    <3>1. pc'[r] = "aborted"
      BY <1>10 DEF Abort
    <3> QED
      BY <1>1, <1>10, <3>1, AbortFacts
  <2>2. TypeOK'
    BY <1>1, <1>2, <1>6, <1>10, <2>1 DEF TypeOK, States
  <2>3. EndsExplained'
    BY <1>1, <1>2, <1>3, <2>1, <2>2 DEF EndsExplained, Receivers
  <2>4. Received'
    BY <1>1, <1>7, <1>10 DEF Received
  <2>5. Quiet
    BY <1>2, <1>6, <1>7, <1>10, <2>1 DEF Quiet
  <2>6. Traffic'
    BY <1>1, <2>1, <2>4, <2>5, TrafficFrame DEF Traffic, Receivers
  <2> QED
    BY <1>2, <1>3, <2>3, <2>6 DEF SharedInv
<1> QED
  BY <1>4, <1>9, <1>10

(* A message that comes as a whole moves from the network to its receiver. *)
LEMMA WholeMoves ==
  ASSUME SharedInv, ~split, NEW r \in Receivers, NEW d \in net, For(r, d), pc[r] = "recv",
         net' \subseteq net, UNCHANGED <<seq, size, junk>>,
         pc'[r] = "deliver", cur'[r] = d.msg, source'[r] = d.msg.client,
         \A x \in Receivers : x # r => /\ pc'[x] = pc[x] /\ cur'[x] = cur[x]
                                       /\ source'[x] = source[x]
  PROVE  /\ Whole' /\ Fits'
         /\ doubled = 0 /\ net' = net \ {d} => Once'
<1>1. Traffic /\ Whole /\ Fits /\ Clients \subseteq Receivers /\ Threads \subseteq Receivers
  BY DEF SharedInv, Receivers
<1>2. /\ d.msg \in Request \cup Response /\ d.msg.client \in Clients
      /\ r \in Threads => d.msg \in Request
      /\ r \in Clients => d.msg \in Response /\ d.msg.client = r
  BY <1>1, MessageFacts, ForFacts DEF Traffic
<1>3. \A x \in Receivers : x # r => Delivers(x)' = Delivers(x)
  BY DEF Delivers
<1>4. Delivers(r)' /\ ~Delivers(r)
  BY DEF Delivers
<1>5. Whole'
  BY <1>1, <1>3 DEF Whole
<1>6. Fits'
  <2>1. \A e \in net : InTime(e.msg)'
    BY <1>1 DEF Fits, InTime
  <2>2. \A x \in Receivers : Delivers(x) => (cur'[x] = cur[x] => InTime(cur[x])')
    BY <1>1 DEF Fits, InTime
  <2>3. ASSUME NEW x \in Receivers, Delivers(x)'
        PROVE  InTime(cur[x])'
    <3>1. CASE x = r
      BY <3>1, <1>1 DEF Fits, InTime
    <3>2. CASE x # r
      BY <3>2, <2>3, <1>1, <1>3 DEF Fits, InTime
    <3> QED
      BY <3>1, <3>2
  <2> QED
    BY <2>1, <2>3 DEF Fits
<1>7. ASSUME doubled = 0, net' = net \ {d}
      PROVE  Once'
  <2>1. Once
    BY <1>7 DEF SharedInv
  <2>2. CASE r \in Threads
    <3>1. r \notin Clients /\ d.msg \in Request /\ Answer(d.msg) = d.msg.resp
      BY <1>2, <2>2, Programs, MessageFacts
    <3>2. \A c \in Clients : pc'[c] = pc[c]
      BY <1>1, <3>1
    <3>3. \A e \in net : Awaited(e.msg) => Awaited(e.msg)'
      BY <1>1, <3>2, MessageFacts DEF Awaited, Traffic
    <3>4. \A t \in Threads : t # r /\ Delivers(t) /\ Awaited(cur[t]) => Awaited(cur[t])'
      <4>1. \A t \in Threads : Delivers(t) => cur[t].client \in Clients
        BY <1>1, MessageFacts DEF Traffic, Delivers
      <4> QED
        BY <1>1, <3>2, <4>1 DEF Awaited
    <3>5. Answer(d.msg) # 0 => Awaited(cur[r])'
      BY <2>1, <1>2, <3>2 DEF Once, Awaited
    <3>6. ASSUME NEW e \in net', Answer(e.msg) # 0
          PROVE  /\ Awaited(e.msg)'
                 /\ \A f \in net' : Answer(f.msg) # 0 /\ f.msg.client = e.msg.client => f = e
                 /\ \A t \in Threads : Delivers(t)' /\ cur'[t].resp # 0
                                         => cur'[t].client # e.msg.client
      <4>1. e \in net /\ e # d
        BY <1>7
      <4>2. Awaited(e.msg)'
        BY <2>1, <3>3, <3>6, <4>1 DEF Once
      <4>3. \A f \in net' : Answer(f.msg) # 0 /\ f.msg.client = e.msg.client => f = e
        BY <2>1, <1>7, <3>6, <4>1 DEF Once
      <4>4. Answer(d.msg) # 0 => d.msg.client # e.msg.client
        BY <2>1, <3>6, <4>1 DEF Once
      <4>5. \A t \in Threads : Delivers(t)' /\ cur'[t].resp # 0 => cur'[t].client # e.msg.client
        BY <2>1, <1>1, <1>3, <3>1, <3>6, <4>1, <4>4 DEF Once
      <4> QED
        BY <4>2, <4>3, <4>5
    <3>7. ASSUME NEW t \in Threads, Delivers(t)', cur'[t].resp # 0
          PROVE  /\ Awaited(cur[t])'
                 /\ \A u \in Threads : Delivers(u)' /\ cur'[u].resp # 0
                                       /\ cur'[u].client = cur'[t].client => u = t
      <4>1. CASE t = r
        <5>1. Answer(d.msg) # 0
          BY <3>1, <3>7, <4>1
        <5>2. \A u \in Threads : u # r /\ Delivers(u) /\ cur[u].resp # 0
                                   => cur[u].client # d.msg.client
          BY <2>1, <5>1 DEF Once
        <5> QED
          BY <1>1, <1>3, <3>5, <4>1, <5>1, <5>2
      <4>2. CASE t # r
        <5>1. Delivers(t) /\ cur'[t] = cur[t] /\ cur[t].resp # 0
          BY <1>1, <1>3, <3>7, <4>2
        <5>2. Awaited(cur[t]) /\ (Answer(d.msg) # 0 => cur[t].client # d.msg.client)
          BY <2>1, <5>1 DEF Once
        <5>3. \A u \in Threads : u # r /\ Delivers(u)' /\ cur'[u].resp # 0
                                 /\ cur'[u].client = cur'[t].client => u = t
          BY <2>1, <1>1, <1>3, <5>1 DEF Once
        <5>4. cur'[r].resp # 0 => cur'[r].client # cur'[t].client
          BY <3>1, <5>1, <5>2
        <5>5. Awaited(cur[t])'
          BY <3>4, <4>2, <5>1, <5>2
        <5> QED
          BY <5>3, <5>4, <5>5
      <4> QED
        BY <4>1, <4>2
    <3>8. \A c \in Clients : Delivers(c)' => cur'[c].seq = seq'[c]
      BY <2>1, <1>1, <1>3, <3>1 DEF Once
    <3> QED
      BY <3>6, <3>7, <3>8 DEF Once
  <2>3. CASE r \in Clients
    <3>1. r \notin Threads /\ d.msg \in Response /\ d.msg.client = r /\ Answer(d.msg) # 0
      <4>1. r \notin Threads /\ d.msg \in Response /\ d.msg.client = r
        BY <1>2, <2>3, Programs
      <4>2. Answer(d.msg) = d.msg.len /\ d.msg.len \in Nat \ {0}
        BY <4>1, MessageFacts
      <4> QED
        BY <4>1, <4>2
    <3>2. \A c \in Clients : c # r => pc'[c] = pc[c]
      BY <1>1
    <3>3. Awaited(d.msg)
      BY <2>1, <3>1 DEF Once
    <3>4. \A e \in net : Answer(e.msg) # 0 /\ e # d => e.msg.client # r
      BY <2>1, <3>1 DEF Once
    <3>5. \A t \in Threads : Delivers(t) /\ cur[t].resp # 0 => cur[t].client # r
      BY <2>1, <3>1 DEF Once
    <3>6. \A e \in net : e.msg.client # r /\ Awaited(e.msg) => Awaited(e.msg)'
      BY <1>1, <3>2, MessageFacts DEF Awaited, Traffic
    <3>7. \A t \in Threads : Delivers(t)' = Delivers(t) /\ cur'[t] = cur[t]
      BY <1>1, <1>3, <3>1
    <3>8. \A t \in Threads : Delivers(t) /\ cur[t].client # r /\ Awaited(cur[t])
                               => Awaited(cur[t])'
      <4>1. \A t \in Threads : Delivers(t) => cur[t].client \in Clients
        BY <1>1, MessageFacts DEF Traffic, Delivers
      <4> QED
        BY <3>2, <3>7, <4>1 DEF Awaited
    <3>9. ASSUME NEW e \in net', Answer(e.msg) # 0
          PROVE  /\ Awaited(e.msg)'
                 /\ \A f \in net' : Answer(f.msg) # 0 /\ f.msg.client = e.msg.client => f = e
                 /\ \A t \in Threads : Delivers(t)' /\ cur'[t].resp # 0
                                         => cur'[t].client # e.msg.client
      <4>1. e \in net /\ e # d
        BY <1>7
      <4>2. Awaited(e.msg)'
        BY <2>1, <3>4, <3>6, <3>9, <4>1 DEF Once
      <4> QED
        BY <1>7, <2>1, <3>7, <3>9, <4>1, <4>2 DEF Once
    <3>10. ASSUME NEW t \in Threads, Delivers(t)', cur'[t].resp # 0
           PROVE  /\ Awaited(cur[t])'
                  /\ \A u \in Threads : Delivers(u)' /\ cur'[u].resp # 0
                                        /\ cur'[u].client = cur'[t].client => u = t
      <4>1. Delivers(t) /\ cur[t].resp # 0
        BY <3>7, <3>10
      <4>2. Awaited(cur[t])'
        BY <2>1, <3>5, <3>8, <4>1 DEF Once
      <4> QED
        BY <2>1, <3>7, <4>1, <4>2 DEF Once
    <3>11. \A c \in Clients : Delivers(c)' => cur'[c].seq = seq'[c]
      BY <2>1, <1>1, <1>3, <3>1, <3>3 DEF Once, Awaited
    <3> QED
      BY <3>9, <3>10, <3>11 DEF Once
  <2> QED
    BY <2>2, <2>3 DEF Receivers
<1> QED
  BY <1>5, <1>6, <1>7

(* The first datagram of a message, or one that begins with no header.     *)
LEMMA ReceiveHeaderInv ==
  ASSUME SharedInv, NEW r \in Receivers, ReceiveHeader(r)
  PROVE  SharedInv'
<1>1. TypeOK /\ Traffic /\ Received /\ EndsExplained
  BY DEF SharedInv, EndsExplained, Traffic
<1>2. pc[r] = "recv" /\ UNCHANGED <<seq, size, lost, split, oversize, undersize>>
  BY DEF ReceiveHeader, sizeVars
<1> DEFINE N(d) == Lesser(d.n, Buf(r) - junk[r])
<1>3. PICK d \in net :
        /\ For(r, d) /\ Take(d) /\ Remember(r, d)
        /\ IF d.off = 0 /\ junk[r] = 0
           THEN Progress(r, d.msg, N(d))
           ELSE /\ junk' = [junk EXCEPT ![r] = @ + N(d)]
                /\ IF junk[r] + N(d) >= HeaderSize THEN Abort(r) ELSE UNCHANGED pc
                /\ UNCHANGED <<cur, done>>
  BY DEF ReceiveHeader, sizeVars
<1>4. /\ d.msg \in Request \cup Response /\ d.n \in 1 .. d.msg.len
      /\ d.msg.client \in Clients /\ d.msg.len \in Nat \ {0}
      /\ r \in Threads => d.msg \in Request
      /\ r \in Clients => d.msg \in Response /\ d.msg.client = r
  BY <1>1, <1>3, MessageFacts, ForFacts DEF Traffic
<1>5. /\ net' \subseteq net /\ doubled' \in Nat /\ lost' \in Nat /\ doubled <= doubled'
      /\ doubled' = 0 => net' = net \ {d} /\ doubled = 0
  BY <1>1, <1>2, <1>3, TakeFacts
<1>6. /\ source' \in [Receivers -> Receivers] /\ source'[r] = d.msg.client
      /\ \A x \in Receivers : x # r => source'[x] = source[x]
  BY <1>1, <1>3, <1>4, RememberFacts
<1>7. junk[r] \in Nat /\ Buf(r) \in Nat \ {0} /\ junk[r] <= Buf(r)
  BY <1>1, Programs DEF TypeOK, Traffic
<1>8. /\ N(d) \in Nat /\ N(d) <= d.n /\ N(d) <= d.msg.len /\ junk[r] + N(d) <= Buf(r)
  BY <1>4, <1>7 DEF Lesser
<1>9. CASE d.off = 0 /\ junk[r] = 0
  <2> HIDE DEF N
  <2>1. Progress(r, d.msg, N(d)) /\ junk' = junk
    BY <1>3, <1>9 DEF Progress
  <2>2. /\ pc' \in [Receivers -> States] /\ done' \in [Receivers -> Nat]
        /\ cur' \in [Receivers -> Request \cup Response \cup {Nothing}]
        /\ pc'[r] = IF N(d) = d.msg.len THEN "deliver" ELSE "body"
        /\ cur'[r] = d.msg /\ done'[r] = N(d)
        /\ \A x \in Receivers : x # r =>
             pc'[x] = pc[x] /\ cur'[x] = cur[x] /\ done'[x] = done[x]
    BY <1>1, <1>4, <1>8, <2>1, ProgressFacts
  <2>3. TypeOK'
    BY <1>1, <1>2, <1>5, <2>1, <2>2 DEF TypeOK, States
  <2>4. EndsExplained'
    <3>1. \A x \in Receivers : pc'[x] \in {"aborted", "error"} => pc'[x] = pc[x]
      BY <2>2
    <3>2. doubled > 0 => doubled' > 0
      BY <1>1, <1>5 DEF TypeOK
    <3> QED
      BY <1>1, <1>2, <2>3, <3>1, <3>2 DEF EndsExplained, Receivers
  <2>5. Received'
    BY <1>6, <2>2 DEF Received
  <2>6. Traffic'
    BY <1>1, <1>2, <1>4, <1>5, <1>6, <1>8, <2>1, <2>2, <2>5, PieceTraffic
  <2>7. ASSUME ~split
        PROVE  pc'[r] = "deliver"
    <3>1. d.n = d.msg.len /\ d.n <= ClientBuf /\ d.n <= ServerBuf
      BY <2>7 DEF SharedInv, Whole
    <3>2. d.n <= Buf(r)
      BY <3>1, Programs
    <3>3. N(d) = d.msg.len
      BY <1>4, <1>7, <1>9, <3>1, <3>2 DEF N, Lesser
    <3> QED
      BY <2>2, <3>3
  <2>8. ~split => Whole' /\ Fits' /\ (doubled' = 0 => Once')
    BY <1>2, <1>3, <1>5, <1>6, <2>1, <2>2, <2>7, WholeMoves
  <2> QED
    BY <1>2, <2>4, <2>6, <2>8 DEF SharedInv
<1>10. CASE ~(d.off = 0 /\ junk[r] = 0)
  <2> HIDE DEF N
  <2>1. split
    BY <1>10 DEF SharedInv, Whole
  <2>2. /\ junk' = [junk EXCEPT ![r] = @ + N(d)] /\ UNCHANGED <<cur, done>>
        /\ Abort(r) \/ pc' = pc
    BY <1>3, <1>10
  <2>3. /\ pc' \in [Receivers -> States]
        /\ \A x \in Receivers : pc'[x] = pc[x] \/ pc'[x] = "aborted"
    <3>1. CASE Abort(r)
      BY <1>1, <3>1, AbortFacts
    <3>2. CASE pc' = pc
      BY <1>1, <3>2 DEF TypeOK, States
    <3> QED
      BY <2>2, <3>1, <3>2
  <2>4. /\ junk' \in [Receivers -> Nat]
        /\ \A x \in Receivers : junk'[x] = IF x = r THEN junk[r] + N(d) ELSE junk[x]
    BY <1>1, <1>7, <1>8, <2>2 DEF TypeOK
  <2>5. TypeOK'
    BY <1>1, <1>2, <1>5, <2>2, <2>3, <2>4 DEF TypeOK, States
  <2>6. EndsExplained'
    BY <1>1, <1>2, <2>1, <2>3, <2>5 DEF EndsExplained, Receivers
  <2>7. Received'
    BY <1>1, <1>6, <2>2 DEF Received
  <2>8. \A x \in Receivers :
          /\ junk'[x] <= Buf(x)
          /\ pc'[x] \in {"body", "deliver"} => x # r /\ pc'[x] = pc[x]
    BY <1>1, <1>2, <1>8, <2>3, <2>4 DEF Traffic
  <2>9. \A c \in Clients : pc'[c] = "ready" => seq'[c] < Count
    BY <1>1, <1>2, <2>3 DEF Traffic, Receivers
  <2>10. Traffic'
    BY <1>1, <1>5, <1>6, <2>2, <2>7, <2>8, <2>9 DEF Traffic
  <2> QED
    BY <1>2, <2>1, <2>6, <2>10 DEF SharedInv
<1> QED
  BY <1>9, <1>10
-----------------------------------------------------------------------------
(* What send() leaves: the pieces of m are under way, and r goes on.       *)
LEMMA SendMoves ==
  ASSUME SharedInv, NEW r \in Receivers, NEW m \in Request \cup Response,
         NEW next \in {"ready", "recv", "done"}, Send(r, m, next),
         UNCHANGED <<junk, lost, doubled, undersize>>,
         seq' \in [Clients -> 0 .. Count], size' \in [Clients -> [req : Nat, resp : Nat]],
         done' \in [Receivers -> Nat], Received',
         \A x \in Receivers : x # r => /\ cur'[x] = cur[x] /\ done'[x] = done[x]
                                       /\ source'[x] = source[x],
         \A c \in Clients : pc'[c] = "ready" => seq'[c] < Count
  PROVE  /\ pc'[r] \in {next, "error"} /\ \A x \in Receivers : x # r => pc'[x] = pc[x]
         /\ EndsExplained' /\ Traffic' /\ (~split' => ~split /\ Whole')
         /\ \A d \in net' : d \notin net =>
              /\ d.msg = m /\ pc'[r] = next
              /\ ~split' => d = [msg |-> m, off |-> 0, n |-> m.len]
<1>1. /\ TypeOK /\ Traffic /\ EndsExplained /\ pc \in [Receivers -> States]
      /\ Threads \subseteq Receivers /\ Clients \subseteq Receivers
  BY DEF SharedInv, EndsExplained, TypeOK, States, Receivers
<1>2. /\ \/ pc' = [pc EXCEPT ![r] = "error"] /\ oversize' = TRUE
         \/ pc' = [pc EXCEPT ![r] = next] /\ oversize' = oversize
      /\ split => split'
      /\ split' \in BOOLEAN /\ oversize' \in BOOLEAN
      /\ \A d \in net' : d \notin net =>
           /\ pc' = [pc EXCEPT ![r] = next]
           /\ d.msg = m /\ d.off \in Nat /\ d.n \in 1 .. m.len
           /\ ~split' => /\ d = [msg |-> m, off |-> 0, n |-> m.len]
                         /\ m.len <= ClientBuf /\ m.len <= ServerBuf
  BY <1>1, SendFacts
<1>3. /\ pc'[r] \in {next, "error"} /\ (pc'[r] = "error" => oversize')
      /\ oversize => oversize'
      /\ \A x \in Receivers : x # r => pc'[x] = pc[x]
      /\ pc' \in [Receivers -> States]
      /\ \A d \in net' : d \notin net => pc'[r] = next
  <2>1. next \in States /\ "error" \in States /\ next # "error"
    BY DEF States, Ended
  <2>2. CASE pc' = [pc EXCEPT ![r] = "error"] /\ oversize' = TRUE
    <3>1. \A d \in net' : d \notin net => pc'[r] = next
      BY <1>1, <1>2
    <3> QED
      BY <1>1, <2>1, <2>2, <3>1
  <2>3. CASE pc' = [pc EXCEPT ![r] = next] /\ oversize' = oversize
    BY <1>1, <2>1, <2>3
  <2> QED
    BY <1>2, <2>2, <2>3
<1>4. TypeOK'
  BY <1>1, <1>2, <1>3 DEF TypeOK, States
<1>5. EndsExplained'
  BY <1>1, <1>2, <1>3, <1>4 DEF EndsExplained
<1>6. pc'[r] \notin {"body", "deliver"}
  BY <1>3
<1>7. Traffic'
  <2>1. ASSUME NEW d \in net'
        PROVE  d.msg \in Request \cup Response /\ d.off \in Nat /\ d.n \in 1 .. d.msg.len
    BY <1>1, <1>2 DEF Traffic
  <2> QED
    BY <1>1, <1>3, <1>6, <2>1 DEF Traffic
<1>8. ASSUME ~split'
      PROVE  ~split /\ Whole'
  <2>1. ~split /\ Whole
    BY <1>2, <1>8 DEF SharedInv
  <2>2. ASSUME NEW d \in net'
        PROVE  /\ d.off = 0 /\ d.n = d.msg.len
               /\ d.n <= ClientBuf /\ d.n <= ServerBuf
    <3>1. CASE d \in net
      BY <2>1, <3>1 DEF Whole
    <3>2. CASE d \notin net
      BY <1>2, <1>8, <3>2
    <3> QED
      BY <3>1, <3>2
  <2>3. \A t \in Threads : Delivers(t)' => t # r /\ Delivers(t)
    BY <1>1, <1>3, <1>6 DEF Delivers
  <2> QED
    BY <1>1, <1>3, <1>6, <2>1, <2>2, <2>3 DEF Whole
<1> QED
  BY <1>2, <1>3, <1>5, <1>7, <1>8

(* The answer to a request takes the place of it.                          *)
LEMMA ReplyInv ==
  ASSUME SharedInv, NEW t \in Threads, Reply(t)
  PROVE  SharedInv'
<1>1. /\ TypeOK /\ Traffic /\ Received /\ EndsExplained /\ pc \in [Receivers -> States]
      /\ Threads \subseteq Receivers /\ Clients \subseteq Receivers /\ t \notin Clients
      /\ t \in Receivers
  BY Programs DEF SharedInv, Traffic, EndsExplained, TypeOK, States, Receivers
<1>2. /\ pc[t] = "deliver" /\ Delivers(t)
      /\ UNCHANGED <<seq, size, junk, lost, doubled, undersize>>
      /\ cur' = [cur EXCEPT ![t] = Nothing]
      /\ done' = [done EXCEPT ![t] = 0]
      /\ source' = [source EXCEPT ![t] = t]
  BY DEF Reply, Forget, faultVars, Delivers
<1>3. /\ cur[t] \in Request /\ source[t] \in Clients
      /\ cur[t].client \in Clients /\ cur[t].seq \in Nat /\ cur[t].resp \in Nat
      /\ Answer(cur[t]) = cur[t].resp
  BY <1>1, <1>2, MessageFacts DEF Traffic
<1>4. /\ \A x \in Receivers : x # t => /\ cur'[x] = cur[x] /\ done'[x] = done[x]
                                       /\ source'[x] = source[x]
      /\ Received' /\ done' \in [Receivers -> Nat]
  <2>1. done \in [Receivers -> Nat]
    BY <1>1 DEF TypeOK
  <2> QED
    BY <1>1, <1>2, <2>1 DEF Received
<1>5. CASE cur[t].resp \in {0, HeaderSize}
  <2>1. pc' = [pc EXCEPT ![t] = "recv"] /\ UNCHANGED <<net, split, oversize>>
    BY <1>5 DEF Reply
  <2>2. \A x \in Receivers : pc'[x] = IF x = t THEN "recv" ELSE pc[x]
    BY <1>1, <2>1
  <2>3. TypeOK'
    <3>1. "recv" \in States
      BY DEF States
    <3>2. pc' \in [Receivers -> States]
      BY <1>1, <2>1, <3>1
    <3> QED
      BY <1>1, <1>2, <1>4, <2>1, <3>2 DEF TypeOK, States
  <2>4. EndsExplained'
    BY <1>1, <1>2, <2>1, <2>2, <2>3 DEF EndsExplained
  <2>5. Quiet
    BY <1>2, <1>4, <2>1, <2>2 DEF Quiet
  <2> QED
    BY <1>1, <1>2, <1>4, <2>1, <2>2, <2>4, <2>5, FrameInv DEF Traffic
<1>6. CASE cur[t].resp \notin {0, HeaderSize}
  <2> DEFINE m == [kind |-> "response", client |-> source[t],
                   seq |-> cur[t].seq, len |-> cur[t].resp]
  <2>1. m \in Response /\ Answer(m) = cur[t].resp
    BY <1>3, <1>6 DEF Response, Answer
  <2>2. Send(t, m, "recv")
    BY <1>6 DEF Reply
  <2>3. seq' \in [Clients -> 0 .. Count] /\ size' \in [Clients -> [req : Nat, resp : Nat]]
    BY <1>1, <1>2 DEF TypeOK
  <2>4. m.client = source[t] /\ m.seq = cur[t].seq
    OBVIOUS
  <2> HIDE DEF m
  <2>5. \A c \in Clients : pc'[c] = "ready" => seq'[c] < Count
    <3>1. pc' = [pc EXCEPT ![t] = "error"] \/ pc' = [pc EXCEPT ![t] = "recv"]
      BY <1>1, <2>1, <2>2, SendFacts
    <3>2. \A c \in Clients : pc'[c] = pc[c]
      BY <1>1, <3>1
    <3> QED
      BY <1>1, <1>2, <3>2 DEF Traffic
  <2>6. /\ pc'[t] \in {"recv", "error"} /\ \A x \in Receivers : x # t => pc'[x] = pc[x]
        /\ EndsExplained' /\ Traffic' /\ (~split' => ~split /\ Whole')
        /\ \A d \in net' : d \notin net =>
             /\ d.msg = m /\ pc'[t] = "recv"
             /\ ~split' => d = [msg |-> m, off |-> 0, n |-> m.len]
    BY <1>1, <1>2, <1>4, <2>1, <2>2, <2>3, <2>5, SendMoves
  <2>7. \A x \in Receivers : Delivers(x)' => x # t /\ Delivers(x) /\ cur'[x] = cur[x]
    BY <1>4, <2>6 DEF Delivers
  <2>8. /\ \A c \in Clients : pc'[c] = pc[c]
        /\ \A n : InTime(n) => InTime(n)'
    BY <1>1, <1>2, <2>6 DEF InTime
  <2>9. ASSUME ~split'
        PROVE  Fits'
    <3>1. ~split /\ Fits /\ Whole
      BY <2>6, <2>9 DEF SharedInv
    <3>2. m.client = cur[t].client
      BY <1>2, <2>4, <3>1 DEF Whole
    <3>3. InTime(m)
      BY <1>1, <1>2, <1>3, <2>1, <2>4, <3>1, <3>2 DEF Fits, InTime
    <3>4. \A d \in net' : InTime(d.msg)'
      BY <2>6, <2>8, <3>1, <3>3 DEF Fits
    <3>5. \A x \in Receivers : Delivers(x)' => InTime(cur[x])'
      BY <1>2, <2>7, <3>1 DEF Fits, InTime
    <3> QED
      BY <3>4, <3>5 DEF Fits
  <2>10. ASSUME ~split', doubled' = 0
         PROVE  Once'
    <3>1. ~split /\ Once /\ Whole
      BY <1>2, <2>6, <2>10 DEF SharedInv
    <3>2. m.client = cur[t].client
      BY <1>2, <2>4, <3>1 DEF Whole
    <3>3. \A n : n.client \in Clients /\ Awaited(n) => Awaited(n)'
      BY <1>2, <2>8 DEF Awaited
    <3>4. Awaited(m)
      <4>1. Awaited(cur[t])
        BY <1>2, <1>6, <3>1 DEF Once
      <4> QED
        BY <2>4, <3>2, <4>1 DEF Awaited
    <3>5. \A d \in net : Answer(d.msg) # 0 => d.msg.client # m.client
      BY <1>2, <1>6, <3>1, <3>2 DEF Once
    <3>6. \A u \in Threads : Delivers(u)' /\ cur'[u].resp # 0 =>
            Delivers(u) /\ cur[u].resp # 0 /\ cur'[u] = cur[u] /\ cur[u].client # m.client
      BY <1>1, <1>2, <1>6, <2>7, <3>1, <3>2 DEF Once
    <3>7. ASSUME NEW d \in net', Answer(d.msg) # 0
          PROVE  /\ Awaited(d.msg)'
                 /\ \A e \in net' : Answer(e.msg) # 0 /\ e.msg.client = d.msg.client => e = d
                 /\ \A u \in Threads : Delivers(u)' /\ cur'[u].resp # 0
                                         => cur'[u].client # d.msg.client
      <4>1. CASE d \in net
        <5>1. Awaited(d.msg) /\ d.msg.client \in Clients
          BY <1>1, <3>1, <3>7, <4>1, MessageFacts DEF Once, Traffic
        <5>2. d.msg.client # m.client
          BY <3>5, <3>7, <4>1
        <5>3. \A e \in net' : Answer(e.msg) # 0 /\ e.msg.client = d.msg.client => e = d
          BY <2>6, <3>1, <3>7, <4>1, <5>2 DEF Once
        <5>4. \A u \in Threads : Delivers(u)' /\ cur'[u].resp # 0
                                  => cur'[u].client # d.msg.client
          BY <3>1, <3>6, <3>7, <4>1 DEF Once
        <5> QED
          BY <3>3, <5>1, <5>3, <5>4
      <4>2. CASE d \notin net
        <5>1. d = [msg |-> m, off |-> 0, n |-> m.len] /\ d.msg = m
          BY <2>6, <2>10, <4>2
        <5>2. Awaited(d.msg)'
          BY <1>3, <3>2, <3>3, <3>4, <5>1
        <5>3. \A e \in net' : Answer(e.msg) # 0 /\ e.msg.client = d.msg.client => e = d
          BY <2>6, <2>10, <3>5, <5>1
        <5> QED
          BY <3>6, <5>1, <5>2, <5>3
      <4> QED
        BY <4>1, <4>2
    <3>8. ASSUME NEW u \in Threads, Delivers(u)', cur'[u].resp # 0
          PROVE  /\ Awaited(cur[u])'
                 /\ \A v \in Threads : Delivers(v)' /\ cur'[v].resp # 0
                                         /\ cur'[v].client = cur'[u].client => v = u
      <4>1. Delivers(u) /\ cur[u].resp # 0 /\ cur'[u] = cur[u]
        BY <3>6, <3>8
      <4>2. Awaited(cur[u]) /\ cur[u].client \in Clients
        BY <1>1, <3>1, <4>1, MessageFacts DEF Once, Traffic, Delivers
      <4>3. Awaited(cur[u])'
        BY <1>2, <2>8, <4>1, <4>2 DEF Awaited
      <4> QED
        BY <3>1, <3>6, <4>1, <4>3 DEF Once
    <3>9. \A c \in Clients : Delivers(c)' => cur'[c].seq = seq'[c]
      BY <1>1, <1>2, <2>7, <3>1 DEF Once
    <3> QED
      BY <3>7, <3>8, <3>9 DEF Once
  <2> QED
    BY <2>6, <2>9, <2>10 DEF SharedInv
<1> QED
  BY <1>5, <1>6

(* A BUG_ON of the client keeps the reasons for every end.                 *)
LEMMA EndsFrame ==
  ASSUME EndsExplained, TypeOK', UNCHANGED <<split, oversize, doubled>>,
         undersize => undersize',
         \A t \in Threads : pc'[t] = pc[t],
         \A x \in Clients : /\ pc'[x] = "aborted" => pc[x] = "aborted" \/ undersize'
                            /\ pc'[x] = "error" => pc[x] = "error"
  PROVE  EndsExplained'
BY DEF EndsExplained

(* A request of which nothing is sent.                                     *)
LEMMA StopsShort ==
  ASSUME SharedInv, NEW c \in Clients, NEW next \in {"ready", "recv", "done"},
         UNCHANGED <<junk, cur, done, source, lost, doubled, net, split, oversize>>,
         \/ Abort(c) /\ undersize' = TRUE
         \/ pc' = [pc EXCEPT ![c] = next] /\ UNCHANGED undersize,
         seq' \in [Clients -> 0 .. Count], size' \in [Clients -> [req : Nat, resp : Nat]],
         \A x \in Clients : pc'[x] = "ready" => seq'[x] < Count
  PROVE  EndsExplained' /\ Traffic' /\ (~split' => ~split /\ Whole')
<1>1. /\ TypeOK /\ Traffic /\ Received /\ EndsExplained
      /\ pc \in [Receivers -> States] /\ next \in States
      /\ Threads \subseteq Receivers /\ Clients \subseteq Receivers /\ c \notin Threads
      /\ c \in Receivers
  BY Programs DEF SharedInv, Traffic, EndsExplained, TypeOK, Receivers, States, Ended
<1>2. pc' \in [Receivers -> States]
  BY <1>1, AbortFacts
<1>3. TypeOK'
  BY <1>1, <1>2 DEF TypeOK, States
<1>4. \A x \in Receivers : \/ x # c /\ pc'[x] = pc[x]
                           \/ x \in Clients /\ pc'[x] = "aborted" /\ undersize'
                           \/ x = c /\ pc'[x] = next
  <2>1. CASE Abort(c) /\ undersize' = TRUE
    <3>1. pc'[c] = "aborted"
      BY <1>1, <2>1 DEF Abort
    <3> QED
      BY <1>1, <2>1, <3>1, AbortFacts
  <2>2. CASE pc' = [pc EXCEPT ![c] = next]
    BY <1>1, <2>2
  <2> QED
    BY <2>1, <2>2
<1>5. undersize => undersize'
  OBVIOUS
<1>6. \A t \in Threads : t \in Receivers /\ t \notin Clients
  BY DatagramAssumption DEF Receivers
<1>7. EndsExplained'
  <2>1. \A t \in Threads : pc'[t] = pc[t]
    BY <1>1, <1>4, <1>6
  <2>2. \A x \in Clients : /\ pc'[x] = "aborted" => pc[x] = "aborted" \/ undersize'
                          /\ pc'[x] = "error" => pc[x] = "error"
    BY <1>1, <1>4
  <2> QED
    BY <1>1, <1>3, <1>5, <2>1, <2>2, EndsFrame
<1>8. \A x \in Receivers : pc'[x] \in {"body", "deliver"} => x # c /\ pc'[x] = pc[x]
  BY <1>4
<1>9. Traffic'
  <2>1. Received'
    BY <1>1 DEF Received
  <2>2. \A r \in Receivers : Buf(r) \in Nat
    BY Programs
  <2> QED
    BY <1>1, <1>8, <2>1, <2>2 DEF Traffic
<1>10. ~split' => ~split /\ Whole'
  BY <1>1, <1>8 DEF SharedInv, Whole, Delivers
<1> QED
  BY <1>7, <1>9, <1>10

(* A new job has a sequence number that nothing under way or received has. *)
LEMMA StartJobInv ==
  ASSUME SharedInv, NEW c \in Clients, StartJob(c)
  PROVE  SharedInv'
<1>1. /\ TypeOK /\ Traffic /\ Received /\ EndsExplained
      /\ Threads \subseteq Receivers /\ Clients \subseteq Receivers /\ c \notin Threads
      /\ c \in Receivers
  BY Programs DEF SharedInv, Traffic, EndsExplained, Receivers
<1>2. /\ pc[c] = "ready" /\ seq' = [seq EXCEPT ![c] = @ + 1]
      /\ UNCHANGED <<junk, cur, done, source, lost, doubled>>
  BY DEF StartJob, recvVars, faultVars
<1>3. PICK s \in Sizes :
        /\ size' = [size EXCEPT ![c] = s]
        /\ SendRequest(c, s, IF s.resp = 0 THEN AfterJob(c, seq'[c]) ELSE "recv")
  BY DEF StartJob
<1>4. /\ s \in [req : Nat, resp : Nat] /\ s.req \in Nat /\ s.resp \in Nat
      /\ Count \in Nat /\ HeaderSize \in Nat \ {0}
  BY DatagramAssumption
<1>5. /\ seq[c] \in Nat /\ seq'[c] = seq[c] + 1 /\ seq'[c] \in 0 .. Count
      /\ seq' \in [Clients -> 0 .. Count] /\ size' \in [Clients -> [req : Nat, resp : Nat]]
      /\ size'[c] = s
      /\ \A x \in Clients : x # c => seq'[x] = seq[x] /\ size'[x] = size[x]
  <2>1. /\ seq \in [Clients -> 0 .. Count] /\ size \in [Clients -> [req : Nat, resp : Nat]]
        /\ seq[c] < Count
    BY <1>1, <1>2 DEF TypeOK, Traffic
  <2>2. seq[c] \in Nat /\ seq[c] + 1 \in 0 .. Count
    BY <1>4, <2>1
  <2> QED
    BY <1>2, <1>3, <1>4, <2>1, <2>2
<1> DEFINE m == [kind |-> "request", client |-> c, seq |-> seq[c] + 1,
                 len |-> s.req, resp |-> s.resp]
           next == IF s.resp = 0 THEN AfterJob(c, seq[c] + 1) ELSE "recv"
<1>6. /\ Answer(m) = s.resp /\ m.client = c /\ m.seq = seq[c] + 1
      /\ s.req # 0 => m \in Request
  BY <1>4, <1>5 DEF Request, Answer
<1>7. /\ next \in {"ready", "recv", "done"} /\ (next = "ready" => seq'[c] < Count)
      /\ s.resp # 0 => next = "recv"
  BY <1>4, <1>5 DEF AfterJob
<1>8. \/ Abort(c) /\ undersize' = TRUE /\ UNCHANGED <<net, split, oversize>>
      \/ pc' = [pc EXCEPT ![c] = next] /\ UNCHANGED <<net, split, oversize, undersize>>
      \/ s.req # 0 /\ Send(c, m, next) /\ UNCHANGED undersize
  BY <1>3, <1>4, <1>5 DEF SendRequest, sizeVars
<1> HIDE DEF m, next
<1>14. /\ pc \in [Receivers -> States] /\ next \in States
       /\ done' \in [Receivers -> Nat] /\ Received'
  BY <1>1, <1>2, <1>7 DEF TypeOK, Received, States, Ended
<1>15. pc'[c] \in {next, "error", "aborted"}
       /\ \A x \in Receivers : \/ x # c /\ pc'[x] = pc[x]
                               \/ x \in Clients /\ pc'[x] \in {"aborted", "error"}
                               \/ x = c /\ pc'[x] = next
  <2>1. CASE Abort(c)
    <3>1. pc'[c] = "aborted"
      BY <1>1, <2>1 DEF Abort
    <3> QED
      BY <1>1, <2>1, <3>1, AbortFacts
  <2>2. CASE pc' = [pc EXCEPT ![c] = next]
    BY <1>1, <1>14, <2>2
  <2>3. CASE s.req # 0 /\ Send(c, m, next)
    <3>1. pc' = [pc EXCEPT ![c] = "error"] \/ pc' = [pc EXCEPT ![c] = next]
      BY <1>1, <1>6, <2>3, SendFacts
    <3> QED
      BY <1>1, <1>14, <3>1
  <2> QED
    BY <1>8, <2>1, <2>2, <2>3
<1>16. \A x \in Clients : pc'[x] = "ready" => seq'[x] < Count
  BY <1>1, <1>5, <1>7, <1>15 DEF Traffic
<1>9. /\ EndsExplained' /\ Traffic' /\ (~split' => ~split /\ Whole')
      /\ \A d \in net' : d \notin net =>
           /\ d.msg = m /\ pc'[c] = next /\ m \in Request
           /\ ~split' => d = [msg |-> m, off |-> 0, n |-> m.len]
  <2>1. CASE s.req # 0 /\ Send(c, m, next) /\ UNCHANGED undersize
    BY <1>1, <1>2, <1>5, <1>6, <1>7, <1>14, <1>16, <2>1, SendMoves
  <2>2. CASE /\ UNCHANGED <<net, split, oversize>>
             /\ \/ Abort(c) /\ undersize' = TRUE
                \/ pc' = [pc EXCEPT ![c] = next] /\ UNCHANGED undersize
    BY <1>2, <1>5, <1>7, <1>16, <2>2, StopsShort
  <2> QED
    BY <1>8, <2>1, <2>2
<1>10. \A x \in Receivers : Delivers(x)' => x # c /\ Delivers(x) /\ cur'[x] = cur[x]
  BY <1>2, <1>7, <1>15 DEF Delivers
<1>11. /\ \A d \in net : d.msg.client \in Clients /\ d.msg.seq \in Nat
       /\ \A x \in Receivers : Delivers(x) => cur[x].client \in Clients /\ cur[x].seq \in Nat
  <2>1. \A x \in Receivers : Delivers(x) => cur[x] \in Request \cup Response
    BY <1>1 DEF Traffic, Delivers, Receivers
  <2> QED
    BY <1>1, <2>1, MessageFacts DEF Traffic
<1>12. ASSUME ~split'
       PROVE  Fits'
  <2>1. ~split /\ Fits
    BY <1>9, <1>12 DEF SharedInv
  <2>2. ASSUME NEW n, n.client \in Clients, n.seq \in Nat, InTime(n)
        PROVE  InTime(n)'
    <3>1. CASE n.client = c
      BY <1>5, <2>2, <3>1 DEF InTime
    <3>2. CASE n.client # c
      BY <1>5, <2>2, <3>2 DEF InTime
    <3> QED
      BY <3>1, <3>2
  <2>3. \A n : n = m => InTime(n)'
    BY <1>5, <1>6 DEF InTime
  <2>4. \A d \in net' : InTime(d.msg)'
    BY <1>9, <1>11, <2>1, <2>2, <2>3 DEF Fits
  <2>5. ASSUME NEW x \in Receivers, Delivers(x)'
        PROVE  InTime(cur[x])'
    <3>1. InTime(cur[x]) /\ cur'[x] = cur[x] /\ cur[x].client \in Clients /\ cur[x].seq \in Nat
      BY <1>10, <1>11, <2>1, <2>5 DEF Fits
    <3>2. CASE cur[x].client = c
      BY <1>5, <3>1, <3>2 DEF InTime
    <3>3. CASE cur[x].client # c
      BY <1>5, <3>1, <3>3 DEF InTime
    <3> QED
      BY <3>2, <3>3
  <2> QED
    BY <2>4, <2>5 DEF Fits
<1>13. ASSUME ~split', doubled' = 0
       PROVE  Once'
  <2>1. ~split /\ Once
    BY <1>2, <1>9, <1>13 DEF SharedInv
  <2>2. \A n : Awaited(n) => n.client # c
    BY <1>2 DEF Awaited
  <2>3. \A n : Awaited(n) /\ n.client \in Clients => Awaited(n)'
    BY <1>1, <1>5, <1>15, <2>2 DEF Awaited
  <2>4. \A d \in net : Answer(d.msg) # 0 => Awaited(d.msg) /\ d.msg.client # c
    BY <2>1, <2>2 DEF Once
  <2>5. \A t \in Threads : Delivers(t)' /\ cur'[t].resp # 0 =>
          /\ Delivers(t) /\ cur'[t] = cur[t] /\ cur[t].resp # 0
          /\ Awaited(cur[t]) /\ cur[t].client # c
    BY <1>1, <1>10, <2>1, <2>2 DEF Once
  <2>6. s.resp # 0 /\ pc'[c] = next => \A n : n = m => Awaited(n)'
    BY <1>5, <1>6, <1>7 DEF Awaited
  <2>7. ASSUME NEW d \in net', Answer(d.msg) # 0
        PROVE  /\ Awaited(d.msg)'
               /\ \A e \in net' : Answer(e.msg) # 0 /\ e.msg.client = d.msg.client => e = d
               /\ \A u \in Threads : Delivers(u)' /\ cur'[u].resp # 0
                                       => cur'[u].client # d.msg.client
    <3>1. CASE d \in net
      <4>1. Awaited(d.msg)'
        BY <1>11, <2>3, <2>4, <2>7, <3>1
      <4>2. \A e \in net' : Answer(e.msg) # 0 /\ e.msg.client = d.msg.client => e = d
        BY <1>6, <1>9, <2>1, <2>4, <2>7, <3>1 DEF Once
      <4>3. \A u \in Threads : Delivers(u)' /\ cur'[u].resp # 0
                                => cur'[u].client # d.msg.client
        BY <2>1, <2>5, <2>7, <3>1 DEF Once
      <4> QED
        BY <4>1, <4>2, <4>3
    <3>2. CASE d \notin net
      <4>1. d = [msg |-> m, off |-> 0, n |-> m.len] /\ d.msg = m /\ pc'[c] = next
        BY <1>9, <1>13, <3>2
      <4>2. Awaited(d.msg)'
        BY <1>6, <2>6, <2>7, <4>1
      <4>3. \A e \in net' : Answer(e.msg) # 0 /\ e.msg.client = d.msg.client => e = d
        BY <1>6, <1>9, <1>13, <2>4, <4>1
      <4> QED
        BY <1>6, <2>5, <4>1, <4>2, <4>3
    <3> QED
      BY <3>1, <3>2
  <2>8. ASSUME NEW t \in Threads, Delivers(t)', cur'[t].resp # 0
        PROVE  /\ Awaited(cur[t])'
               /\ \A u \in Threads : Delivers(u)' /\ cur'[u].resp # 0
                                       /\ cur'[u].client = cur'[t].client => u = t
    <3>1. Delivers(t) /\ cur'[t] = cur[t] /\ cur[t].resp # 0
          /\ Awaited(cur[t]) /\ cur[t].client # c /\ cur[t].client \in Clients
      BY <1>1, <1>11, <2>5, <2>8
    <3>2. Awaited(cur[t])'
      BY <2>3, <3>1
    <3> QED
      BY <2>1, <2>5, <3>1, <3>2 DEF Once
  <2>9. \A x \in Clients : Delivers(x)' => cur'[x].seq = seq'[x]
    BY <1>1, <1>5, <1>10, <2>1 DEF Once
  <2> QED
    BY <2>7, <2>8, <2>9 DEF Once
<1> QED
  BY <1>9, <1>12, <1>13 DEF SharedInv
-----------------------------------------------------------------------------
(* At first nothing is under way.                                          *)
LEMMA InitInv ==
  ASSUME Init
  PROVE  SharedInv
<1>1. /\ \A c \in Clients : c \in Receivers /\ c \notin Threads
      /\ \A t \in Threads : t \in Receivers /\ t \notin Clients
      /\ Count \in Nat
  BY DatagramAssumption DEF Receivers
<1>2. /\ \A r \in Receivers : pc[r] \in {"ready", "recv", "done"}
      /\ pc \in [Receivers -> States]
      /\ \A c \in Clients : pc[c] = "ready" => seq[c] < Count
  <2>1. ASSUME NEW c \in Clients
        PROVE  /\ AfterJob(c, 0) \in {"ready", "done"}
               /\ AfterJob(c, 0) = "ready" => 0 < Count
    <3>1. CASE Count = 0
      BY <3>1 DEF AfterJob
    <3>2. CASE Count # 0
      <4>1. 0 < Count
        BY <1>1, <3>2
      <4> QED
        BY <3>2, <4>1 DEF AfterJob
    <3> QED
      BY <3>1, <3>2
  <2>2. \A c \in Clients : pc[c] = AfterJob(c, 0) /\ seq[c] = 0
    BY <1>1 DEF Init
  <2>3. \A r \in Receivers : pc[r] \in {"ready", "recv", "done"}
    BY <2>1 DEF Init
  <2>4. pc = [r \in Receivers |-> pc[r]] /\ {"ready", "recv", "done"} \subseteq States
    BY DEF Init, States, Ended
  <2> QED
    BY <2>1, <2>2, <2>3, <2>4
<1>3. TypeOK
  <2>1. 0 \in 0 .. Count
    BY <1>1
  <2> QED
    BY <1>2, <2>1 DEF Init, TypeOK, States
<1>4. EndsExplained
  BY <1>1, <1>2, <1>3 DEF EndsExplained
<1>5. Received
  BY DEF Init, Received
<1>6. Traffic
  <2>1. \A r \in Receivers : junk[r] <= Buf(r)
    BY Programs DEF Init
  <2> QED
    BY <1>2, <1>5, <2>1 DEF Traffic, Init
<1>7. Whole /\ Fits /\ Once
  BY <1>1, <1>2 DEF Init, Whole, Fits, Once, Delivers
<1> QED
  BY <1>4, <1>6, <1>7 DEF SharedInv

(* The invariant holds in every state of the program: what is under way and*)
(* received is as SharedInv says, whatever the network does.               *)
THEOREM Invariant == Spec => []SharedInv
<1>1. Init => SharedInv
  BY InitInv
<1>2. ASSUME SharedInv, [Next]_vars
      PROVE  SharedInv'
  <2>1. ASSUME NEW r \in Receivers, Step(r)
        PROVE  SharedInv'
    BY <1>2, <2>1, ReceiveHeaderInv, ReceiveBodyInv, ReplyInv, StartJobInv, RecvResponseInv,
       RefusedInv DEF Step
  <2>2. CASE Lose
    BY <1>2, <2>2, LoseInv
  <2>3. CASE Over
    BY <1>2, <2>3, StutterInv DEF Over
  <2>4. CASE UNCHANGED vars
    BY <1>2, <2>4, StutterInv
  <2> QED
    BY <1>2, <2>1, <2>2, <2>3, <2>4 DEF Next
<1> QED
  BY <1>1, <1>2, PTL DEF Spec

(* No loss and no order of whole datagrams ends a process (protocol.cpp:150*)
(* and serverstateless.cpp:36), and of the sizes only those below that of a*)
(* header do (protocol.cpp:55, 58): EndsExplained for any network.         *)
THEOREM WhyItEnds == Spec => []EndsExplained
<1>1. SharedInv => EndsExplained
  BY DEF SharedInv
<1> QED
  BY <1>1, Invariant, PTL

(* Only the check of the response takes a client on to its next job or to  *)
(* its end.                                                                *)
LEMMA OnlyRecvResponse ==
  ASSUME SharedInv, [Next]_vars, NEW c \in Clients, pc[c] = "deliver", pc'[c] \in {"ready", "done"}
  PROVE  RecvResponse(c)
<1>1. /\ TypeOK /\ Traffic /\ pc \in [Receivers -> States] /\ c \in Receivers
      /\ c \notin Threads
  BY Programs DEF SharedInv, EndsExplained, TypeOK, States, Receivers
<1>2. pc'[c] # pc[c] /\ pc'[c] # "aborted"
  OBVIOUS
<1>3. PICK r \in Receivers : Step(r)
  BY <1>2 DEF Next, Lose, Over, vars
<1>4. \/ ReceiveHeader(r) \/ ReceiveBody(r)
      \/ (r \in Threads /\ Reply(r))
      \/ (r \in Clients /\ (StartJob(r) \/ RecvResponse(r) \/ Refused(r)))
  BY <1>3 DEF Step
<1>5. ~Abort(r)
  BY <1>1, <1>2, AbortFacts
<1>6. CASE ReceiveHeader(r)
  <2>1. pc[r] = "recv" /\ (pc' = pc \/ \E m, n : Progress(r, m, n))
    BY <1>5, <1>6 DEF ReceiveHeader
  <2> QED
    BY <1>1, <1>2, <2>1 DEF Progress
<1>7. CASE ReceiveBody(r)
  <2>1. pc[r] = "body" /\ \E m, n : Progress(r, m, n)
    BY <1>5, <1>7 DEF ReceiveBody
  <2> QED
    BY <1>1, <1>2, <2>1 DEF Progress
<1>8. CASE r \in Threads /\ Reply(r)
  BY <1>1, <1>2, <1>8 DEF Reply, Send
<1>9. CASE r \in Clients /\ StartJob(r)
  BY <1>1, <1>2, <1>5, <1>9 DEF StartJob, SendRequest, Send
<1>10. CASE r \in Clients /\ Refused(r)
  BY <1>1, <1>2, <1>10 DEF Refused
<1>11. CASE r \in Clients /\ RecvResponse(r)
  <2>1. pc' = [pc EXCEPT ![r] = AfterJob(r, seq[r])]
    BY <1>5, <1>11 DEF RecvResponse
  <2>2. r = c
    BY <1>1, <1>2, <2>1
  <2> QED
    BY <1>11, <2>2
<1> QED
  BY <1>4, <1>6, <1>7, <1>8, <1>9, <1>10, <1>11

(* A job that ends with a response got one of the size it asked for, though*)
(* the client compares only the sequence number (responder.hpp:51).        *)
THEOREM AnswersFit == Spec => AnswerFits
<1> DEFINE Fit == \A c \in Clients :
                    pc[c] = "deliver" /\ pc'[c] \in {"ready", "done"} =>
                      split \/ cur[c].len = size[c].resp
<1>1. ASSUME SharedInv, [Next]_vars
      PROVE  Fit
  <2> SUFFICES ASSUME NEW c \in Clients, pc[c] = "deliver", pc'[c] \in {"ready", "done"},
                      ~split
               PROVE  cur[c].len = size[c].resp
    OBVIOUS
  <2>1. RecvResponse(c)
    BY <1>1, OnlyRecvResponse
  <2>2. Traffic /\ Fits /\ c \in Receivers
    BY <1>1 DEF SharedInv, Receivers
  <2>3. cur[c] \in Response /\ cur[c].client = c /\ InTime(cur[c])
    BY <2>2 DEF Traffic, Fits, Delivers
  <2>4. cur[c].seq = seq[c]
    <3>1. ~Abort(c)
      BY <2>2 DEF Abort
    <3> QED
      BY <2>1, <3>1 DEF RecvResponse
  <2>5. Answer(cur[c]) = cur[c].len
    BY <2>3, MessageFacts
  <2> QED
    BY <2>3, <2>4, <2>5 DEF InTime
<1>2. SharedInv /\ [Next]_vars => [Fit]_vars
  BY <1>1
<1>3. [][Fit]_vars => AnswerFits
  BY DEF AnswerFits
<1> QED
  BY <1>2, <1>3, Invariant, PTL DEF Spec
=============================================================================
