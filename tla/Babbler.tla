------------------------------- MODULE Babbler -------------------------------
(***************************************************************************)
(* One stream connection of net-babbler: a client thread that runs         *)
(* cRequestor::doJob and a responder thread that runs cResponder::doJob,   *)
(* each on its own cBabblerProtocol over its own cSocket (TCP).            *)
(*                                                                         *)
(* A byte is known by its position in the stream of the side that sends    *)
(* it.  A message occupies the positions start .. start + len - 1, its     *)
(* header the first HeaderSize of them.  What the code decides by looking  *)
(* at bytes (header checksum, packet type, payload counter) the model      *)
(* decides by looking at positions: a header is found exactly where a      *)
(* message starts and its bytes have not been overwritten.                 *)
(*                                                                         *)
(* A cBabblerProtocol has a single buffer, m_buf, that send() fills and    *)
(* receive() reads; m_pBuf points at what receive() has not parsed yet.    *)
(***************************************************************************)
EXTENDS Integers, Sequences

CONSTANTS
  HeaderSize,   (* sizeof (cProtocolHeader), 24 in the code                *)
  BufSize,      (* m_bufsize: --buf-size, at least 64 in the code          *)
  SockBuf,      (* bytes one direction of the connection holds in flight   *)
  ReqSizes,     (* sizes doJob may give m_currReqSize: a range is checked  *)
                (* bound by bound, so one that is reversed, or a sweep     *)
                (* that wraps, gives any size                              *)
  RespSizes,    (* sizes doJob may give m_currRespSize, not checked        *)
  Count         (* m_count of the client; 0 means no limit                 *)

ASSUME BabblerAssumption ==
  /\ HeaderSize \in Nat \ {0}
  /\ BufSize \in Nat /\ HeaderSize < BufSize
  /\ SockBuf \in Nat \ {0}
  /\ ReqSizes \subseteq Nat /\ RespSizes \subseteq Nat
  /\ Count \in Nat

VARIABLES
  pc,         (* where each thread is                                      *)
  seq,        (* m_seq of the requestor                                    *)
  reqSize,    (* m_currReqSize of the job in progress or of the last one   *)
  respSize,   (* m_currRespSize, likewise                                  *)
  jobs,       (* doJob calls the client thread has completed               *)
  wire,       (* the messages each side has begun to send, in order        *)
  written,    (* bytes of its stream each side has handed to the kernel    *)
  taken,      (* bytes of the peer's stream each side has received         *)
  unsent,     (* bytes of the message not yet in a completed chunk         *)
  chunk,      (* toBeSent: bytes of the current chunk still to hand over   *)
  scribbled,  (* low bytes of m_buf that send() wrote since the last recv  *)
  bufBase,    (* stream position of the byte received into m_buf[0]        *)
  bufPos,     (* m_pBuf - m_buf                                            *)
  content,    (* m_bufContentSize; "received" while recv is in progress    *)
  cur,        (* the message receive() is in, as an index of the wire      *)
  todo,       (* toBeReceived: bytes of that message still to come         *)
  sentPackets, sentOctets, receivedPackets, receivedOctets,  (* m_stats     *)
  cancel,     (* m_eventCancel has been sent                               *)
  reset,      (* the network broke the connection                          *)
  again       (* errno of each thread is EAGAIN                            *)

jobVars  == <<seq, reqSize, respSize, jobs>>
sendVars == <<wire, written, unsent, chunk>>
recvVars == <<taken, bufBase, bufPos, content, cur, todo>>
statVars == <<sentPackets, sentOctets, receivedPackets, receivedOctets>>
envVars  == <<cancel, reset, again>>
vars == <<pc, jobVars, sendVars, recvVars, scribbled, statVars, envVars>>

End == {"client", "server"}
Peer(e) == IF e = "client" THEN "server" ELSE "client"

Lesser(a, b)  == IF a <= b THEN a ELSE b
Greater(a, b) == IF a <= b THEN b ELSE a

(***************************************************************************)
(* A thread has left its loop: its socket is closed.  "done": the count or *)
(* a byte limit is reached, or the client was cancelled; "error": an       *)
(* errorException was caught; "exception": a cProtocolException, which     *)
(* neither thread function catches; "bug": a BUG_ON fired.                 *)
(***************************************************************************)
Ended   == {"done", "error", "exception", "bug"}
Gone(e) == pc[e] \in Ended

(* Bytes the peer has handed over and e has not received.                  *)
Avail(e) == written[Peer(e)] - taken[e]

(* Where a call of receive() starts: in the socket, or, when m_buf still   *)
(* holds bytes of the next message, at its header.                         *)
EnterReceive(e) == IF content[e] = 0 THEN "recv" ELSE "parse"
-----------------------------------------------------------------------------
(***************************************************************************)
(* Sending.                                                                *)
(***************************************************************************)

(* The header is written to m_buf and, when there is payload, the first    *)
(* chunk is filled: both overwrite the low end of m_buf.                   *)
BeginSend(e, m) ==
  /\ wire'      = [wire EXCEPT ![e] = Append(@, m)]
  /\ unsent'    = [unsent EXCEPT ![e] = m.len]
  /\ chunk'     = [chunk EXCEPT ![e] = Lesser(m.len, BufSize)]
  /\ scribbled' = [scribbled EXCEPT ![e] = Greater(@, Lesser(m.len, BufSize))]
  /\ UNCHANGED written

(* doJob returned: the thread loops, or ends with the last of m_count.     *)
EndJob ==
  /\ jobs' = jobs + 1
  /\ pc'   = [pc EXCEPT !["client"] =
                IF Count # 0 /\ jobs' = Count THEN "done" ELSE "ready"]

(* sendRequest up to the first sendto.  A size below a header is a BUG_ON. *)
(* A request that is only a header writes it to m_buf and sends nothing:   *)
(* there is no chunk, and doJob goes on as if it had been sent.            *)
SendRequest(req, resp) ==
  \/ /\ resp \in 1 .. HeaderSize - 1 \/ req < HeaderSize
     /\ pc' = [pc EXCEPT !["client"] = "bug"]
     /\ UNCHANGED <<jobs, sendVars, scribbled>>
  \/ /\ resp \notin 1 .. HeaderSize - 1 /\ req = HeaderSize
     /\ scribbled' = [scribbled EXCEPT !["client"] = Greater(@, HeaderSize)]
     /\ IF resp = 0 THEN EndJob
                    ELSE /\ pc' = [pc EXCEPT !["client"] = EnterReceive("client")]
                         /\ UNCHANGED jobs
     /\ UNCHANGED sendVars
  \/ /\ resp \notin 1 .. HeaderSize - 1 /\ req > HeaderSize
     /\ pc' = [pc EXCEPT !["client"] = "sending"]
     /\ BeginSend("client",
          [start |-> written["client"], len |-> req, seq |-> seq',
           options |-> IF resp = 0 THEN 0 ELSE resp - HeaderSize])
     /\ UNCHANGED jobs

(* doJob: the next sequence number and sizes, and sendRequest.             *)
StartJob ==
  /\ pc["client"] = "ready"
  /\ seq' = seq + 1
  /\ reqSize' \in ReqSizes /\ respSize' \in RespSizes
  /\ SendRequest(reqSize', respSize')
  /\ UNCHANGED <<recvVars, statVars, envVars>>

(* doJob finds a byte limit reached and throws eventException.             *)
LimitReached ==
  /\ pc["client"] = "ready"
  /\ pc' = [pc EXCEPT !["client"] = "done"]
  /\ UNCHANGED <<jobVars, sendVars, recvVars, scribbled, statVars, envVars>>

(* Mutation: doJob never waits for the response.                           *)
HandOverNoWait(e, n) ==
  LET sentLen == Lesser(unsent[e], BufSize)
      rest    == unsent[e] - sentLen
  IN  /\ written' = [written EXCEPT ![e] = @ + n]
      /\ IF n < chunk[e]
         THEN /\ chunk' = [chunk EXCEPT ![e] = @ - n]
              /\ UNCHANGED <<pc, jobs, unsent, sentOctets, sentPackets>>
         ELSE /\ unsent' = [unsent EXCEPT ![e] = rest]
              /\ chunk'  = [chunk EXCEPT ![e] = Lesser(rest, BufSize)]
              /\ sentOctets'  = [sentOctets EXCEPT ![e] = @ + sentLen]
              /\ IF rest > 0
                 THEN UNCHANGED <<pc, jobs, sentPackets>>
                 ELSE /\ sentPackets' = [sentPackets EXCEPT ![e] = @ + 1]
                      /\ IF e = "client"
                         THEN EndJob
                         ELSE /\ pc' = [pc EXCEPT ![e] = EnterReceive(e)]
                              /\ UNCHANGED jobs

(* Mutation: only what the last sendto of a chunk took is counted.         *)
HandOverLastOnly(e, n) ==
  LET sentLen == Lesser(unsent[e], BufSize)
      rest    == unsent[e] - sentLen
  IN  /\ written' = [written EXCEPT ![e] = @ + n]
      /\ IF n < chunk[e]
         THEN /\ chunk' = [chunk EXCEPT ![e] = @ - n]
              /\ UNCHANGED <<pc, jobs, unsent, sentOctets, sentPackets>>
         ELSE /\ unsent' = [unsent EXCEPT ![e] = rest]
              /\ chunk'  = [chunk EXCEPT ![e] = Lesser(rest, BufSize)]
              /\ sentOctets'  = [sentOctets EXCEPT ![e] = @ + n]
              /\ IF rest > 0
                 THEN UNCHANGED <<pc, jobs, sentPackets>>
                 ELSE /\ sentPackets' = [sentPackets EXCEPT ![e] = @ + 1]
                      /\ IF e = "client" /\ respSize = 0
                         THEN EndJob
                         ELSE /\ pc' = [pc EXCEPT ![e] = EnterReceive(e)]
                              /\ UNCHANGED jobs

(* A sendto that takes n bytes of the current chunk.  With the chunk's     *)
(* last byte m_socket.send returns and the next chunk is filled; with the  *)
(* message's last byte send() returns.                                     *)
HandOver(e, n) ==
  LET sentLen == Lesser(unsent[e], BufSize)
      rest    == unsent[e] - sentLen
  IN  /\ written' = [written EXCEPT ![e] = @ + n]
      /\ IF n < chunk[e]
         THEN /\ chunk' = [chunk EXCEPT ![e] = @ - n]
              /\ UNCHANGED <<pc, jobs, unsent, sentOctets, sentPackets>>
         ELSE /\ unsent' = [unsent EXCEPT ![e] = rest]
              /\ chunk'  = [chunk EXCEPT ![e] = Lesser(rest, BufSize)]
              /\ sentOctets'  = [sentOctets EXCEPT ![e] = @ + sentLen]
              /\ IF rest > 0
                 THEN UNCHANGED <<pc, jobs, sentPackets>>
                 ELSE /\ sentPackets' = [sentPackets EXCEPT ![e] = @ + 1]
                      /\ IF e = "client" /\ respSize = 0
                         THEN EndJob
                         ELSE /\ pc' = [pc EXCEPT ![e] = EnterReceive(e)]
                              /\ UNCHANGED jobs

SendBytes(e) ==
  /\ pc[e] = "sending"
  /\ \E n \in 1 .. Lesser(chunk[e], SockBuf - (written[e] - taken[Peer(e)])) :
       HandOver(e, n)
  /\ UNCHANGED <<seq, reqSize, respSize, wire, recvVars, scribbled,
                 receivedPackets, receivedOctets, envVars>>
-----------------------------------------------------------------------------
(***************************************************************************)
(* Receiving.                                                              *)
(***************************************************************************)

(* Only the client's socket has a cancel event.                            *)
Cancelled(e) == e = "client" /\ cancel

(* Mutation: recv is satisfied with one byte less than a header.           *)
TakeHeaderTooFew(e, n) ==
  LET received == content[e] + n
  IN  /\ taken'     = [taken EXCEPT ![e] = @ + n]
      /\ content'   = [content EXCEPT ![e] = received]
      /\ bufBase'   = [bufBase EXCEPT ![e] = IF content[e] = 0 THEN taken[e] ELSE @]
      /\ scribbled' = [scribbled EXCEPT ![e] = 0]
      /\ IF received < HeaderSize - 1
         THEN UNCHANGED <<pc, receivedOctets>>
         ELSE /\ pc' = [pc EXCEPT ![e] = "parse"]
              /\ receivedOctets' = [receivedOctets EXCEPT ![e] = @ + received]

(* recvfrom returned n bytes while receive() waits for a whole header.     *)
TakeHeader(e, n) ==
  LET received == content[e] + n
  IN  /\ taken'     = [taken EXCEPT ![e] = @ + n]
      /\ content'   = [content EXCEPT ![e] = received]
      /\ bufBase'   = [bufBase EXCEPT ![e] = IF content[e] = 0 THEN taken[e] ELSE @]
      /\ scribbled' = [scribbled EXCEPT ![e] = 0]
      /\ IF received < HeaderSize
         THEN UNCHANGED <<pc, receivedOctets>>
         ELSE /\ pc' = [pc EXCEPT ![e] = "parse"]
              /\ receivedOctets' = [receivedOctets EXCEPT ![e] = @ + received]

(* One round of cSocket::recv: what has arrived, up to the room in m_buf.  *)
RecvHeader(e) ==
  /\ pc[e] = "recv"
  /\ ~Cancelled(e)
  /\ \E n \in 1 .. Lesser(Avail(e), BufSize - content[e]) : TakeHeader(e, n)
  /\ UNCHANGED <<jobVars, sendVars, bufPos, cur, todo,
                 sentPackets, sentOctets, receivedPackets, envVars>>

(* Mutation: m_pBuf is not moved to the next message.                      *)
ParseMessageStays(e, i) ==
  LET left == wire[Peer(e)][i].len - content[e]
  IN  /\ cur' = [cur EXCEPT ![e] = i]
      /\ UNCHANGED bufPos
      /\ IF left > 0
         THEN /\ pc'   = [pc EXCEPT ![e] = "body"]
              /\ todo' = [todo EXCEPT ![e] = left]
              /\ UNCHANGED <<content, receivedPackets>>
         ELSE /\ content' = [content EXCEPT ![e] = -left]
              /\ pc' = [pc EXCEPT ![e] = "deliver"]
              /\ receivedPackets' = [receivedPackets EXCEPT ![e] = @ + 1]
              /\ UNCHANGED todo

(* The message whose header is at m_pBuf: part of it is still to come, or  *)
(* all of it is in m_buf, perhaps with bytes of the next one behind it.    *)
ParseMessage(e, i) ==
  LET len  == wire[Peer(e)][i].len
      left == len - content[e]
      next == IF left < 0 THEN bufPos[e] + len ELSE 0
  IN  /\ cur' = [cur EXCEPT ![e] = i]
      /\ IF left > 0
         THEN /\ pc'   = [pc EXCEPT ![e] = "body"]
              /\ todo' = [todo EXCEPT ![e] = left]
              /\ UNCHANGED <<bufPos, content, receivedPackets>>
         ELSE /\ bufPos'  = [bufPos EXCEPT ![e] = next]
              /\ content' = [content EXCEPT ![e] = -left]
              /\ UNCHANGED todo
              /\ IF next >= BufSize
                 THEN /\ pc' = [pc EXCEPT ![e] = "bug"]
                      /\ UNCHANGED receivedPackets
                 ELSE /\ pc' = [pc EXCEPT ![e] = "deliver"]
                      /\ receivedPackets' = [receivedPackets EXCEPT ![e] = @ + 1]

(* receive() looks at the bytes at m_pBuf: too few for a header is a       *)
(* BUG_ON, anything but an intact header a cProtocolException.             *)
Parse(e) ==
  /\ pc[e] = "parse"
  /\ LET here   == bufBase[e] + bufPos[e]
         starts == {i \in 1 .. Len(wire[Peer(e)]) : wire[Peer(e)][i].start = here}
     IN  IF content[e] < HeaderSize
         THEN /\ pc' = [pc EXCEPT ![e] = "bug"]
              /\ UNCHANGED <<bufPos, content, cur, todo, receivedPackets>>
         ELSE IF starts = {} \/ scribbled[e] > bufPos[e]
         THEN /\ pc' = [pc EXCEPT ![e] = "exception"]
              /\ UNCHANGED <<bufPos, content, cur, todo, receivedPackets>>
         ELSE \E i \in starts : ParseMessage(e, i)
  /\ UNCHANGED <<jobVars, sendVars, taken, bufBase, scribbled,
                 sentPackets, sentOctets, receivedOctets, envVars>>

(* Mutation: a packet is counted for every piece.                          *)
TakeBodyCountsPieces(e, n) ==
  LET whole  == n = todo[e]
  IN  /\ taken'   = [taken EXCEPT ![e] = @ + n]
      /\ todo'    = [todo EXCEPT ![e] = @ - n]
      /\ content' = [content EXCEPT ![e] = IF whole THEN 0 ELSE n]
      /\ bufPos'  = [bufPos EXCEPT ![e] = IF whole THEN 0 ELSE @]
      /\ pc'      = [pc EXCEPT ![e] = IF whole THEN "deliver" ELSE @]
      /\ receivedOctets'  = [receivedOctets EXCEPT ![e] = @ + n]
      /\ receivedPackets' = [receivedPackets EXCEPT ![e] = @ + 1]

(* Mutation: toBeReceived is not reduced.                                  *)
TakeBodyForgets(e, n) ==
  LET whole  == n = todo[e]
  IN  /\ taken'   = [taken EXCEPT ![e] = @ + n]
      /\ content' = [content EXCEPT ![e] = IF whole THEN 0 ELSE n]
      /\ bufPos'  = [bufPos EXCEPT ![e] = IF whole THEN 0 ELSE @]
      /\ pc'      = [pc EXCEPT ![e] = IF whole THEN "deliver" ELSE @]
      /\ receivedOctets'  = [receivedOctets EXCEPT ![e] = @ + n]
      /\ receivedPackets' = [receivedPackets EXCEPT ![e] = IF whole THEN @ + 1 ELSE @]
      /\ UNCHANGED todo

(* The rest of the message arrives in m_buf piece by piece.  checkPayload  *)
(* accepts a piece when it holds payload of this message and nothing else. *)
TakeBody(e, n) ==
  LET m      == wire[Peer(e)][cur[e]]
      intact == /\ m.start + HeaderSize <= taken[e]
                /\ taken[e] + n <= m.start + m.len
      whole  == n = todo[e]
  IN  /\ taken'   = [taken EXCEPT ![e] = @ + n]
      /\ todo'    = [todo EXCEPT ![e] = @ - n]
      /\ content' = [content EXCEPT ![e] = IF whole THEN 0 ELSE n]
      /\ bufPos'  = [bufPos EXCEPT ![e] = IF whole THEN 0 ELSE @]
      /\ pc'      = [pc EXCEPT ![e] = IF ~intact THEN "exception"
                                      ELSE IF whole THEN "deliver" ELSE @]
      /\ receivedOctets'  = [receivedOctets EXCEPT ![e] = @ + n]
      /\ receivedPackets' = [receivedPackets EXCEPT ![e] =
                               IF intact /\ whole THEN @ + 1 ELSE @]

RecvBody(e) ==
  /\ pc[e] = "body"
  /\ ~Cancelled(e)
  /\ \E n \in 1 .. Lesser(Avail(e), Lesser(todo[e], BufSize)) : TakeBody(e, n)
  /\ UNCHANGED <<jobVars, sendVars, bufBase, cur, scribbled,
                 sentPackets, sentOctets, envVars>>

(* receive() returned to recvResponse, which checks the sequence number.   *)
RecvResponse ==
  /\ pc["client"] = "deliver"
  /\ IF wire["server"][cur["client"]].seq = seq
     THEN EndJob
     ELSE /\ pc' = [pc EXCEPT !["client"] = "exception"]
          /\ UNCHANGED jobs
  /\ UNCHANGED <<seq, reqSize, respSize, sendVars, recvVars, scribbled, statVars,
                 envVars>>

(* receive() returned to recvRequest: cResponder::doJob answers.  Without  *)
(* payload send() transmits nothing, but the header is in m_buf by then.   *)
SendResponse ==
  /\ pc["server"] = "deliver"
  /\ LET request == wire["client"][cur["server"]]
     IN  IF request.options = 0
         THEN /\ pc' = [pc EXCEPT !["server"] = EnterReceive("server")]
              /\ scribbled' = [scribbled EXCEPT !["server"] = Greater(@, HeaderSize)]
              /\ UNCHANGED sendVars
         ELSE /\ pc' = [pc EXCEPT !["server"] = "sending"]
              /\ BeginSend("server",
                   [start |-> written["server"], len |-> request.options + HeaderSize,
                    seq |-> request.seq, options |-> 0])
  /\ UNCHANGED <<jobVars, recvVars, statVars, envVars>>
-----------------------------------------------------------------------------
(***************************************************************************)
(* The ways out of a blocking call, and the environment.                   *)
(***************************************************************************)

(* Mutation: the end of the stream is taken for a wakeup for nothing.      *)
StreamLostNoEof(e) == reset \/ (Gone(Peer(e)) /\ Avail(Peer(e)) > 0)

(* A recv call fails: the connection is broken, or was reset because the   *)
(* peer closed it with bytes unread, or recvfrom returns 0 at the end of   *)
(* the stream.  The end is not seen while errno is EAGAIN from before.     *)
StreamLost(e) ==
  \/ reset
  \/ /\ Gone(Peer(e))
     /\ Avail(Peer(e)) > 0 \/ (Avail(e) = 0 /\ ~again[e])

(* sendto or recv fails: an errorException.                                *)
ConnectionLost(e) ==
  /\ \/ pc[e] = "sending" /\ (reset \/ Gone(Peer(e)))
     \/ pc[e] \in {"recv", "body"} /\ StreamLost(e)
  /\ pc' = [pc EXCEPT ![e] = "error"]
  /\ UNCHANGED <<jobVars, sendVars, recvVars, scribbled, statVars, envVars>>

(* recv sees the cancel event, after it took what was there to read, and   *)
(* throws eventException.                                                  *)
RecvCancelled ==
  /\ pc["client"] \in {"recv", "body"}
  /\ cancel
  /\ LET room == IF pc["client"] = "recv" THEN BufSize - content["client"]
                                          ELSE Lesser(todo["client"], BufSize)
     IN  \E n \in 0 .. Lesser(Avail("client"), room) :
           /\ n = 0 => Avail("client") = 0
           /\ taken' = [taken EXCEPT !["client"] = @ + n]
  /\ pc' = [pc EXCEPT !["client"] = "done"]
  /\ UNCHANGED <<jobVars, sendVars, bufBase, bufPos, content, cur, todo,
                 scribbled, statVars, envVars>>

(* cClient::terminateAll, on SIGINT or when the time is up.                *)
TerminateAll ==
  /\ ~cancel
  /\ cancel' = TRUE
  /\ UNCHANGED <<pc, jobVars, sendVars, recvVars, scribbled, statVars, reset, again>>

BreakConnection ==
  /\ ~reset
  /\ reset' = TRUE
  /\ UNCHANGED <<pc, jobVars, sendVars, recvVars, scribbled, statVars, cancel, again>>

(* poll wakes a thread for nothing: recvfrom would block, and sets errno.  *)
EmptyWakeup(e) ==
  /\ pc[e] \in {"recv", "body"}
  /\ ~again[e]
  /\ again' = [again EXCEPT ![e] = TRUE]
  /\ UNCHANGED <<pc, jobVars, sendVars, recvVars, scribbled, statVars, cancel, reset>>

(* Both threads have left their loops: the connection is over.             *)
Over ==
  /\ \A e \in End : Gone(e)
  /\ UNCHANGED vars
-----------------------------------------------------------------------------
Init ==
  /\ pc        = [e \in End |-> IF e = "client" THEN "ready" ELSE "recv"]
  /\ seq       = 0
  /\ reqSize   = 0
  /\ respSize  = 0
  /\ jobs      = 0
  /\ wire      = [e \in End |-> << >>]
  /\ written   = [e \in End |-> 0]
  /\ taken     = [e \in End |-> 0]
  /\ unsent    = [e \in End |-> 0]
  /\ chunk     = [e \in End |-> 0]
  /\ scribbled = [e \in End |-> 0]
  /\ bufBase   = [e \in End |-> 0]
  /\ bufPos    = [e \in End |-> 0]
  /\ content   = [e \in End |-> 0]
  /\ cur       = [e \in End |-> 0]
  /\ todo      = [e \in End |-> 0]
  /\ sentPackets     = [e \in End |-> 0]
  /\ sentOctets      = [e \in End |-> 0]
  /\ receivedPackets = [e \in End |-> 0]
  /\ receivedOctets  = [e \in End |-> 0]
  /\ cancel    = FALSE
  /\ reset     = FALSE
  /\ again     = [e \in End |-> FALSE]

(* What both threads do with their socket.                                 *)
Transfer(e) ==
  \/ SendBytes(e)
  \/ RecvHeader(e)
  \/ Parse(e)
  \/ RecvBody(e)
  \/ ConnectionLost(e)

Client == Transfer("client") \/ StartJob \/ LimitReached \/ RecvResponse \/ RecvCancelled
Server == Transfer("server") \/ SendResponse

Next ==
  \/ Client
  \/ Server
  \/ TerminateAll
  \/ BreakConnection
  \/ \E e \in End : EmptyWakeup(e)
  \/ Over

Spec == Init /\ [][Next]_vars

(* Each thread is scheduled: a step it can take for ever it takes.  The    *)
(* environment need not do anything.                                       *)
FairSpec == Spec /\ WF_vars(Client) /\ WF_vars(Server)
-----------------------------------------------------------------------------
(***************************************************************************)
(* Properties.                                                             *)
(***************************************************************************)

Message == [start : Nat, len : Nat, seq : Nat, options : Nat]

(* Every variable holds a value of its type.                               *)
TypeOK ==
  /\ pc \in [End -> {"ready", "sending", "recv", "parse", "body", "deliver"} \cup Ended]
  /\ seq \in Nat /\ jobs \in Nat /\ reqSize \in Nat /\ respSize \in Nat
  /\ wire \in [End -> Seq(Message)]
  /\ written \in [End -> Nat] /\ taken \in [End -> Nat]
  /\ unsent \in [End -> Nat] /\ chunk \in [End -> Nat]
  /\ scribbled \in [End -> Nat]
  /\ bufBase \in [End -> Nat] /\ bufPos \in [End -> Nat]
  /\ content \in [End -> Nat] /\ cur \in [End -> Nat] /\ todo \in [End -> Nat]
  /\ sentPackets \in [End -> Nat] /\ sentOctets \in [End -> Nat]
  /\ receivedPackets \in [End -> Nat] /\ receivedOctets \in [End -> Nat]
  /\ cancel \in BOOLEAN /\ reset \in BOOLEAN /\ again \in [End -> BOOLEAN]

(* On a connection that neither loses nor alters bytes, receive() never    *)
(* takes payload for a header, never finds a foreign byte in a payload and *)
(* never gets another sequence number than the expected one: the           *)
(* exceptions of protocol.cpp that would end the whole process do not      *)
(* happen, however the stream is cut into pieces.                          *)
NoProtocolException == \A e \in End : pc[e] # "exception"

(* A BUG_ON fires in the client only for a request or a response size      *)
(* below a header (protocol.cpp:55, 58), never for what it receives, and   *)
(* in the responder only when requests that want no response are received  *)
(* back to back and the last bytes received are part of a header.          *)
BugOnlyOnFragmentOrSize ==
  /\ pc["client"] = "bug" => \/ respSize \in 1 .. HeaderSize - 1
                             \/ reqSize < HeaderSize
  /\ pc["server"] = "bug" =>
       /\ content["server"] \in 1 .. HeaderSize - 1
       /\ \E i \in 1 .. Len(wire["client"]) : wire["client"][i].options = 0

(* receive() always looks at a whole header, as the BUG_ON behind its      *)
(* FIXME on fragmented headers asserts.                                    *)
HeaderComplete == \A e \in End : pc[e] = "parse" => content[e] >= HeaderSize

(* What receive() has left in m_buf lies inside m_buf and no later send()  *)
(* has written over it, though both use the same buffer.                   *)
UnparsedIntact ==
  \A e \in End :
    content[e] > 0 /\ pc[e] \in {"ready", "sending", "parse", "deliver"} =>
      /\ bufPos[e] + content[e] <= BufSize
      /\ scribbled[e] <= bufPos[e]

(* While the responder sends, the client waits for it and no byte of a     *)
(* request is under way or left in m_buf.  The two never block in sendto   *)
(* on each other, and filling m_buf with a response costs no request.      *)
HalfDuplex ==
  pc["server"] = "sending" =>
    /\ pc["client"] \in {"recv", "parse", "body"} \cup Ended
    /\ Avail("server") = 0
    /\ content["server"] = 0

(* Between two jobs, with nothing left to serve, what the client counted   *)
(* as sent is what the responder counted as received and the other way     *)
(* round, and both have counted every request once that has payload: of    *)
(* one that is only a header nothing is sent, and nothing is counted.      *)
StatsAgree ==
  /\ pc["client"] = "ready"
  /\ pc["server"] = "recv" /\ content["server"] = 0 /\ Avail("server") = 0
  => /\ \A e \in End : /\ sentOctets[e] = receivedOctets[Peer(e)]
                      /\ sentPackets[e] = receivedPackets[Peer(e)]
     /\ sentPackets["client"] = Len(wire["client"])
     /\ jobs = seq

(* A message is counted as received only when it is the next one of the    *)
(* peer's stream: none is skipped, repeated or merged with another.        *)
InOrder ==
  [][\A e \in End :
       LET before == receivedPackets[e]
           after  == receivedPackets'[e]
       IN  after # before => after = before + 1 /\ cur'[e] = after]_vars

(* The request of the last job started was sent, or is being sent.  One    *)
(* that is only a header, or that stopped at a BUG_ON, never was.          *)
OnWire ==
  LET n == Len(wire["client"])
  IN  n > 0 /\ wire["client"][n].seq = seq

(* What a connection promises, whatever the stream does.  A request counts *)
(* as issued when it is sent, and its job is complete when doJob returns.  *)
Abstract == INSTANCE RequestReply WITH
  issued    <- Len(wire["client"]),
  wanted    <- /\ wire["client"] # << >>
               /\ wire["client"][Len(wire["client"])].options # 0,
  served    <- receivedPackets["server"],
  completed <- Len(wire["client"]) - (IF jobs # seq /\ OnWire THEN 1 ELSE 0)

(* doJob and the responder together implement the request-reply contract.  *)
ImplementsRequestReply == Abstract!Spec

(* The job in progress waits for a response that is only a header, or has  *)
(* sent nothing because its request is only a header: neither is ever      *)
(* transmitted (protocol.cpp:104), though the response is waited for.      *)
OnlyHeaders == respSize = HeaderSize \/ (reqSize = HeaderSize /\ respSize # 0)

(* The peer has closed the connection but this end spins in recv: errno is *)
(* EAGAIN, so the end of the stream is taken for nothing to read.          *)
Spinning(e) == pc[e] \in {"recv", "body"} /\ Gone(Peer(e)) /\ again[e]

Waiting == pc["client"] \in {"sending", "recv", "parse", "body", "deliver"}
Settled == pc["client"] \in {"ready"} \cup Ended \/ Spinning("client")

(* A job that has started is completed or its thread ends, unless request  *)
(* or response are only a header, even when messages exceed m_buf and what *)
(* the connection holds.  A client that does not see the end of the stream *)
(* is the other exception.                                                 *)
JobEnds == (Waiting /\ ~OnlyHeaders) ~> Settled

(* The same for every size the settings let through, as the message of     *)
(* comsettings.hpp:86 on the minimum size promises.                        *)
EveryJobEnds == Waiting ~> Settled

(* When the client is gone its responder thread ends too, and can give its *)
(* permit back, unless it was once woken for nothing in recv: then it does *)
(* not see the end of the stream (socket.cpp:250) and keeps the permit.    *)
ResponderEnds == Gone("client") ~> Gone("server") \/ Spinning("server")
=============================================================================
