------------------------------ MODULE Datagram ------------------------------
(***************************************************************************)
(* net-babbler over UDP.  Each client has a connected socket of its own;   *)
(* all threads of a cStatelessServer receive from clones of one socket, so *)
(* which thread gets a datagram is open.  Datagrams are lost, doubled and  *)
(* reordered; no side has a timeout or sends anything again.               *)
(*                                                                         *)
(* A datagram is a piece of a message: send() makes one of each bufferful. *)
(* The payload counts up from the sequence number in a request and down in *)
(* a response, which is all that ties a piece to a message; the model      *)
(* leaves out that it counts in octets (bound: sequence numbers stay low). *)
(***************************************************************************)
EXTENDS Integers

CONSTANTS
  Clients,    (* cClient threads of one client process                     *)
  Threads,    (* cResponderThread objects of the stateless server          *)
  HeaderSize, (* sizeof (cProtocolHeader)                                  *)
  ClientBuf, ServerBuf, (* --buf-size of the two programs                  *)
  MaxDatagram,(* the largest datagram sendto takes, 65507 octets           *)
  Sizes,      (* sizes of request and response a job may have              *)
  Count,      (* m_count of each client                                    *)
  MaxFaults   (* bound: datagrams that are lost or doubled                 *)

ASSUME DatagramAssumption ==
  /\ Clients \cap Threads = {} /\ Threads # {}
  /\ HeaderSize \in Nat \ {0}
  /\ ClientBuf \in Nat /\ ServerBuf \in Nat
  /\ HeaderSize < ClientBuf /\ HeaderSize < ServerBuf
  /\ MaxDatagram \in Nat /\ Count \in Nat /\ MaxFaults \in Nat
  /\ Sizes \subseteq [req : Nat, resp : Nat]

VARIABLES
  pc,         (* where each thread is                                      *)
  seq,        (* m_seq of each client                                      *)
  size,       (* the sizes of its job                                      *)
  net,        (* datagrams under way or in a socket's queue                *)
  junk,       (* octets received that begin with no header                 *)
  cur,        (* the message receive() is in                               *)
  done,       (* octets of it that have come                               *)
  source,     (* m_remoteAddr: the client the last datagram came from      *)
  lost, doubled, (* history: faults of the network                         *)
  split,      (* history: a message that is not one datagram was sent      *)
  oversize,   (* history: a datagram above MaxDatagram was to be sent      *)
  undersize   (* history: a size below that of a header was to be sent     *)

faultVars == <<lost, doubled>>
recvVars  == <<junk, cur, done, source>>
sizeVars  == <<split, oversize, undersize>>
vars == <<pc, seq, size, net, recvVars, faultVars, sizeVars>>

Receivers == Clients \cup Threads
Buf(r) == IF r \in Clients THEN ClientBuf ELSE ServerBuf

Lesser(a, b) == IF a <= b THEN a ELSE b

Nothing == [kind |-> "none", len |-> 0]

(* The pieces send() makes of a message with a buffer of buf octets.       *)
Pieces(m, buf) ==
  {[msg |-> m, off |-> i * buf, n |-> Lesser(buf, m.len - i * buf)] :
     i \in 0 .. (m.len - 1) \div buf}

(* A piece goes to the server's socket or to that of the client.           *)
For(r, d) == IF r \in Threads THEN d.msg.kind = "request"
                              ELSE d.msg.kind = "response" /\ d.msg.client = r
-----------------------------------------------------------------------------
(* send() by r, which goes on at next: sendto refuses what is too long     *)
(* for one datagram, and the errorException ends the thread.               *)
Send(r, m, next) ==
  IF Lesser(m.len, Buf(r)) > MaxDatagram
  THEN /\ pc' = [pc EXCEPT ![r] = "error"]
       /\ oversize' = TRUE
       /\ UNCHANGED <<net, split>>
  ELSE /\ pc' = [pc EXCEPT ![r] = next]
       /\ net' = net \cup Pieces(m, Buf(r))
       /\ split' = (split \/ m.len > ClientBuf \/ m.len > ServerBuf)
       /\ UNCHANGED oversize

AfterJob(c, s) == IF s = Count THEN "done" ELSE "ready"

(* cProtocolException is caught nowhere, and BUG_ON aborts: both end the   *)
(* whole process.                                                          *)
Abort(r) ==
  pc' = [x \in Receivers |->
           IF (x \in Clients) = (r \in Clients) THEN "aborted" ELSE pc[x]]

(* sendRequest: a size below that of a header is a BUG_ON, and a message   *)
(* without payload leaves send() before the first datagram.                *)
SendRequest(c, s, next) ==
  \/ /\ s.req < HeaderSize \/ s.resp \in 1 .. HeaderSize - 1
     /\ Abort(c) /\ undersize' = TRUE
     /\ UNCHANGED <<net, split, oversize>>
  \/ /\ s.req = HeaderSize /\ s.resp \notin 1 .. HeaderSize - 1
     /\ pc' = [pc EXCEPT ![c] = next]
     /\ UNCHANGED <<net, sizeVars>>
  \/ /\ s.req > HeaderSize /\ s.resp \notin 1 .. HeaderSize - 1
     /\ Send(c, [kind |-> "request", client |-> c, seq |-> seq'[c],
                 len |-> s.req, resp |-> s.resp], next)
     /\ UNCHANGED undersize

(* cRequestor::doJob up to the response.                                   *)
StartJob(c) ==
  /\ pc[c] = "ready"
  /\ seq' = [seq EXCEPT ![c] = @ + 1]
  /\ \E s \in Sizes :
       /\ size' = [size EXCEPT ![c] = s]
       /\ SendRequest(c, s, IF s.resp = 0 THEN AfterJob(c, seq'[c]) ELSE "recv")
  /\ UNCHANGED <<recvVars, faultVars>>

(* A message that was dealt with is forgotten.                             *)
Forget(r) ==
  /\ cur' = [cur EXCEPT ![r] = Nothing]
  /\ done' = [done EXCEPT ![r] = 0]
  /\ source' = [source EXCEPT ![r] = r]
  /\ UNCHANGED junk

(* cResponder::doJob: the answer goes to where the last datagram came from.*)
(* A response of only a header has no payload and is never sent.           *)
Reply(t) ==
  /\ pc[t] = "deliver"
  /\ IF cur[t].resp \in {0, HeaderSize}
     THEN /\ pc' = [pc EXCEPT ![t] = "recv"]
          /\ UNCHANGED <<net, split, oversize>>
     ELSE Send(t, [kind |-> "response", client |-> source[t],
                   seq |-> cur[t].seq, len |-> cur[t].resp], "recv")
  /\ Forget(t)
  /\ UNCHANGED <<seq, size, undersize, faultVars>>
-----------------------------------------------------------------------------
(***************************************************************************)
(* receive().                                                              *)
(***************************************************************************)

(* recvfrom takes a datagram that is there; its copy may stay behind.      *)
Take(d) ==
  \/ net' = net \ {d} /\ UNCHANGED faultVars
  \/ /\ lost + doubled < MaxFaults
     /\ doubled' = doubled + 1
     /\ UNCHANGED <<net, lost>>

(* Mutation: one m_remoteAddr for all threads.                             *)
RememberForAll(r, d) == source' = [x \in Receivers |-> d.msg.client]

(* recvfrom stores where the datagram came from.                           *)
Remember(r, d) == source' = [source EXCEPT ![r] = d.msg.client]

(* Mutation: the length of a message is taken for that of its payload.     *)
ProgressPayload(r, m, n) ==
  /\ cur'  = [cur EXCEPT ![r] = m]
  /\ done' = [done EXCEPT ![r] = n]
  /\ pc'   = [pc EXCEPT ![r] = IF n = m.len + HeaderSize THEN "deliver" ELSE "body"]
  /\ UNCHANGED junk

(* n octets of m have come.                                                *)
Progress(r, m, n) ==
  /\ cur'  = [cur EXCEPT ![r] = m]
  /\ done' = [done EXCEPT ![r] = n]
  /\ pc'   = [pc EXCEPT ![r] = IF n = m.len THEN "deliver" ELSE "body"]
  /\ UNCHANGED junk

(* The first datagram.  One without a header is junk: short ones are       *)
(* gathered until there is enough for a header, with a wrong checksum.     *)
ReceiveHeader(r) ==
  /\ pc[r] = "recv"
  /\ \E d \in {e \in net : For(r, e)} :
       LET n == Lesser(d.n, Buf(r) - junk[r])
       IN /\ Take(d)
          /\ IF d.off = 0 /\ junk[r] = 0
             THEN Progress(r, d.msg, n)
             ELSE /\ junk' = [junk EXCEPT ![r] = @ + n]
                  /\ IF junk[r] + n >= HeaderSize THEN Abort(r) ELSE UNCHANGED pc
                  /\ UNCHANGED <<cur, done>>
          /\ Remember(r, d)
  /\ UNCHANGED <<seq, size, lost, sizeVars>>

(* checkPayload accepts a piece whose values are the expected ones.        *)
Continues(r, d) ==
  /\ d.off # 0
  /\ IF d.msg.kind = "request" THEN d.msg.seq + d.off = cur[r].seq + done[r]
                               ELSE d.msg.seq - d.off = cur[r].seq - done[r]

(* The rest of the message, from whatever message it is.                   *)
ReceiveBody(r) ==
  /\ pc[r] = "body"
  /\ \E d \in {e \in net : For(r, e)} :
       LET n == Lesser(d.n, Lesser(cur[r].len - done[r], Buf(r)))
       IN /\ Take(d)
          /\ IF Continues(r, d)
             THEN Progress(r, cur[r], done[r] + n)
             ELSE Abort(r) /\ UNCHANGED <<junk, cur, done>>
          /\ Remember(r, d)
  /\ UNCHANGED <<seq, size, lost, sizeVars>>

(* Mutation: the sequence number of the response is not checked.           *)
RecvResponseAny(c) ==
  /\ pc[c] = "deliver"
  /\ pc' = [pc EXCEPT ![c] = AfterJob(c, seq[c])]
  /\ Forget(c)
  /\ UNCHANGED <<seq, size, net, faultVars, sizeVars>>

(* recvResponse: another sequence number is a cProtocolException.          *)
RecvResponse(c) ==
  /\ pc[c] = "deliver"
  /\ IF cur[c].seq = seq[c]
     THEN pc' = [pc EXCEPT ![c] = AfterJob(c, seq[c])]
     ELSE Abort(c)
  /\ Forget(c)
  /\ UNCHANGED <<seq, size, net, faultVars, sizeVars>>

(* The port of a server that is gone, or all of whose threads ended and    *)
(* closed their clones, is unreachable: POLLERR or ECONNREFUSED.           *)
Refused(c) ==
  /\ pc[c] \in {"ready", "recv", "body"}
  /\ \A t \in Threads : pc[t] \in {"aborted", "error"}
  /\ pc' = [pc EXCEPT ![c] = "error"]
  /\ UNCHANGED <<seq, size, net, recvVars, faultVars, sizeVars>>

(* The network, or the queue of a socket, loses a datagram.                *)
Lose ==
  /\ lost + doubled < MaxFaults
  /\ \E d \in net : net' = net \ {d}
  /\ lost' = lost + 1
  /\ UNCHANGED <<pc, seq, size, recvVars, doubled, sizeVars>>

Ended == {"done", "error", "aborted"}

(* The clients are gone, or wait for what never comes.                     *)
Over ==
  /\ \A c \in Clients : pc[c] \in Ended \cup {"recv", "body"}
  /\ \A t \in Threads : pc[t] # "deliver"
  /\ UNCHANGED vars
-----------------------------------------------------------------------------
Init ==
  /\ pc = [r \in Receivers |-> IF r \in Clients THEN AfterJob(r, 0) ELSE "recv"]
  /\ seq = [c \in Clients |-> 0] /\ size = [c \in Clients |-> [req |-> 0, resp |-> 0]]
  /\ net = {}
  /\ junk = [r \in Receivers |-> 0]
  /\ cur = [r \in Receivers |-> Nothing]
  /\ done = [r \in Receivers |-> 0]
  /\ source = [r \in Receivers |-> r]
  /\ lost = 0 /\ doubled = 0 /\ split = FALSE /\ oversize = FALSE /\ undersize = FALSE

Step(r) ==
  \/ ReceiveHeader(r) \/ ReceiveBody(r)
  \/ r \in Threads /\ Reply(r)
  \/ r \in Clients /\ (StartJob(r) \/ RecvResponse(r) \/ Refused(r))

Next == (\E r \in Receivers : Step(r)) \/ Lose \/ Over

Spec == Init /\ [][Next]_vars

FairSpec == Spec /\ \A r \in Receivers : WF_vars(Step(r))
-----------------------------------------------------------------------------
(***************************************************************************)
(* Properties.                                                             *)
(***************************************************************************)

TypeOK ==
  /\ pc \in [Receivers -> {"ready", "recv", "body", "deliver"} \cup Ended]
  /\ seq \in [Clients -> 0 .. Count] /\ size \in [Clients -> [req : Nat, resp : Nat]]
  /\ junk \in [Receivers -> Nat] /\ done \in [Receivers -> Nat]
  /\ lost \in Nat /\ doubled \in Nat
  /\ split \in BOOLEAN /\ oversize \in BOOLEAN /\ undersize \in BOOLEAN

(* As long as every message is one datagram that fits both buffers, no     *)
(* loss and no order of the datagrams ends a process, however the threads  *)
(* share them; a doubled one ends the client's, never the server's.  So    *)
(* does a request or response size below that of a header, before anything *)
(* of it is sent.  A thread of the server ends only because it could not   *)
(* send (protocol.cpp:55, 58, 150, serverstateless.cpp:36).                *)
EndsExplained ==
  /\ TypeOK
  /\ \A t \in Threads : /\ pc[t] = "aborted" => split
                        /\ pc[t] = "error" => oversize
  /\ \A c \in Clients : /\ pc[c] = "aborted" => split \/ doubled > 0 \/ undersize
                        /\ pc[c] = "error" => split \/ oversize

(* A job that ends with a response got one of the size it asked for,       *)
(* though nothing compares them: no thread answers another client and no   *)
(* late answer is taken for this job's (responder.hpp:51).                 *)
AnswerFits ==
  [][\A c \in Clients :
       pc[c] = "deliver" /\ pc'[c] \in {"ready", "done"} =>
         split \/ cur[c].len = size[c].resp]_vars

(* The request or the response of the job is only a header.                *)
Unanswered(c) == size[c].req = HeaderSize \/ size[c].resp = HeaderSize

(* A client waits for ever only when a datagram was lost, a message was    *)
(* split, a thread of the server could not send its answer, or its job has *)
(* a size of only a header: then nothing is sent (protocol.cpp:104).       *)
JobEnds ==
  \A c \in Clients :
    pc[c] \in {"recv", "body"} ~>
      pc[c] \in {"ready"} \cup Ended \/ lost > 0 \/ split \/ oversize \/ Unanswered(c)
-----------------------------------------------------------------------------
(***************************************************************************)
(* What makes the safety properties hold from step to step.                *)
(***************************************************************************)

Request  == [kind : {"request"}, client : Clients, seq : Nat, len : Nat \ {0}, resp : Nat]
Response == [kind : {"response"}, client : Clients, seq : Nat, len : Nat \ {0}]

(* The octets of the answer that a request asks for or that a response is. *)
Answer(m) == IF m.kind = "request" THEN m.resp ELSE m.len

Delivers(r) == pc[r] = "deliver"

(* The message receive() is in, and m_remoteAddr.                          *)
Received ==
  /\ cur \in [Receivers -> Request \cup Response \cup {Nothing}]
  /\ source \in [Receivers -> Receivers]

(* What is under way and what is received: pieces of messages, and a client*)
(* gets only answers of its own.                                           *)
Traffic ==
  /\ \A d \in net : /\ d.msg \in Request \cup Response
                    /\ d.off \in Nat /\ d.n \in 1 .. d.msg.len
  /\ Received
  /\ \A r \in Receivers :
       /\ junk[r] <= Buf(r)
       /\ pc[r] \in {"body", "deliver"} =>
            /\ r \in Threads => cur[r] \in Request /\ source[r] \in Clients
            /\ r \in Clients => cur[r] \in Response /\ cur[r].client = r
            /\ done[r] <= cur[r].len
  /\ \A c \in Clients : pc[c] = "ready" => seq[c] < Count

(* While every message is one datagram, each is received as a whole and    *)
(* answered to the client it came from.                                    *)
Whole ==
  /\ \A d \in net : /\ d.off = 0 /\ d.n = d.msg.len
                    /\ d.n <= ClientBuf /\ d.n <= ServerBuf
  /\ \A r \in Receivers : junk[r] = 0 /\ pc[r] # "body"
  /\ \A t \in Threads : Delivers(t) => source[t] = cur[t].client

(* Only the job in progress has its sequence number and its answer's size. *)
InTime(m) ==
  /\ m.seq <= seq[m.client]
  /\ m.seq = seq[m.client] => Answer(m) = size[m.client].resp

(* No message is of a job to come, and those of this one are of its size.  *)
Fits ==
  /\ \A d \in net : InTime(d.msg)
  /\ \A r \in Receivers : Delivers(r) => InTime(cur[r])

(* The client has not yet got what m asks for or answers.                  *)
Awaited(m) == m.seq = seq[m.client] /\ pc[m.client] \notin {"ready", "deliver", "done"}

(* While nothing is doubled, a request or its answer is in one place only, *)
(* and the client waits for it.                                            *)
Once ==
  /\ \A d \in net : Answer(d.msg) # 0 =>
       /\ Awaited(d.msg)
       /\ \A e \in net : Answer(e.msg) # 0 /\ e.msg.client = d.msg.client => e = d
       /\ \A t \in Threads : Delivers(t) /\ cur[t].resp # 0 => cur[t].client # d.msg.client
  /\ \A t \in Threads : Delivers(t) /\ cur[t].resp # 0 =>
       /\ Awaited(cur[t])
       /\ \A u \in Threads : Delivers(u) /\ cur[u].resp # 0 /\ cur[u].client = cur[t].client
                               => u = t
  /\ \A c \in Clients : Delivers(c) => cur[c].seq = seq[c]

(* The parts of the inductive invariant.                                   *)
SharedInv ==
  /\ EndsExplained
  /\ Traffic
  /\ ~split => Whole /\ Fits
  /\ ~split /\ doubled = 0 => Once
=============================================================================
