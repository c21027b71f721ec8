-------------------------- MODULE BabblerInvariant --------------------------
(***************************************************************************)
(* The inductive invariant of Babbler: why the safety properties hold.     *)
(* TLC checks it on small instances, BabblerProofs proves it.              *)
(*                                                                         *)
(* Streams: messages lie end to end, and how much of the last one is out   *)
(* follows from the loop variables of send().                              *)
(* Buffers: between two messages the first byte in m_buf that is not       *)
(* parsed is the first byte of the next message.                           *)
(* Conversation: only the last request may still wait for its answer.      *)
(***************************************************************************)
EXTENDS Babbler

(* Messages that receive() of e has returned.                              *)
Handled(e) == receivedPackets[e]

(* The position behind the i-th message of a stream, here of e's.          *)
Behind(stream, i) == IF i = 0 THEN 0 ELSE stream[i].start + stream[i].len
After(e, i)       == Behind(wire[e], i)

Requests  == Len(wire["client"])
Responses == Len(wire["server"])

(* Messages lie end to end and are longer than their header.               *)
Layout(stream) ==
  /\ \A i \in 1 .. Len(stream) :
       /\ stream[i].len > HeaderSize
       /\ stream[i].start = Behind(stream, i - 1)
  /\ \A i \in 0 .. Len(stream), j \in 1 .. Len(stream) :
       i < j => Behind(stream, i) <= stream[j].start

WireLayout == \A e \in End : Layout(wire[e])

(* What a sender has handed over: all of its messages unless it is inside  *)
(* send(), and never more.                                                 *)
Sender(e) ==
  /\ written[e] <= After(e, Len(wire[e]))
  /\ pc[e] \notin {"sending"} \cup Ended => written[e] = After(e, Len(wire[e]))
  /\ pc[e] = "sending" =>
       /\ Len(wire[e]) > 0
       /\ unsent[e] > 0
       /\ chunk[e] \in 1 .. Lesser(unsent[e], BufSize)
       /\ After(e, Len(wire[e])) =
            written[e] + unsent[e] - Lesser(unsent[e], BufSize) + chunk[e]

(* What a receiver has taken and parsed.                                   *)
Receiver(e) ==
  /\ taken[e] <= written[Peer(e)]
  /\ Handled(e) <= Len(wire[Peer(e)])
  /\ pc[e] \notin {"body"} \cup Ended =>
       taken[e] - content[e] = After(Peer(e), Handled(e))
  /\ pc[e] = "recv" => content[e] < HeaderSize
  /\ pc[e] = "parse" => content[e] > 0
  /\ pc[e] = "body" =>
       /\ cur[e] = Handled(e) + 1
       /\ cur[e] <= Len(wire[Peer(e)])
       /\ todo[e] > 0
       /\ todo[e] + HeaderSize <= wire[Peer(e)][cur[e]].len
       /\ taken[e] + todo[e] = After(Peer(e), cur[e])
  /\ pc[e] = "deliver" => cur[e] = Handled(e) /\ Handled(e) > 0

(* m_buf between two messages, and while its first bytes are awaited.      *)
Buffer(e) ==
  pc[e] \notin {"body"} \cup Ended =>
    /\ content[e] = 0 => bufPos[e] = 0
    /\ pc[e] = "recv" => bufPos[e] = 0
    /\ content[e] > 0 =>
         /\ bufBase[e] + bufPos[e] + content[e] = taken[e]
         /\ bufPos[e] + content[e] <= BufSize
         /\ scribbled[e] <= bufPos[e]
         /\ pc[e] = "deliver" => bufPos[e] >= HeaderSize

Progress == \A e \in End : Sender(e) /\ Receiver(e) /\ Buffer(e)

(* The responder is done with request i: it was answered or wants nothing. *)
Answered(i) ==
  \/ wire["client"][i].options = 0
  \/ i < Handled("server")
  \/ i = Handled("server") /\ pc["server"] # "deliver"

AllAnswered(n) == \A i \in 1 .. n : Answered(i)

(* The client has read all the responder has sent and begun to send.       *)
Quiet ==
  /\ pc["server"] # "sending"
  /\ Handled("client") = Responses
  /\ content["client"] = 0
  /\ taken["client"] = After("server", Responses)

(* The answer to the last request is under way: it is the last response.   *)
Answering ==
  /\ Responses = Handled("client") + 1
  /\ Handled("server") = Requests
  /\ pc["server"] # "deliver"
  /\ wire["server"][Responses].seq = wire["client"][Requests].seq

(* The job in progress and its request, which is on the wire when it has   *)
(* payload.  Without payload it leaves no trace, and a wanted response is  *)
(* waited for like any other.                                              *)
JobProgress ==
  /\ jobs <= seq
  /\ Requests > 0 => wire["client"][Requests].seq <= seq
  /\ pc["client"] = "ready" => jobs = seq
  /\ pc["client"] \notin {"ready"} \cup Ended =>
       /\ seq = jobs + 1
       /\ reqSize >= HeaderSize
       /\ reqSize = HeaderSize => pc["client"] = "recv" /\ respSize # 0
       /\ reqSize > HeaderSize =>
            /\ Requests > 0
            /\ wire["client"][Requests].seq = seq
            /\ respSize = 0 => wire["client"][Requests].options = 0

(* What the two threads know of each other.                                *)
Conversation ==
  /\ AllAnswered(Requests - 1)
  /\ pc["client"] = "ready" => AllAnswered(Requests)
  /\ pc["client"] = "recv" /\ reqSize = HeaderSize => AllAnswered(Requests) /\ Quiet
  /\ pc["client"] \in {"ready", "sending"} => Quiet
  /\ pc["client"] = "recv" => Quiet \/ Answering
  /\ pc["client"] \in {"parse", "body"} => Answering
  /\ pc["client"] = "parse" => content["client"] >= HeaderSize
  /\ pc["client"] = "deliver" =>
       /\ Quiet
       /\ Handled("server") = Requests
       /\ pc["server"] # "deliver"
       /\ wire["server"][Responses].seq = wire["client"][Requests].seq
  /\ pc["server"] = "sending" =>
       /\ Handled("server") = Requests
       /\ pc["client"] \notin {"ready", "sending", "deliver"}
  /\ pc["server"] = "parse" /\ content["server"] < HeaderSize =>
       /\ Handled("server") > 0
       /\ wire["client"][Handled("server")].options = 0

(* The inductive invariant: the streams, the buffers and the conversation  *)
(* fit together in every state, so that every message boundary receive()   *)
(* computes is one the sender made.                                        *)
StreamInv ==
  /\ TypeOK
  /\ WireLayout
  /\ Progress
  /\ JobProgress
  /\ Conversation
  /\ NoProtocolException
  /\ BugOnlyOnFragmentOrSize

(***************************************************************************)
(* What the statistics of a thread in its loop say: the chunks handed over *)
(* as a whole, and all bytes taken but those of a header in progress.      *)
(***************************************************************************)
SentCounted(e) ==
  LET sending == pc[e] = "sending"
  IN pc[e] \notin Ended =>
       /\ sentOctets[e] + (IF sending THEN unsent[e] ELSE 0) = After(e, Len(wire[e]))
       /\ sentPackets[e] + (IF sending THEN 1 ELSE 0) = Len(wire[e])

ReceivedCounted(e) ==
  pc[e] \notin Ended =>
    receivedOctets[e] + (IF pc[e] = "recv" THEN content[e] ELSE 0) = taken[e]

Counted == \A e \in End : SentCounted(e) /\ ReceivedCounted(e)
=============================================================================
