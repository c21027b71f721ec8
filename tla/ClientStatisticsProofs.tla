----------------------- MODULE ClientStatisticsProofs -----------------------
(***************************************************************************)
(* The theorems about the statistics of a client, for every size of its    *)
(* messages and every value of the clock: the snapshots are whole, the     *)
(* summary is exact and no status divides by a time that did not go by.    *)
(***************************************************************************)
EXTENDS ClientStatistics, TLAPS

(* A time is not changed by the unsigned arithmetic, and every difference  *)
(* is made a time.                                                         *)
LEMMA Wraps ==
  /\ \A x \in 0 .. (Word - 1) : x % Word = x
  /\ \A x \in Int : x % Word \in 0 .. (Word - 1)
<1>1. Word \in Nat \ {0}
  BY ClientStatisticsAssumption
<1> QED
  BY <1>1

(* The octets of a number of messages, ...                                 *)
LEMMA Octets ==
  ASSUME NEW n \in Nat, NEW len \in Nat
  PROVE  n * len \in Nat
OBVIOUS

(* ... of one message more, ...                                            *)
LEMMA NextMessage ==
  ASSUME NEW n \in Nat, NEW len \in Nat \ {0}
  PROVE  /\ (n + 1) * len = n * len + len
         /\ n * len \in Nat /\ (n + 1) * len \in Nat
<1>1. n + 1 \in Nat
  OBVIOUS
<1>2. n * len \in Nat /\ (n + 1) * len \in Nat
  BY <1>1, Octets, Zenon
<1>3. (n + 1) * len = n * len + len
  OBVIOUS
<1> QED
  BY <1>2, <1>3, Zenon

(* ... of a message that is whole, and of one that is not.                 *)
LEMMA LastOctet ==
  ASSUME NEW n \in Nat, NEW len \in Nat \ {0}, NEW o \in Nat
  PROVE  /\ (n + 1) * len - o = 0 => o = (n + 1) * len
         /\ o # (n + 1) * len /\ o <= (n + 1) * len /\ o > n * len
              => o \in n * len .. (n + 1) * len - 1
<1>1. ASSUME NEW all \in Nat, NEW before \in Nat, all = before + len
      PROVE  /\ all - o = 0 => o = all
             /\ o # all /\ o <= all /\ o > before => o \in before .. all - 1
  BY <1>1
<1> QED
  BY <1>1, NextMessage

(* A message is as many octets as the constants say.                       *)
LEMMA Counters ==
  ASSUME TypeOK
  PROVE  /\ stats.sentPackets \in Nat /\ stats.sentOctets \in Nat
         /\ stats.receivedPackets \in Nat /\ stats.receivedOctets \in Nat
         /\ stats.sentPackets * ReqLen \in Nat /\ stats.receivedPackets * RespLen \in Nat
         /\ (stats.sentPackets + 1) * ReqLen = stats.sentPackets * ReqLen + ReqLen
         /\ (stats.receivedPackets + 1) * RespLen = stats.receivedPackets * RespLen + RespLen
         /\ ReqLen \in Nat \ {0} /\ RespLen \in Nat \ {0}
<1>1. /\ stats.sentPackets \in Nat /\ stats.sentOctets \in Nat
      /\ stats.receivedPackets \in Nat /\ stats.receivedOctets \in Nat
  BY DEF TypeOK, Fields
<1>2. ReqLen \in Nat \ {0} /\ RespLen \in Nat \ {0}
  BY ClientStatisticsAssumption
<1> QED
  BY <1>1, <1>2, NextMessage

(* A step that leaves the counters and the lock of the client alone.       *)
LEMMA UpdatesFrame ==
  ASSUME Updates, UNCHANGED <<client, stats, update>>,
         (lock' = "client") <=> (lock = "client")
  PROVE  Updates'
<1>1. (client \in {"receiving", "received"} => stats.receivedPackets < stats.sentPackets)'
  BY DEF Updates
<1>2. Missing' = Missing /\ SentWhole(stats)' = SentWhole(stats)
      /\ ReceivedWhole(stats)' = ReceivedWhole(stats)
  BY DEF Missing, SentWhole, ReceivedWhole
<1> QED
  BY <1>1, <1>2 DEF Updates

(* A step that leaves the times alone.                                     *)
LEMMA TimingFrame ==
  ASSUME Timing, UNCHANGED <<clock, startTime, since, now, end, finishedTime>>,
         Calling' = Calling, Ended' = Ended
  PROVE  Timing'
BY DEF Timing

(* The requestor is made, and nothing has been counted.                    *)
LEMMA ConnectStep ==
  ASSUME SnapshotInv, Connect
  PROVE  SnapshotInv'
<1> USE DEF Connect, ThreadOnly, threadVars, callVars, resultVars
<1>1. TypeOK'
  BY ClientStatisticsAssumption DEF SnapshotInv, SnapshotsWhole, Timing, TypeOK, Updates
<1>2. LockHeld'
  BY DEF SnapshotInv, LockHeld
<1>3. Updates'
  BY <1>1, ClientStatisticsAssumption DEF SnapshotInv, LockHeld, TypeOK, Updates
<1>4. SnapshotsWhole'
  BY <1>1, <1>3 DEF SnapshotInv, SnapshotsWhole, LockHeld, Updates, Consistent
<1>5. SummaryExact'
  BY <1>1 DEF SnapshotInv, Copies, NoRequestor, SummaryExact, Timing, TypeOK
<1>6. Timing'
  BY <1>1, ClientStatisticsAssumption DEF SnapshotInv, Calling, Ended, Timing, TypeOK
<1>7. Durations'
  BY DEF SnapshotInv, Calling, Durations, Timing, TypeOK
<1>8. NoRequestor'
  BY DEF SnapshotInv, Calling, NoRequestor
<1>9. Copies'
  BY <1>1 DEF SnapshotInv, Calling, Copies, Ended, LockHeld, Timing, TypeOK
<1> QED
  BY <1>1, <1>2, <1>3, <1>4, <1>5, <1>6, <1>7, <1>8, <1>9 DEF SnapshotInv

(* The time that begins now is not behind any that was taken before.       *)
LEMMA StartStep ==
  ASSUME SnapshotInv, Start
  PROVE  SnapshotInv'
<1> USE DEF Start, ThreadOnly, threadVars, callVars, resultVars
<1>1. TypeOK'
  BY ClientStatisticsAssumption DEF SnapshotInv, SnapshotsWhole, Timing, TypeOK, Updates
<1>2. LockHeld'
  BY DEF SnapshotInv, LockHeld
<1>3. Updates'
  BY <1>1, ClientStatisticsAssumption DEF SnapshotInv, LockHeld, TypeOK, Updates
<1>4. SnapshotsWhole'
  BY <1>1, <1>3 DEF SnapshotInv, SnapshotsWhole, LockHeld, Updates, Consistent
<1>5. SummaryExact'
  BY <1>1 DEF SnapshotInv, Copies, NoRequestor, SummaryExact, Timing, TypeOK
<1>6. Timing'
  BY <1>1, ClientStatisticsAssumption DEF SnapshotInv, Calling, Ended, Timing, TypeOK
<1>7. Durations'
  BY DEF SnapshotInv, Calling, Durations, Timing, TypeOK
<1>8. NoRequestor'
  BY DEF SnapshotInv, Calling, NoRequestor
<1>9. Copies'
  BY <1>1 DEF SnapshotInv, Calling, Copies, Ended, LockHeld, Timing, TypeOK
<1> QED
  BY <1>1, <1>2, <1>3, <1>4, <1>5, <1>6, <1>7, <1>8, <1>9 DEF SnapshotInv

(* A piece is at most what is left of the request.                         *)
LEMMA SendStep ==
  ASSUME SnapshotInv, Send
  PROVE  SnapshotInv'
<1> USE DEF Send, ThreadOnly, threadVars, callVars, resultVars
<1>1. TypeOK'
  BY ClientStatisticsAssumption DEF SnapshotInv, SnapshotsWhole, Timing, TypeOK, Updates
<1>2. LockHeld'
  BY DEF SnapshotInv, LockHeld
<1>3. Updates'
  <2> DEFINE all == (stats.sentPackets + 1) * ReqLen
  <2>1. TypeOK /\ LockHeld /\ Updates /\ client = "sending"
    <3>1. client = "sending"
      OBVIOUS
    <3> HIDE DEF Send
    <3> QED
      BY <3>1 DEF SnapshotInv, SnapshotsWhole
  <2>2. lock # "client" /\ lock' = lock /\ stats' = stats /\ client' = "sent"
    BY <2>1 DEF LockHeld
  <2>3. stats.sentOctets \in Nat /\ all \in Nat
    BY <2>1, Counters
  <2>4. PICK n \in 1 .. (all - stats.sentOctets) :
          update' = [octets |-> n, packets |-> IF stats.sentOctets + n = all THEN 1 ELSE 0]
    OBVIOUS
  <2>5. n \in Nat \ {0} /\ stats.sentOctets + n <= all
    BY <2>3, <2>4
  <2>6. SentWhole(stats)' /\ ReceivedWhole(stats)'
    BY <2>1, <2>2 DEF Updates, SentWhole, ReceivedWhole
  <2>7. all' = all
    BY <2>2
  <2>8. update'.octets = n /\ update'.packets = IF stats.sentOctets + n = all THEN 1 ELSE 0
    BY <2>4
  <2> HIDE DEF all, Send, ThreadOnly
  <2>9. (client = "sent" =>
       /\ IF lock = "client" THEN stats.sentOctets > stats.sentPackets * ReqLen
                             ELSE update.octets \in Nat \ {0}
       /\ LET sent == stats.sentOctets + IF lock = "client" THEN 0 ELSE update.octets
          IN sent <= all /\ update.packets = IF sent = all THEN 1 ELSE 0)'
    BY <2>2, <2>5, <2>7, <2>8
  <2> QED
    BY <2>2, <2>6, <2>9 DEF Updates, all
<1>4. SnapshotsWhole'
  BY <1>1, <1>3 DEF SnapshotInv, SnapshotsWhole, LockHeld, Updates, Consistent
<1>5. SummaryExact'
  BY <1>1 DEF SnapshotInv, Copies, NoRequestor, SummaryExact, Timing, TypeOK
<1>6. Timing'
  BY <1>1, ClientStatisticsAssumption DEF SnapshotInv, Calling, Ended, Timing, TypeOK
<1>7. Durations'
  BY DEF SnapshotInv, Calling, Durations, Timing, TypeOK
<1>8. NoRequestor'
  BY DEF SnapshotInv, Calling, NoRequestor
<1>9. Copies'
  BY <1>1 DEF SnapshotInv, Calling, Copies, Ended, LockHeld, Timing, TypeOK
<1> QED
  BY <1>1, <1>2, <1>3, <1>4, <1>5, <1>6, <1>7, <1>8, <1>9 DEF SnapshotInv

(* A piece is at most what is left of the response, which is counted after *)
(* it.                                                                     *)
LEMMA ReceiveStep ==
  ASSUME SnapshotInv, Receive
  PROVE  SnapshotInv'
<1> USE DEF Receive, ThreadOnly, threadVars, callVars, resultVars
<1>1. TypeOK'
  BY ClientStatisticsAssumption DEF SnapshotInv, SnapshotsWhole, Timing, TypeOK, Updates
<1>2. LockHeld'
  BY DEF SnapshotInv, LockHeld
<1>3. Updates'
  <2>1. TypeOK /\ LockHeld /\ Updates /\ client = "receiving"
    BY DEF SnapshotInv, SnapshotsWhole
  <2>2. lock # "client" /\ lock' = lock /\ stats' = stats /\ client' = "received"
    BY <2>1 DEF LockHeld
  <2>3. Missing \in Nat
    BY <2>1, Counters DEF Updates, ReceivedWhole, Missing
  <2>4. SentWhole(stats)' /\ ReceivedWhole(stats)' /\ Missing' = Missing
    BY <2>1, <2>2 DEF Updates, SentWhole, ReceivedWhole, Missing
  <2>5. (stats.receivedPackets < stats.sentPackets)'
    BY <2>1, <2>2 DEF Updates
  <2>6. \/ update'.packets = 0 /\ update'.octets \in 1 .. Missing
        \/ update'.packets = 1 /\ update'.octets = 0 /\ Missing = 0
    BY <2>3
  <2> QED
    BY <2>2, <2>4, <2>5, <2>6 DEF Updates
<1>4. SnapshotsWhole'
  BY <1>1, <1>3 DEF SnapshotInv, SnapshotsWhole, LockHeld, Updates, Consistent
<1>5. SummaryExact'
  BY <1>1 DEF SnapshotInv, Copies, NoRequestor, SummaryExact, Timing, TypeOK
<1>6. Timing'
  BY <1>1, ClientStatisticsAssumption DEF SnapshotInv, Calling, Ended, Timing, TypeOK
<1>7. Durations'
  BY DEF SnapshotInv, Calling, Durations, Timing, TypeOK
<1>8. NoRequestor'
  BY DEF SnapshotInv, Calling, NoRequestor
<1>9. Copies'
  BY <1>1 DEF SnapshotInv, Calling, Copies, Ended, LockHeld, Timing, TypeOK
<1> QED
  BY <1>1, <1>2, <1>3, <1>4, <1>5, <1>6, <1>7, <1>8, <1>9 DEF SnapshotInv

(* Whose lock it is may leave the octets of a request without their        *)
(* packet.                                                                 *)
LEMMA CountOctetsStep ==
  ASSUME SnapshotInv, CountOctets
  PROVE  SnapshotInv'
<1> USE DEF CountOctets, ThreadOnly, threadVars, callVars, resultVars
<1>1. TypeOK'
  BY ClientStatisticsAssumption DEF SnapshotInv, SnapshotsWhole, Timing, TypeOK, Updates
<1>2. LockHeld'
  BY DEF SnapshotInv, LockHeld
<1>3. Updates'
  <2>1. TypeOK /\ Updates /\ lock # "client" /\ lock' = "client"
        /\ client' = client /\ update' = update /\ TypeOK'
    BY <1>1 DEF SnapshotInv, SnapshotsWhole
  <2>2. CASE client = "sent"
    <3>1. /\ stats'.sentOctets = stats.sentOctets + update.octets
          /\ stats'.sentPackets = stats.sentPackets
          /\ stats'.receivedPackets = stats.receivedPackets
          /\ stats'.receivedOctets = stats.receivedOctets
      BY <2>1, <2>2 DEF TypeOK, Fields
    <3>2. stats.sentOctets > stats.sentPackets * ReqLen \/ stats.sentOctets = stats.sentPackets * ReqLen
      BY <2>1, Counters DEF Updates, SentWhole
    <3>3. stats'.sentOctets > stats'.sentPackets * ReqLen
      BY <2>1, <2>2, <3>1, <3>2, Counters DEF Updates
    <3>4. /\ stats'.sentOctets <= (stats'.sentPackets + 1) * ReqLen
          /\ update'.packets = IF stats'.sentOctets = (stats'.sentPackets + 1) * ReqLen
                               THEN 1 ELSE 0
      BY <2>1, <2>2, <3>1 DEF Updates
    <3>5. ReceivedWhole(stats)'
      BY <2>1, <3>1 DEF Updates, ReceivedWhole
    <3>6. stats'.sentOctets + 0 = stats'.sentOctets
      BY <2>1, Counters, <3>1 DEF TypeOK, Fields
    <3> QED
      BY <2>1, <2>2, <3>3, <3>4, <3>5, <3>6 DEF Updates
  <2>3. CASE client = "received"
    <3>1. /\ stats'.receivedOctets = stats.receivedOctets + update.octets
          /\ stats'.sentPackets = stats.sentPackets
          /\ stats'.receivedPackets = stats.receivedPackets
          /\ stats'.sentOctets = stats.sentOctets
      BY <2>1, <2>3 DEF TypeOK, Fields
    <3>2. SentWhole(stats)' /\ stats'.receivedPackets < stats'.sentPackets
      BY <2>1, <2>3, <3>1 DEF Updates, SentWhole
    <3>3. \/ update.packets = 0 /\ update.octets \in 1 .. Missing
          \/ update.packets = 1 /\ update.octets = 0 /\ Missing = 0
      BY <2>1, <2>3 DEF Updates
    <3>4. ReceivedWhole(stats)'
      BY <2>1, <3>1, <3>2, <3>3, Counters DEF Updates, ReceivedWhole, Missing
    <3>5. update.packets = 1 => Missing' = 0
      BY <2>1, <3>1, <3>3, Counters DEF Missing
    <3> QED
      BY <2>1, <2>3, <3>2, <3>3, <3>4, <3>5 DEF Updates
  <2> QED
    BY <2>2, <2>3
<1>4. SnapshotsWhole'
  BY <1>1, <1>3 DEF SnapshotInv, SnapshotsWhole, LockHeld, Updates, Consistent
<1>5. SummaryExact'
  BY <1>1 DEF SnapshotInv, Copies, NoRequestor, SummaryExact, Timing, TypeOK
<1>6. Timing'
  <2>1. UNCHANGED <<clock, startTime, since, now, end, finishedTime, client, main>>
    OBVIOUS
  <2> QED
    BY <2>1, TimingFrame DEF SnapshotInv, Calling, Ended
<1>7. Durations'
  BY DEF SnapshotInv, Calling, Durations, Timing, TypeOK
<1>8. NoRequestor'
  BY DEF SnapshotInv, Calling, NoRequestor
<1>9. Copies'
  BY <1>1 DEF SnapshotInv, Calling, Copies, Ended, LockHeld, Timing, TypeOK
<1> QED
  BY <1>1, <1>2, <1>3, <1>4, <1>5, <1>6, <1>7, <1>8, <1>9 DEF SnapshotInv

(* What is counted with the last octets of a message, and with others.     *)
LEMMA CountPacketsCases ==
  ASSUME SnapshotInv, CountPackets
  PROVE  \/ /\ client = "sent" /\ client' \in {"sending", "receiving"}
            /\ stats.sentOctets = (stats.sentPackets + 1) * ReqLen
            /\ stats' = [stats EXCEPT !.sentPackets = @ + 1]
         \/ /\ client = "sent" /\ client' = "sending"
            /\ stats' = stats /\ SentWhole(stats)
         \/ /\ client = "received" /\ client' = "receiving"
            /\ stats' = stats /\ SentWhole(stats)
         \/ /\ client = "received" /\ client' = "sending"
            /\ stats.receivedOctets = (stats.receivedPackets + 1) * RespLen
            /\ stats' = [stats EXCEPT !.receivedPackets = @ + 1]
            /\ SentWhole(stats)
<1> USE DEF CountPackets
<1>1. TypeOK /\ LockHeld /\ Updates
  BY DEF SnapshotInv, SnapshotsWhole
<1>2. client \in {"sent", "received"}
  BY <1>1 DEF LockHeld
<1>3. CASE client = "sent" /\ update.packets = 1
  <2>1. stats.sentOctets + 0 = stats.sentOctets
    BY <1>1, Counters
  <2>2. stats.sentOctets = (stats.sentPackets + 1) * ReqLen
    BY <1>1, <1>3, <2>1 DEF Updates
  <2> QED
    BY <1>3, <2>2
<1>4. CASE client = "sent" /\ update.packets # 1
  <2>1. stats.sentOctets + 0 = stats.sentOctets
    BY <1>1, Counters
  <2>2. /\ update.packets = 0 /\ stats.sentOctets # (stats.sentPackets + 1) * ReqLen
        /\ stats.sentOctets <= (stats.sentPackets + 1) * ReqLen
        /\ stats.sentOctets > stats.sentPackets * ReqLen
    BY <1>1, <1>4, <2>1 DEF Updates
  <2>3. SentWhole(stats)
    BY <1>1, <2>2, Counters, LastOctet DEF SentWhole
  <2>4. [stats EXCEPT !.sentPackets = @ + 0] = stats
    BY <1>1 DEF TypeOK, Fields
  <2> QED
    BY <1>4, <2>2, <2>3, <2>4
<1>5. CASE client = "received" /\ update.packets = 1
  <2>1. Missing = 0 /\ SentWhole(stats)
    BY <1>1, <1>5 DEF Updates
  <2>2. stats.receivedOctets = (stats.receivedPackets + 1) * RespLen
    BY <1>1, <2>1, Counters, LastOctet DEF Missing
  <2> QED
    BY <1>5, <2>1, <2>2
<1>6. CASE client = "received" /\ update.packets # 1
  <2>1. update.packets = 0 /\ SentWhole(stats)
    BY <1>1, <1>6 DEF Updates
  <2>2. [stats EXCEPT !.receivedPackets = @ + 0] = stats
    BY <1>1 DEF TypeOK, Fields
  <2> QED
    BY <1>6, <2>1, <2>2
<1> QED
  BY <1>2, <1>3, <1>4, <1>5, <1>6

(* With the packets the counters agree again.                              *)
LEMMA CountPacketsStep ==
  ASSUME SnapshotInv, CountPackets
  PROVE  SnapshotInv'
<1>1. TypeOK'
  <2>1. stats' \in [Fields -> Nat]
    BY CountPacketsCases DEF SnapshotInv, SnapshotsWhole, TypeOK, Fields
  <2> QED
    BY <2>1, CountPacketsCases DEF SnapshotInv, SnapshotsWhole, TypeOK, CountPackets, ThreadOnly,
       callVars, resultVars
<1>2. LockHeld'
  <2>1. lock = "client" /\ lock' = "free" /\ main' = main
    BY DEF CountPackets, ThreadOnly
  <2> QED
    BY <2>1 DEF SnapshotInv, LockHeld
<1>3. Updates'
  <2>1. TypeOK /\ Updates /\ LockHeld /\ lock' # "client"
    BY DEF SnapshotInv, SnapshotsWhole, CountPackets
  <2>2. client' \in {"sending", "receiving"}
    BY CountPacketsCases
  <2>3. SentWhole(stats)' /\ ReceivedWhole(stats)'
        /\ (client' = "receiving" => stats'.receivedPackets < stats'.sentPackets)
    <3>1. CASE /\ client = "sent" /\ client' \in {"sending", "receiving"}
               /\ stats.sentOctets = (stats.sentPackets + 1) * ReqLen
               /\ stats' = [stats EXCEPT !.sentPackets = @ + 1]
      <4>1. /\ stats'.sentPackets = stats.sentPackets + 1
            /\ stats'.sentOctets = stats.sentOctets
            /\ stats'.receivedPackets = stats.receivedPackets
            /\ stats'.receivedOctets = stats.receivedOctets
        BY <2>1, <3>1 DEF TypeOK, Fields
      <4>2. SentWhole(stats)'
        <5>1. (stats.sentPackets + 1 + 1) * ReqLen = (stats.sentPackets + 1) * ReqLen + ReqLen
          BY <2>1, Counters, NextMessage
        <5> QED
          BY <2>1, <3>1, <4>1, <5>1, Counters DEF SentWhole
      <4>3. ReceivedWhole(stats)' /\ stats'.receivedPackets < stats'.sentPackets
        BY <2>1, <4>1, Counters DEF Updates, ReceivedWhole
      <4> QED
        BY <4>2, <4>3
    <3>2. CASE stats' = stats /\ SentWhole(stats)
               /\ (client' = "receiving" => client = "received")
      BY <2>1, <3>2 DEF Updates, SentWhole, ReceivedWhole
    <3>3. CASE /\ client = "received" /\ client' = "sending"
               /\ stats.receivedOctets = (stats.receivedPackets + 1) * RespLen
               /\ stats' = [stats EXCEPT !.receivedPackets = @ + 1]
               /\ SentWhole(stats)
      <4>1. /\ stats'.receivedPackets = stats.receivedPackets + 1
            /\ stats'.sentOctets = stats.sentOctets
            /\ stats'.sentPackets = stats.sentPackets
            /\ stats'.receivedOctets = stats.receivedOctets
        BY <2>1, <3>3 DEF TypeOK, Fields
      <4>2. SentWhole(stats)'
        BY <3>3, <4>1 DEF SentWhole
      <4>3. ReceivedWhole(stats)'
        <5>1. (stats.receivedPackets + 1 + 1) * RespLen
                = (stats.receivedPackets + 1) * RespLen + RespLen
          BY <2>1, Counters, NextMessage
        <5>2. stats.receivedPackets < stats.sentPackets
          BY <2>1, <3>3 DEF Updates
        <5> QED
          BY <2>1, <3>3, <4>1, <5>1, <5>2, Counters DEF ReceivedWhole
      <4> QED
        BY <3>3, <4>2, <4>3
    <3> QED
      BY <3>1, <3>2, <3>3, CountPacketsCases
  <2> QED
    BY <2>1, <2>2, <2>3 DEF Updates
<1>4. SnapshotsWhole'
  <2>1. lock = "client" /\ UNCHANGED <<main, summary, lastStats, reported>>
    BY DEF CountPackets, ThreadOnly, callVars, resultVars
  <2>2. Consistent(stats)'
    BY <1>3, CountPacketsCases DEF CountPackets, Updates, Consistent
  <2> QED
    BY <1>1, <2>1, <2>2 DEF SnapshotInv, SnapshotsWhole
<1>5. SummaryExact'
  <2>1. client # "gone" /\ main' = main
    BY CountPacketsCases DEF CountPackets, ThreadOnly
  <2> QED
    BY <2>1 DEF SnapshotInv, Copies, SummaryExact
<1>6. Timing'
  <2>1. UNCHANGED <<clock, startTime, since, now, end, finishedTime, main>>
    BY DEF CountPackets, ThreadOnly, callVars, resultVars
  <2>2. Ended' = Ended
    BY CountPacketsCases DEF Ended
  <2>3. Calling' = Calling
    BY <2>1 DEF Calling
  <2> QED
    BY <2>1, <2>2, <2>3, TimingFrame DEF SnapshotInv
<1>7. Durations'
  <2>1. UNCHANGED <<main, duration, now, startTime, since, lastStatsTime>>
    BY DEF CountPackets, ThreadOnly, callVars, resultVars
  <2> QED
    BY <2>1 DEF SnapshotInv, Durations
<1>8. NoRequestor'
  <2>1. client \in {"sent", "received"} /\ requestor' = requestor
    BY CountPacketsCases DEF CountPackets
  <2> QED
    BY <2>1 DEF SnapshotInv, NoRequestor
<1>9. Copies'
  <2>1. /\ lock = "client" /\ UNCHANGED <<main, final, summary, lastStats, since, now, end>>
        /\ ~Ended /\ ~Ended'
    BY CountPacketsCases DEF CountPackets, ThreadOnly, callVars, resultVars, Ended
  <2>2. main # "copying" /\ ~final /\ main # "over"
    BY <2>1 DEF SnapshotInv, LockHeld, Copies, Ended
  <2> QED
    BY <2>1, <2>2 DEF Copies
<1> QED
  BY <1>1, <1>2, <1>3, <1>4, <1>5, <1>6, <1>7, <1>8, <1>9 DEF SnapshotInv

(* A loop that ends leaves a request or a response half counted at most.   *)
LEMMA StopStep ==
  ASSUME SnapshotInv, Stop
  PROVE  SnapshotInv'
<1> USE DEF Stop, ThreadOnly, threadVars, callVars, resultVars
<1>1. TypeOK'
  BY ClientStatisticsAssumption DEF SnapshotInv, SnapshotsWhole, Timing, TypeOK, Updates
<1>2. LockHeld'
  BY DEF SnapshotInv, LockHeld
<1>3. Updates'
  BY <1>1, ClientStatisticsAssumption DEF SnapshotInv, LockHeld, TypeOK, Updates
<1>4. SnapshotsWhole'
  BY <1>1, <1>3 DEF SnapshotInv, SnapshotsWhole, LockHeld, Updates, Consistent
<1>5. SummaryExact'
  BY <1>1 DEF SnapshotInv, Copies, NoRequestor, SummaryExact, Timing, TypeOK
<1>6. Timing'
  BY <1>1, ClientStatisticsAssumption DEF SnapshotInv, Calling, Ended, Timing, TypeOK
<1>7. Durations'
  BY DEF SnapshotInv, Calling, Durations, Timing, TypeOK
<1>8. NoRequestor'
  BY DEF SnapshotInv, Calling, NoRequestor
<1>9. Copies'
  BY <1>1 DEF SnapshotInv, Calling, Copies, Ended, LockHeld, Timing, TypeOK
<1> QED
  BY <1>1, <1>2, <1>3, <1>4, <1>5, <1>6, <1>7, <1>8, <1>9 DEF SnapshotInv

(* No snapshot under way was begun after the end.                          *)
LEMMA SetFinishedTimeStep ==
  ASSUME SnapshotInv, SetFinishedTime
  PROVE  SnapshotInv'
<1> USE DEF SetFinishedTime, ThreadOnly, threadVars, callVars, resultVars
<1>1. TypeOK'
  BY ClientStatisticsAssumption DEF SnapshotInv, SnapshotsWhole, Timing, TypeOK, Updates
<1>2. LockHeld'
  BY DEF SnapshotInv, LockHeld
<1>3. Updates'
  BY <1>1, ClientStatisticsAssumption DEF SnapshotInv, LockHeld, TypeOK, Updates
<1>4. SnapshotsWhole'
  BY <1>1, <1>3 DEF SnapshotInv, SnapshotsWhole, LockHeld, Updates, Consistent
<1>5. SummaryExact'
  BY <1>1 DEF SnapshotInv, Copies, NoRequestor, SummaryExact, Timing, TypeOK
<1>6. Timing'
  BY <1>1, ClientStatisticsAssumption DEF SnapshotInv, Calling, Ended, Timing, TypeOK
<1>7. Durations'
  BY DEF SnapshotInv, Calling, Durations, Timing, TypeOK
<1>8. NoRequestor'
  BY DEF SnapshotInv, Calling, NoRequestor
<1>9. Copies'
  <2>1. Copies /\ end' = clock /\ since' = since /\ now' = now
    BY DEF SnapshotInv
  <2>2. /\ clock \in Int /\ since \in Int /\ since <= clock /\ now \in Int
        /\ main \in {"time", "result"} => now <= clock
    <3> HIDE DEF SetFinishedTime, ThreadOnly
    <3>1. TypeOK /\ Timing
      BY DEF SnapshotInv, SnapshotsWhole
    <3>2. since \in Int /\ now \in Int
      BY <3>1, ClientStatisticsAssumption DEF TypeOK
    <3>3. clock \in Int /\ since <= clock
      BY <3>1, ClientStatisticsAssumption DEF Timing
    <3>4. main \in {"time", "result"} => now <= clock
      BY <3>1, ClientStatisticsAssumption DEF Timing, Calling
    <3> QED
      BY <3>2, <3>3, <3>4
  <2>3. ~(since' > end') /\ ~(main \in {"time", "result"} /\ now' > end') /\ ~final
    BY <2>1, <2>2 DEF Copies
  <2> QED
    BY <2>1, <2>3 DEF Copies, Ended
<1> QED
  BY <1>1, <1>2, <1>3, <1>4, <1>5, <1>6, <1>7, <1>8, <1>9 DEF SnapshotInv

(* A client that has gone has ended.                                       *)
LEMMA SendTerminatedStep ==
  ASSUME SnapshotInv, SendTerminated
  PROVE  SnapshotInv'
<1> USE DEF SendTerminated, ThreadOnly, threadVars, callVars, resultVars
<1>1. TypeOK'
  BY ClientStatisticsAssumption DEF SnapshotInv, SnapshotsWhole, Timing, TypeOK, Updates
<1>2. LockHeld'
  BY DEF SnapshotInv, LockHeld
<1>3. Updates'
  BY <1>1, ClientStatisticsAssumption DEF SnapshotInv, LockHeld, TypeOK, Updates
<1>4. SnapshotsWhole'
  BY <1>1, <1>3 DEF SnapshotInv, SnapshotsWhole, LockHeld, Updates, Consistent
<1>5. SummaryExact'
  BY <1>1 DEF SnapshotInv, Copies, NoRequestor, SummaryExact, Timing, TypeOK
<1>6. Timing'
  BY <1>1, ClientStatisticsAssumption DEF SnapshotInv, Calling, Ended, Timing, TypeOK
<1>7. Durations'
  BY DEF SnapshotInv, Calling, Durations, Timing, TypeOK
<1>8. NoRequestor'
  BY DEF SnapshotInv, Calling, NoRequestor
<1>9. Copies'
  BY <1>1 DEF SnapshotInv, Calling, Copies, Ended, LockHeld, Timing, TypeOK
<1> QED
  BY <1>1, <1>2, <1>3, <1>4, <1>5, <1>6, <1>7, <1>8, <1>9 DEF SnapshotInv

(* A call finds a clock that was never turned back.                        *)
LEMMA CallStep ==
  ASSUME SnapshotInv, Call
  PROVE  SnapshotInv'
<1> USE DEF Call, MainOnly, threadVars, callVars, resultVars
<1>1. TypeOK'
  <2>1. final' \in BOOLEAN
    OBVIOUS
  <2>2. now' \in 0 .. (Word - 1)
    BY ClientStatisticsAssumption DEF SnapshotInv, SnapshotsWhole, TypeOK, Timing
  <2>3. main' \in {"poll", "copy", "over"}
    OBVIOUS
  <2> QED
    BY <2>1, <2>2, <2>3 DEF SnapshotInv, SnapshotsWhole, TypeOK
<1>2. LockHeld'
  BY DEF SnapshotInv, LockHeld
<1>3. Updates'
  BY UpdatesFrame DEF SnapshotInv, LockHeld
<1>4. SnapshotsWhole'
  BY <1>1, <1>3 DEF SnapshotInv, SnapshotsWhole, LockHeld, Updates, Consistent
<1>5. SummaryExact'
  BY <1>1 DEF SnapshotInv, Copies, NoRequestor, SummaryExact, Timing, TypeOK
<1>6. Timing'
  BY <1>1, ClientStatisticsAssumption DEF SnapshotInv, Calling, Ended, Timing, TypeOK
<1>7. Durations'
  BY DEF SnapshotInv, Calling, Durations, Timing, TypeOK
<1>8. NoRequestor'
  BY DEF SnapshotInv, Calling, NoRequestor
<1>9. Copies'
  BY <1>1 DEF SnapshotInv, Calling, Copies, Ended, LockHeld, Timing, TypeOK
<1> QED
  BY <1>1, <1>2, <1>3, <1>4, <1>5, <1>6, <1>7, <1>8, <1>9 DEF SnapshotInv

(* A copy begins when the counters agree.                                  *)
LEMMA CopySentStep ==
  ASSUME SnapshotInv, CopySent
  PROVE  SnapshotInv'
<1> USE DEF CopySent, MainOnly, threadVars, callVars, resultVars
<1>1. TypeOK'
  <2>1. summary' \in [Fields -> Nat]
    BY DEF SnapshotInv, SnapshotsWhole, TypeOK, Fields
  <2> QED
    BY <2>1 DEF SnapshotInv, SnapshotsWhole, TypeOK
<1>2. LockHeld'
  BY DEF SnapshotInv, LockHeld
<1>3. Updates'
  BY UpdatesFrame DEF SnapshotInv, LockHeld
<1>4. SnapshotsWhole'
  BY <1>1, <1>3 DEF SnapshotInv, SnapshotsWhole, LockHeld, Updates, Consistent
<1>5. SummaryExact'
  BY <1>1 DEF SnapshotInv, Copies, NoRequestor, SummaryExact, Timing, TypeOK
<1>6. Timing'
  BY <1>1, ClientStatisticsAssumption DEF SnapshotInv, Calling, Ended, Timing, TypeOK
<1>7. Durations'
  BY DEF SnapshotInv, Calling, Durations, Timing, TypeOK
<1>8. NoRequestor'
  BY DEF SnapshotInv, Calling, NoRequestor
<1>9. Copies'
  BY <1>1 DEF SnapshotInv, Calling, Copies, Ended, LockHeld, Timing, TypeOK
<1> QED
  BY <1>1, <1>2, <1>3, <1>4, <1>5, <1>6, <1>7, <1>8, <1>9 DEF SnapshotInv

(* Nothing was counted between the two halves of a copy.                   *)
LEMMA CopyReceivedWhole ==
  ASSUME SnapshotInv, CopyReceived
  PROVE  summary' = stats /\ lock = "main" /\ stats' = stats
<1>1. lock = "main" /\ stats' = stats
  BY DEF SnapshotInv, LockHeld, CopyReceived, MainOnly
<1>2. /\ summary' \in [Fields -> Nat] /\ stats \in [Fields -> Nat]
      /\ \A f \in Fields : summary'[f] = stats[f]
  BY DEF SnapshotInv, SnapshotsWhole, TypeOK, Copies, CopyReceived, Fields
<1> QED
  BY <1>1, <1>2

(* A copy is done: the counters are what they were when it was begun.      *)
LEMMA CopyReceivedStep ==
  ASSUME SnapshotInv, CopyReceived
  PROVE  SnapshotInv'
<1> USE DEF CopyReceived, MainOnly, threadVars, callVars, resultVars
<1>1. TypeOK'
  <2>1. summary' \in [Fields -> Nat]
    BY DEF SnapshotInv, SnapshotsWhole, TypeOK, Fields
  <2> QED
    BY <2>1 DEF SnapshotInv, SnapshotsWhole, TypeOK
<1>2. LockHeld'
  BY DEF SnapshotInv, LockHeld
<1>3. Updates'
  BY UpdatesFrame DEF SnapshotInv, LockHeld
<1>4. SnapshotsWhole'
  <2>1. summary' = stats /\ lock = "main" /\ stats' = stats
    BY CopyReceivedWhole
  <2>2. Consistent(stats)
    BY <2>1 DEF SnapshotInv, Updates, Consistent
  <2>3. Consistent(summary)'
    BY <2>1, <2>2 DEF Consistent, SentWhole, ReceivedWhole
  <2> QED
    BY <1>1, <1>3, <2>3 DEF SnapshotInv, SnapshotsWhole, Updates, Consistent
<1>5. SummaryExact'
  BY <1>1 DEF SnapshotInv, Copies, NoRequestor, SummaryExact, Timing, TypeOK
<1>6. Timing'
  BY <1>1, ClientStatisticsAssumption DEF SnapshotInv, Calling, Ended, Timing, TypeOK
<1>7. Durations'
  BY DEF SnapshotInv, Calling, Durations, Timing, TypeOK
<1>8. NoRequestor'
  BY DEF SnapshotInv, Calling, NoRequestor
<1>9. Copies'
  <2>1. summary' = stats /\ main' = "time" /\ stats' = stats
    BY CopyReceivedWhole
  <2> QED
    BY <2>1 DEF SnapshotInv, Copies, Ended
<1> QED
  BY <1>1, <1>2, <1>3, <1>4, <1>5, <1>6, <1>7, <1>8, <1>9 DEF SnapshotInv

(* A duration is right unless the start is read that was not yet set when  *)
(* the call began.                                                         *)
LEMMA ReadStartTimeStep ==
  ASSUME SnapshotInv, ReadStartTime
  PROVE  SnapshotInv'
<1> USE DEF ReadStartTime, MainOnly, threadVars, callVars, resultVars
<1>1. TypeOK'
  BY ClientStatisticsAssumption DEF SnapshotInv, SnapshotsWhole, Timing, TypeOK, Updates
<1>2. LockHeld'
  BY DEF SnapshotInv, LockHeld
<1>3. Updates'
  BY UpdatesFrame DEF SnapshotInv, LockHeld
<1>4. SnapshotsWhole'
  BY <1>1, <1>3 DEF SnapshotInv, SnapshotsWhole, LockHeld, Updates, Consistent
<1>5. SummaryExact'
  BY <1>1 DEF SnapshotInv, Copies, NoRequestor, SummaryExact, Timing, TypeOK
<1>6. Timing'
  BY <1>1, ClientStatisticsAssumption DEF SnapshotInv, Calling, Ended, Timing, TypeOK
<1>7. Durations'
  BY DEF SnapshotInv, Calling, Durations, Timing, TypeOK
<1>8. NoRequestor'
  BY DEF SnapshotInv, Calling, NoRequestor
<1>9. Copies'
  BY <1>1 DEF SnapshotInv, Calling, Copies, Ended, LockHeld, Timing, TypeOK
<1> QED
  BY <1>1, <1>2, <1>3, <1>4, <1>5, <1>6, <1>7, <1>8, <1>9 DEF SnapshotInv

(* What was reported before and what is reported now add up.               *)
LEMMA ResultReported ==
  ASSUME SnapshotInv, Result
  PROVE  reported' = summary /\ lastStats' = summary
<1>1. /\ summary \in [Fields -> Nat] /\ lastStats \in [Fields -> Nat]
      /\ reported = lastStats
  BY DEF SnapshotInv, SnapshotsWhole, TypeOK
<1>2. reported' = [f \in Fields |-> lastStats[f] + (summary[f] - lastStats[f])]
  BY <1>1 DEF Result, Plus, Minus
<1>3. \A f \in Fields : lastStats[f] + (summary[f] - lastStats[f]) = summary[f]
  BY <1>1
<1> QED
  BY <1>1, <1>2, <1>3 DEF Result

(* What is reported is what was copied, after what was reported before.    *)
LEMMA ResultStep ==
  ASSUME SnapshotInv, Result
  PROVE  SnapshotInv'
<1> USE DEF Result, MainOnly, threadVars, callVars, resultVars
<1>1. TypeOK'
  <2>1. reported' = summary /\ lastStats' = summary
    BY ResultReported
  <2>2. summary' \in [Fields -> Nat]
    BY DEF Zero
  <2>3. 0 \in 0 .. (Word - 1)
    BY ClientStatisticsAssumption
  <2> QED
    BY <2>1, <2>2, <2>3 DEF SnapshotInv, SnapshotsWhole, TypeOK
<1>2. LockHeld'
  BY DEF SnapshotInv, LockHeld
<1>3. Updates'
  BY UpdatesFrame DEF SnapshotInv, LockHeld
<1>4. SnapshotsWhole'
  <2>1. reported' = summary /\ lastStats' = summary
    BY ResultReported
  <2>2. Consistent(lastStats)'
    BY <2>1 DEF SnapshotInv, SnapshotsWhole, Consistent, SentWhole, ReceivedWhole
  <2> QED
    BY <1>1, <1>3, <2>1, <2>2 DEF SnapshotsWhole, Updates, Consistent
<1>5. SummaryExact'
  <2>1. SUFFICES ASSUME final
                 PROVE  SummaryExact'
    BY DEF SummaryExact
  <2>2. Ended /\ summary = stats /\ Timing
    <3>1. client = "gone" /\ Timing /\ Copies
      BY <2>1 DEF SnapshotInv, Copies
    <3>2. Ended
      BY <3>1 DEF Ended
    <3> QED
      BY <2>1, <3>1, <3>2 DEF Copies
  <2>3. printed'.summary = stats
    BY <2>2
  <2>4. startTime \in Int /\ end \in Int /\ finishedTime = end - startTime
    BY <2>2, ClientStatisticsAssumption DEF SnapshotInv, SnapshotsWhole, Timing, TypeOK
  <2>5. end # startTime => finishedTime # 0
    BY <2>4
  <2>6. end # startTime => printed'.duration = end - startTime
    BY <2>4, <2>5
  <2> QED
    BY <2>3, <2>6 DEF SummaryExact
<1>6. Timing'
  BY <1>1, ClientStatisticsAssumption DEF SnapshotInv, Calling, Ended, Timing, TypeOK
<1>7. Durations'
  BY <1>1, ClientStatisticsAssumption DEF SnapshotInv, Calling, Durations, Timing, TypeOK
<1>8. NoRequestor'
  BY DEF SnapshotInv, Calling, NoRequestor
<1>9. Copies'
  BY <1>1 DEF SnapshotInv, Calling, Copies, Ended, LockHeld, Timing, TypeOK
<1> QED
  BY <1>1, <1>2, <1>3, <1>4, <1>5, <1>6, <1>7, <1>8, <1>9 DEF SnapshotInv

(* Time goes by.                                                           *)
LEMMA TickStep ==
  ASSUME SnapshotInv, Tick
  PROVE  SnapshotInv'
<1> USE DEF Tick, vars, threadVars, callVars, resultVars
<1>1. TypeOK'
  BY ClientStatisticsAssumption DEF SnapshotInv, SnapshotsWhole, Timing, TypeOK, Updates
<1>2. LockHeld'
  BY DEF SnapshotInv, LockHeld
<1>3. Updates'
  BY UpdatesFrame DEF SnapshotInv, LockHeld
<1>4. SnapshotsWhole'
  BY <1>1, <1>3 DEF SnapshotInv, SnapshotsWhole, LockHeld, Updates, Consistent
<1>5. SummaryExact'
  BY <1>1 DEF SnapshotInv, Copies, NoRequestor, SummaryExact, Timing, TypeOK
<1>6. Timing'
  <2>1. clock' \in Boot .. MaxClock /\ clock <= clock' /\ clock \in Int /\ clock' \in Int
    BY ClientStatisticsAssumption DEF SnapshotInv, Timing
  <2>2. /\ Timing /\ startTime \in Int /\ since \in Int /\ now \in Int /\ end \in Int
        /\ Boot \in Int
    BY ClientStatisticsAssumption DEF SnapshotInv, SnapshotsWhole, TypeOK
  <2>3. Calling' = Calling /\ Ended' = Ended
    BY DEF Calling, Ended
  <2>4. startTime <= clock' /\ since <= clock'
    BY <2>1, <2>2 DEF Timing
  <2>5. Calling => now \in Boot .. clock' /\ since <= now
    BY <2>1, <2>2 DEF Timing
  <2>6. Ended => end \in startTime .. clock'
    BY <2>1, <2>2 DEF Timing
  <2> QED
    BY <2>1, <2>2, <2>3, <2>4, <2>5, <2>6 DEF Timing
<1>7. Durations'
  BY DEF SnapshotInv, Calling, Durations, Timing, TypeOK
<1>8. NoRequestor'
  BY DEF SnapshotInv, Calling, NoRequestor
<1>9. Copies'
  BY <1>1 DEF SnapshotInv, Calling, Copies, Ended, LockHeld, Timing, TypeOK
<1> QED
  BY <1>1, <1>2, <1>3, <1>4, <1>5, <1>6, <1>7, <1>8, <1>9 DEF SnapshotInv

-----------------------------------------------------------------------------
(* At first nothing is counted.                                            *)
LEMMA InitSnapshotInv == Init => SnapshotInv
<1>1. SUFFICES ASSUME Init
               PROVE  SnapshotInv
  OBVIOUS
<1>2. /\ client = "connecting" /\ requestor = FALSE /\ lock = "free" /\ main = "poll"
      /\ final = FALSE /\ startTime = 0 /\ finishedTime = 0 /\ end = 0 /\ now = 0
      /\ duration = 0 /\ lastStatsTime = 0 /\ since = 0 /\ clock = Boot
      /\ stats = Zero /\ summary = Zero /\ lastStats = Zero /\ reported = Zero
  BY <1>1 DEF Init
<1>3. TypeOK
  <2>1. Zero \in [Fields -> Nat]
    BY DEF Zero
  <2>2. 0 \in 0 .. (Word - 1)
    BY ClientStatisticsAssumption
  <2> QED
    BY <1>2, <2>1, <2>2 DEF TypeOK
<1>4. SentWhole(Zero) /\ ReceivedWhole(Zero)
  <2>1. /\ Zero.sentOctets = 0 /\ Zero.sentPackets = 0
        /\ Zero.receivedOctets = 0 /\ Zero.receivedPackets = 0
    BY DEF Zero, Fields
  <2>2. 0 * ReqLen = 0 /\ (0 + 1) * ReqLen = ReqLen /\ ReqLen \in Nat \ {0}
    BY ClientStatisticsAssumption
  <2>3. 0 * RespLen = 0 /\ (0 + 1) * RespLen = RespLen /\ RespLen \in Nat \ {0}
    BY ClientStatisticsAssumption
  <2>4. 0 \in 0 .. ReqLen - 1 /\ 0 \in 0 .. RespLen
    BY <2>2, <2>3
  <2>5. SentWhole(Zero)
    BY <2>1, <2>2, <2>4 DEF SentWhole
  <2>6. ReceivedWhole(Zero)
    BY <2>1, <2>3, <2>4 DEF ReceivedWhole
  <2> QED
    BY <2>5, <2>6
<1>5. SnapshotsWhole
  BY <1>2, <1>3, <1>4 DEF SnapshotsWhole, Consistent
<1>6. SummaryExact /\ LockHeld /\ Copies /\ Durations
  BY <1>2 DEF SummaryExact, LockHeld, Copies, Durations, Ended
<1>7. NoRequestor
  BY <1>2 DEF NoRequestor, Calling
<1>8. Timing
  <2>1. ~Calling /\ ~Ended
    BY <1>2 DEF Calling, Ended
  <2>2. Boot \in Boot .. MaxClock /\ 0 <= Boot
    BY ClientStatisticsAssumption
  <2> QED
    BY <1>2, <2>1, <2>2 DEF Timing
<1>9. Updates
  BY <1>2, <1>4 DEF Updates
<1> QED
  BY <1>5, <1>6, <1>7, <1>8, <1>9 DEF SnapshotInv

(* Nothing changes when everything stays as it is.                         *)
LEMMA StutterStep ==
  ASSUME SnapshotInv, UNCHANGED vars
  PROVE  SnapshotInv'
<1>1. UNCHANGED <<client, requestor, startTime, finishedTime, end, update, stats, lock>>
      /\ UNCHANGED <<main, final, now, duration, summary, lastStats, lastStatsTime>>
      /\ UNCHANGED <<printed, reported, since, clock>>
  BY DEF vars, threadVars, callVars, resultVars
<1>2. Updates'
  BY <1>1, UpdatesFrame DEF SnapshotInv
<1>3. Timing'
  BY <1>1, TimingFrame DEF SnapshotInv, Calling, Ended
<1>4. TypeOK'
  BY <1>1 DEF SnapshotInv, SnapshotsWhole, TypeOK
<1>5. SnapshotsWhole'
  BY <1>1, <1>4 DEF SnapshotInv, SnapshotsWhole, Consistent, SentWhole, ReceivedWhole
<1>6. SummaryExact' /\ LockHeld' /\ Copies' /\ NoRequestor' /\ Durations'
  BY <1>1 DEF SnapshotInv, SummaryExact, LockHeld, Copies, NoRequestor, Durations, Calling, Ended
<1> QED
  BY <1>2, <1>3, <1>5, <1>6 DEF SnapshotInv

(* The inductive invariant of the counters, the copies and the times.      *)
THEOREM Invariant == Spec => []SnapshotInv
<1>1. SnapshotInv /\ [Next]_vars => SnapshotInv'
  BY ConnectStep, StartStep, SendStep, ReceiveStep, CountOctetsStep, CountPacketsStep,
     StopStep, SetFinishedTimeStep, SendTerminatedStep, CallStep, CopySentStep,
     CopyReceivedStep, ReadStartTimeStep, ResultStep, TickStep, StutterStep
     DEF Next, Thread, Main, Over
<1> QED
  BY InitSnapshotInv, <1>1, PTL DEF Spec

(* No snapshot is torn and what the statuses report adds up                *)
(* (cRequestor::getStats, updateTransmitStats, updateReceiveStats).        *)
THEOREM Snapshots == Spec => []SnapshotsWhole
<1>1. SnapshotInv => SnapshotsWhole
  BY DEF SnapshotInv
<1> QED
  BY Invariant, <1>1, PTL

(* The summary is that of the whole run, whenever it is printed            *)
(* (cClient::statistics, cClient::threadFunc).                             *)
THEOREM Summary == Spec => []SummaryExact
<1>1. SnapshotInv => SummaryExact
  BY DEF SnapshotInv
<1> QED
  BY Invariant, <1>1, PTL

(* Only a status that is returned reports anything.                        *)
LEMMA OnlyResultReports ==
  ASSUME [Next]_vars, reported' # reported
  PROVE  Result
BY DEF Next, Thread, Main, Over, Connect, Start, Send, Receive, CountOctets, CountPackets,
       Stop, SetFinishedTime, SendTerminated, Call, CopySent, CopyReceived,
       ReadStartTime, Tick, ThreadOnly, MainOnly, resultVars, vars

(* A period that reports something is that of a client which had not ended *)
(* when the last one ended.                                                *)
LEMMA PeriodSane ==
  ASSUME SnapshotInv, Result, reported' # reported,
         now > startTime, since = 0 \/ since > startTime
  PROVE  printed'.period <= clock - (IF since = 0 THEN startTime ELSE since)
<1> DEFINE last == IF since = 0 THEN startTime ELSE since
           d    == IF finishedTime # 0 THEN finishedTime ELSE duration
<1>1. TypeOK /\ Timing /\ Durations /\ Copies /\ SnapshotsWhole
  BY DEF SnapshotInv, SnapshotsWhole
<1>2. /\ now \in Int /\ since \in Nat /\ startTime \in Nat /\ end \in Nat
      /\ clock \in Int /\ Word \in Nat /\ clock < Word /\ since <= now /\ now <= clock
      /\ startTime <= clock /\ main = "result"
  <2>1. main = "result"
    BY DEF Result
  <2>2. /\ now \in Nat /\ since \in Nat /\ startTime \in Nat /\ end \in Nat
        /\ Word \in Nat /\ MaxClock < Word
    BY <1>1, ClientStatisticsAssumption DEF TypeOK
  <2>3. clock \in Boot .. MaxClock /\ startTime <= clock
    BY <1>1 DEF Timing
  <2>4. now \in Boot .. clock /\ since <= now
    BY <1>1, <2>1 DEF Timing, Calling
  <2> QED
    BY <2>1, <2>2, <2>3, <2>4, ClientStatisticsAssumption
<1>3. duration = now - startTime
  <2>1. duration = (now - startTime) % Word
    BY <1>1, <1>2 DEF Durations
  <2>2. now - startTime \in 0 .. (Word - 1)
    BY <1>2
  <2> QED
    BY <2>1, <2>2, Wraps
<1>4. lastStatsTime = last - startTime
  <2>1. CASE since = 0
    BY <1>1, <1>2, <2>1 DEF Durations
  <2>2. CASE since # 0
    <3>1. lastStatsTime = (since - startTime) % Word
      BY <1>1, <1>2, <2>2 DEF Durations
    <3>2. since - startTime \in 0 .. (Word - 1)
      BY <1>2, <2>2
    <3> QED
      BY <2>2, <3>1, <3>2, Wraps
  <2> QED
    BY <2>1, <2>2
<1>5. printed'.period = (d - lastStatsTime) % Word
  BY DEF Result
<1>6. CASE finishedTime = 0
  <2>1. d - lastStatsTime = now - last /\ now - last \in 0 .. (Word - 1)
    BY <1>2, <1>3, <1>4, <1>6
  <2>2. printed'.period = now - last
    BY <1>5, <2>1, Wraps
  <2> QED
    BY <1>2, <2>2
<1>7. CASE finishedTime # 0
  <2>1. Ended /\ finishedTime = end - startTime /\ end \in startTime .. clock
    BY <1>1, <1>7 DEF Timing
  <2>2. ~(since > end)
    <3>1. SUFFICES ASSUME since > end
                   PROVE  FALSE
      OBVIOUS
    <3>2. now > end
      BY <1>2, <3>1
    <3>3. lastStats = stats /\ summary = stats
      BY <1>1, <1>2, <2>1, <3>1, <3>2 DEF Copies
    <3>4. reported = lastStats
      BY <1>1 DEF SnapshotsWhole
    <3> QED
      BY <3>3, <3>4, ResultReported
  <2>3. d - lastStatsTime = end - last /\ end - last \in 0 .. (Word - 1)
    BY <1>2, <1>4, <1>7, <2>1, <2>2
  <2>4. printed'.period = end - last
    BY <1>5, <2>3, Wraps
  <2> QED
    BY <1>2, <2>1, <2>4
<1> QED
  BY <1>6, <1>7

(* What a status reports is divided by a time that went by since the last  *)
(* one, unless one of the two was asked for while the client was starting  *)
(* (cClient::statistics).                                                  *)
THEOREM Rates == Spec => RateSane
<1>1. SnapshotInv /\ [Next]_vars =>
        [/\ reported' # reported
         /\ now > startTime /\ (since = 0 \/ since > startTime)
         => printed'.period <= clock - (IF since = 0 THEN startTime ELSE since)]_vars
  BY OnlyResultReports, PeriodSane
<1> QED
  BY Invariant, <1>1, PTL DEF Spec, RateSane
=============================================================================
