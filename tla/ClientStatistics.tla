-------------------------- MODULE ClientStatistics --------------------------
(***************************************************************************)
(* The statistics of one client: its thread counts octets and packets      *)
(* under m_statsLock while the main thread takes snapshots to print them.  *)
(* The lock protects the counters only: m_requestor, m_startTime and       *)
(* m_finishedTime are read while the thread may be about to set them, and  *)
(* durations are unsigned milliseconds.                                    *)
(***************************************************************************)
EXTENDS Integers

CONSTANTS
  ReqLen,     (* octets of a request                                       *)
  RespLen,    (* octets of a response                                      *)
  Jobs,       (* bound: jobs of the client                                 *)
  Boot,       (* steady_clock when the program starts: its epoch is 0      *)
  MaxClock,   (* bound: steady_clock stops here                            *)
  Word        (* the values of unsigned                                    *)

ASSUME ClientStatisticsAssumption ==
  /\ ReqLen \in Nat \ {0} /\ RespLen \in Nat \ {0} /\ Jobs \in Nat
  /\ Boot \in Nat \ {0} /\ MaxClock \in Nat /\ Word \in Nat
  /\ Boot <= MaxClock /\ MaxClock < Word

VARIABLES
  client,     (* where the client thread is                                *)
  requestor,  (* m_requestor is set                                        *)
  startTime,  (* m_startTime, the epoch until it is set                    *)
  finishedTime, end, (* m_finishedTime, and the time it was taken from     *)
  stats,      (* m_stats                                                   *)
  lock,       (* who holds m_statsLock                                     *)
  update,     (* the octets and packets about to be counted                *)
  main,       (* where the main thread is                                  *)
  final,      (* it prints the summary, not a status                       *)
  now, duration, summary, (* in statistics()                               *)
  lastStats, lastStatsTime, (* m_lastStats, m_lastStatsTime                *)
  printed,    (* what statistics() returned last                           *)
  reported,   (* the sum of all deltas returned                            *)
  since,      (* when the period of the next status begins                 *)
  clock       (* steady_clock in milliseconds                              *)

threadVars == <<client, requestor, startTime, finishedTime, end, update>>
resultVars == <<lastStats, lastStatsTime, printed, reported, since>>
callVars   == <<final, now, duration, summary>>
vars == <<threadVars, stats, lock, main, callVars, resultVars, clock>>

Fields == {"sentPackets", "sentOctets", "receivedPackets", "receivedOctets"}
Zero   == [f \in Fields |-> 0]

Plus(a, b)  == [f \in Fields |-> a[f] + b[f]]
Minus(a, b) == [f \in Fields |-> a[f] - b[f]]
-----------------------------------------------------------------------------
(***************************************************************************)
(* cClient::threadFunc.                                                    *)
(***************************************************************************)

ThreadOnly == UNCHANGED <<main, callVars, resultVars, clock>>

(* The connection is there and the requestor is made, or it failed.        *)
Connect ==
  /\ client = "connecting"
  /\ \/ client' = "connected" /\ requestor' = TRUE
     \/ client' = "ending" /\ UNCHANGED requestor
  /\ UNCHANGED <<startTime, finishedTime, end, stats, lock, update>> /\ ThreadOnly

(* getpeername may throw: m_startTime is then never set.                   *)
Start ==
  /\ client = "connected"
  /\ \/ client' = "sending" /\ startTime' = clock
     \/ client' = "ending" /\ UNCHANGED startTime
  /\ UNCHANGED <<requestor, finishedTime, end, stats, lock, update>> /\ ThreadOnly

(* A piece was sent, and is the last of the request when all is sent.      *)
Send ==
  /\ client = "sending" /\ stats.sentPackets < Jobs
  /\ \E n \in 1 .. ((stats.sentPackets + 1) * ReqLen - stats.sentOctets) :
       update' = [octets |-> n,
                  packets |-> IF stats.sentOctets + n = (stats.sentPackets + 1) * ReqLen
                              THEN 1 ELSE 0]
  /\ client' = "sent"
  /\ UNCHANGED <<requestor, startTime, finishedTime, end, stats, lock>> /\ ThreadOnly

(* What the response still lacks; it is counted when it is there.          *)
Missing == (stats.receivedPackets + 1) * RespLen - stats.receivedOctets

Receive ==
  /\ client = "receiving"
  /\ IF Missing > 0
     THEN \E n \in 1 .. Missing : update' = [octets |-> n, packets |-> 0]
     ELSE update' = [octets |-> 0, packets |-> 1]
  /\ client' = "received"
  /\ UNCHANGED <<requestor, startTime, finishedTime, end, stats, lock>> /\ ThreadOnly

(* updateTransmitStats and updateReceiveStats: lock, octets, ...           *)
CountOctets ==
  /\ lock = "free" /\ client \in {"sent", "received"}
  /\ lock' = "client"
  /\ stats' = IF client = "sent"
              THEN [stats EXCEPT !.sentOctets = @ + update.octets]
              ELSE [stats EXCEPT !.receivedOctets = @ + update.octets]
  /\ UNCHANGED threadVars /\ ThreadOnly

(* ... packets, unlock.  A request may ask for no response.                *)
CountPackets ==
  /\ lock = "client"
  /\ lock' = "free"
  /\ update' = [octets |-> 0, packets |-> 0]
  /\ IF client = "sent"
     THEN /\ stats' = [stats EXCEPT !.sentPackets = @ + update.packets]
          /\ client' \in IF update.packets = 1 THEN {"sending", "receiving"} ELSE {"sending"}
     ELSE /\ stats' = [stats EXCEPT !.receivedPackets = @ + update.packets]
          /\ client' = IF update.packets = 1 THEN "sending" ELSE "receiving"
  /\ UNCHANGED <<requestor, startTime, finishedTime, end>> /\ ThreadOnly

(* The jobs are done, or an exception ends the loop.                       *)
Stop ==
  /\ client \in {"sending", "receiving"}
  /\ client' = "ending"
  /\ UNCHANGED <<requestor, startTime, finishedTime, end, stats, lock, update>> /\ ThreadOnly

SetFinishedTime ==
  /\ client = "ending"
  /\ finishedTime' = (clock - startTime) % Word /\ end' = clock
  /\ client' = "ended"
  /\ UNCHANGED <<requestor, startTime, stats, lock, update>> /\ ThreadOnly

(* Mutation: the event is sent before m_finishedTime is set.               *)
SendTerminatedFirst ==
  /\ client = "ending"
  /\ client' = "gone"
  /\ UNCHANGED <<requestor, startTime, finishedTime, end, stats, lock, update>> /\ ThreadOnly

SendTerminated ==
  /\ client = "ended"
  /\ client' = "gone"
  /\ UNCHANGED <<requestor, startTime, finishedTime, end, stats, lock, update>> /\ ThreadOnly
-----------------------------------------------------------------------------
(***************************************************************************)
(* cClient::statistics, called by the main thread for every status, and    *)
(* for the summary when the client has sent its event.                     *)
(***************************************************************************)

MainOnly == UNCHANGED <<threadVars, stats, clock>>

(* Without a requestor it returns zeros.                                   *)
Call ==
  /\ main = "poll"
  /\ final' \in (IF client = "gone" THEN BOOLEAN ELSE {FALSE})
  /\ IF requestor
     THEN /\ now' = clock
          /\ main' = "copy"
          /\ UNCHANGED printed
     ELSE /\ printed' = [delta |-> Zero, summary |-> Zero, period |-> 0, duration |-> 0]
          /\ main' = IF final' THEN "over" ELSE "poll"
          /\ UNCHANGED now
  /\ UNCHANGED <<lock, duration, summary, lastStats, lastStatsTime, reported, since>> /\ MainOnly

(* Mutation: the statistics are copied without the lock.                   *)
CopySentUnlocked ==
  /\ main = "copy"
  /\ main' = "copying"
  /\ summary' = [summary EXCEPT !.sentPackets = stats.sentPackets,
                                !.sentOctets = stats.sentOctets]
  /\ UNCHANGED <<lock, final, now, duration, resultVars>> /\ MainOnly

(* getStats: lock, the counters of what was sent, ...                      *)
CopySent ==
  /\ main = "copy" /\ lock = "free"
  /\ main' = "copying" /\ lock' = "main"
  /\ summary' = [summary EXCEPT !.sentPackets = stats.sentPackets,
                                !.sentOctets = stats.sentOctets]
  /\ UNCHANGED <<final, now, duration, resultVars>> /\ MainOnly

(* ... of what was received, unlock.                                       *)
CopyReceived ==
  /\ main = "copying"
  /\ main' = "time" /\ lock' = "free"
  /\ summary' = [summary EXCEPT !.receivedPackets = stats.receivedPackets,
                                !.receivedOctets = stats.receivedOctets]
  /\ UNCHANGED <<final, now, duration, resultVars>> /\ MainOnly

(* Mutation: the time is taken when the snapshot is, not before it.        *)
ReadStartTimeLate ==
  /\ main = "time"
  /\ main' = "result"
  /\ duration' = (clock - startTime) % Word
  /\ UNCHANGED <<lock, final, now, summary, lastStats, lastStatsTime, printed,
                 reported, since>> /\ MainOnly

(* m_startTime is read; it may be set only after now was.                  *)
ReadStartTime ==
  /\ main = "time"
  /\ main' = "result"
  /\ duration' = (now - startTime) % Word
  /\ UNCHANGED <<lock, final, now, summary, lastStats, lastStatsTime, printed,
                 reported, since>> /\ MainOnly

(* m_finishedTime is read: it replaces the duration once it is not 0.      *)
Result ==
  /\ main = "result"
  /\ LET d == IF finishedTime # 0 THEN finishedTime ELSE duration
         delta == Minus(summary, lastStats)
     IN /\ printed' = [delta |-> delta, summary |-> summary,
                       period |-> (d - lastStatsTime) % Word, duration |-> d]
        /\ reported' = Plus(reported, delta)
  /\ lastStats' = summary
  /\ lastStatsTime' = duration
  /\ since' = now
  /\ main' = IF final THEN "over" ELSE "poll"
  /\ final' = FALSE /\ now' = 0 /\ duration' = 0 /\ summary' = Zero
  /\ UNCHANGED lock /\ MainOnly

Over == main = "over" /\ UNCHANGED vars

Tick ==
  /\ clock < MaxClock
  /\ clock' = clock + 1
  /\ UNCHANGED <<threadVars, stats, lock, main, callVars, resultVars>>
-----------------------------------------------------------------------------
Init ==
  /\ client = "connecting" /\ requestor = FALSE
  /\ startTime = 0 /\ finishedTime = 0 /\ end = 0
  /\ stats = Zero /\ lock = "free" /\ update = [octets |-> 0, packets |-> 0]
  /\ main = "poll" /\ final = FALSE
  /\ now = 0 /\ duration = 0 /\ summary = Zero
  /\ lastStats = Zero /\ lastStatsTime = 0
  /\ printed = [delta |-> Zero, summary |-> Zero, period |-> 0, duration |-> 0]
  /\ reported = Zero /\ since = 0
  /\ clock = Boot

Thread == \/ Connect \/ Start \/ Send \/ Receive \/ CountOctets \/ CountPackets
          \/ Stop \/ SetFinishedTime \/ SendTerminated

Main == Call \/ CopySent \/ CopyReceived \/ ReadStartTime \/ Result

Next == Thread \/ Main \/ Over \/ Tick

Spec == Init /\ [][Next]_vars
-----------------------------------------------------------------------------
(***************************************************************************)
(* Properties.                                                             *)
(***************************************************************************)

TypeOK ==
  /\ client \in {"connecting", "connected", "sending", "sent", "receiving",
                 "received", "ending", "ended", "gone"}
  /\ requestor \in BOOLEAN /\ final \in BOOLEAN
  /\ lock \in {"free", "client", "main"}
  /\ main \in {"poll", "copy", "copying", "time", "result", "over"}
  /\ \A s \in {stats, summary, lastStats, reported} : s \in [Fields -> Nat]
  /\ \A t \in {startTime, finishedTime, end, now, duration, lastStatsTime, since} :
       t \in 0 .. (Word - 1)

(* The counters as they are between two updates of them.                   *)
SentWhole(s) ==
  s.sentOctets \in s.sentPackets * ReqLen .. (s.sentPackets + 1) * ReqLen - 1

ReceivedWhole(s) ==
  /\ s.receivedOctets \in s.receivedPackets * RespLen .. (s.receivedPackets + 1) * RespLen
  /\ s.receivedPackets <= s.sentPackets
  /\ s.receivedOctets > s.receivedPackets * RespLen => s.receivedPackets < s.sentPackets

Consistent(s) == SentWhole(s) /\ ReceivedWhole(s)

(* A snapshot is never torn, whenever it is taken: the packets agree with  *)
(* the octets, no response is counted before its request, and what the     *)
(* statuses reported adds up (client.cpp:85, protocol.cpp:90).             *)
SnapshotsWhole ==
  /\ TypeOK
  /\ lock = "free" => Consistent(stats)
  /\ main \in {"time", "result"} => Consistent(summary)
  /\ Consistent(lastStats) /\ reported = lastStats

(* What was counted since the last status is divided by a time that went   *)
(* by since then: the unsigned period wraps around after the client ended, *)
(* but nothing is counted then.  The exception is a snapshot between the   *)
(* assignments of m_requestor and m_startTime: it spoils its own period    *)
(* and the next one (client.cpp:81).                                       *)
RateSane ==
  [][/\ reported' # reported
     /\ now > startTime /\ (since = 0 \/ since > startTime)
     => printed'.period <= clock - (IF since = 0 THEN startTime ELSE since)]_vars

(* The summary is that of the whole run, however late it is printed: all   *)
(* that was counted, and the time until the client ended unless that was   *)
(* less than a millisecond (client.cpp:94, 155).                           *)
SummaryExact ==
  main = "over" =>
    /\ printed.summary = stats
    /\ startTime # 0 /\ end # startTime => printed.duration = end - startTime
-----------------------------------------------------------------------------
(***************************************************************************)
(* What makes them hold from step to step.                                 *)
(***************************************************************************)

Calling == main \in {"copy", "copying", "time", "result"}
Ended   == client \in {"ended", "gone"}

(* The clock goes on, and every time that was taken from it is behind it.  *)
Timing ==
  /\ clock \in Boot .. MaxClock
  /\ startTime <= clock /\ since <= clock
  /\ Calling => now \in Boot .. clock /\ since <= now
  /\ IF Ended THEN /\ end \in startTime .. clock
                   /\ finishedTime = end - startTime
              ELSE finishedTime = 0 /\ end = 0

(* A duration counts from m_startTime, unless that was set after it.       *)
Durations ==
  /\ main = "result" => duration = (now - startTime) % Word \/ now <= startTime
  /\ IF since = 0 THEN lastStatsTime = 0
                  ELSE lastStatsTime = (since - startTime) % Word \/ since <= startTime

(* Without a requestor nothing is counted and nobody asks.                 *)
NoRequestor ==
  ~requestor => /\ client \in {"connecting", "ending", "ended", "gone"}
                /\ startTime = 0 /\ stats = Zero
                /\ ~Calling

(* Who holds the lock.                                                     *)
LockHeld ==
  /\ lock = "main" <=> main = "copying"
  /\ lock = "client" => client \in {"sent", "received"}

(* What the client counts next: the last piece of a message is what makes  *)
(* it whole.                                                               *)
Updates ==
  /\ client \in {"receiving", "received"} => stats.receivedPackets < stats.sentPackets
  /\ client = "sent" =>
       /\ IF lock = "client" THEN stats.sentOctets > stats.sentPackets * ReqLen
                             ELSE update.octets \in Nat \ {0}
       /\ LET sent == stats.sentOctets + IF lock = "client" THEN 0 ELSE update.octets
              all  == (stats.sentPackets + 1) * ReqLen
          IN sent <= all /\ update.packets = IF sent = all THEN 1 ELSE 0
  /\ client = "received" =>
       \/ /\ update.packets = 0
          /\ lock # "client" => update.octets \in 1 .. Missing
       \/ update.packets = 1 /\ update.octets = 0 /\ Missing = 0
  /\ lock # "client" \/ client = "received" => SentWhole(stats)
  /\ ReceivedWhole(stats)

(* What has been copied is still so when the client can count no more.     *)
Copies ==
  /\ main = "copying" => /\ summary.sentPackets = stats.sentPackets
                         /\ summary.sentOctets = stats.sentOctets
  /\ final => client = "gone"
  /\ main \in {"time", "result"} /\ Ended /\ (final \/ now > end) => summary = stats
  /\ Ended /\ since > end => lastStats = stats
  /\ main = "over" => client = "gone"

(* The parts of the inductive invariant.                                   *)
SnapshotInv ==
  /\ SnapshotsWhole /\ SummaryExact
  /\ Timing /\ Durations /\ NoRequestor /\ LockHeld /\ Updates /\ Copies
=============================================================================
