------------------------- MODULE ApplicationProofs --------------------------
(***************************************************************************)
(* The end of the client side, for any number of clients, any running time *)
(* and any status interval: LoopInv of Application is inductive.           *)
(***************************************************************************)
EXTENDS Application, FiniteSetTheorems, TLAPS

(* The constants are what the run was started with.                        *)
LEMMA Constants ==
  /\ IsFiniteSet(Clients) /\ Time \in Nat /\ Status \in Nat /\ Replies \in BOOLEAN
BY ApplicationAssumption

(* What the clock and the time differ by, a second later.                  *)
LEMMA SecondLater ==
  ASSUME NEW t \in Nat, NEW r \in Int, NEW k \in Nat, NEW c \in Nat, NEW d \in Nat,
         NEW e \in Nat, k <= r, t - r + k - c <= e, d >= c - 1
  PROVE  t - r + k - d <= t /\ t - r + k - d <= e + 1
OBVIOUS

(* The time is over when nothing of it remains.                            *)
LEMMA NothingRemains ==
  ASSUME NEW t \in Nat, NEW r \in 0 .. t, NEW e \in 0 .. t, t - r <= e, r <= 0
  PROVE  e = t
OBVIOUS

(* A clock that was just set has run nothing off.                          *)
LEMMA JustSet ==
  ASSUME NEW t \in Nat, NEW r \in 0 .. t, NEW k \in Nat, NEW e \in Nat, t - r <= e
  PROVE  t - r + k - k <= e
OBVIOUS

(* The clients whose event is still to come.                               *)
Remain == {c \in Clients : client[c] # "gone"}

CountFinite ==
  /\ IsFiniteSet(Remain) /\ Cardinality(Remain) \in Nat
  /\ Cardinality(Remain) = 0 <=> \A c \in Clients : client[c] = "gone"
  /\ CountsEveryEnd <=> running = Cardinality(Remain) + events

(* The clients that have not ended are finitely many ...                   *)
LEMMA CountNow == CountFinite
<1>1. IsFiniteSet(Remain)
  BY Constants, FS_Subset DEF Remain
<1>2. Cardinality(Remain) \in Nat /\ (Cardinality(Remain) = 0 <=> Remain = {})
  BY <1>1, FS_CardinalityType, FS_EmptySet
<1>3. Remain = {} <=> \A c \in Clients : client[c] = "gone"
  BY DEF Remain
<1>4. CountsEveryEnd <=> running = Cardinality(Remain) + events
  BY DEF CountsEveryEnd, Remain
<1> QED
  BY <1>1, <1>2, <1>3, <1>4 DEF CountFinite

(* ... after a step, too.                                                  *)
LEMMA CountNext == CountFinite'
BY CountNow, PTL

(* At first every client is connecting and the clock stands at its first   *)
(* interval.                                                               *)
LEMMA InitInvariant == Init => LoopInv
<1> SUFFICES ASSUME Init PROVE LoopInv
  OBVIOUS
<1>1. FirstTicks \in Nat /\ (Time > 0 => FirstTicks = Lesser(Time, Status))
      /\ (Time = 0 => FirstTicks = Status)
  BY Constants DEF FirstTicks, Lesser
<1>2. Cardinality(Clients) \in Nat
  BY Constants, FS_CardinalityType
<1>3. TypeOK
  <2>1. client \in [Clients -> {"connecting", "running", "ended", "gone"}]
    BY DEF Init
  <2>2. elapsed \in 0 .. Time /\ sinceStatus \in 0 .. Status
    BY Constants DEF Init
  <2>3. /\ running \in Nat /\ events \in Nat
        /\ remaining \in Int /\ ticks \in Nat /\ clock \in Nat
    BY <1>1, <1>2, Constants DEF Init
  <2> QED
    BY <1>1, <1>2, <2>1, <2>2, <2>3 DEF Init, TypeOK
<1>4. CountsEveryEnd
  <2>1. Remain = Clients
    BY DEF Init, Remain
  <2> QED
    BY <1>2, <2>1, CountNow DEF Init, CountFinite
<1>5. InStep
  BY <1>1, Constants DEF Init, InStep
<1>6. StatusPaced
  BY <1>1, Constants DEF Init, StatusPaced
<1>7. ReportedThere
  BY DEF Init, ReportedThere
<1>8. SummaryIsFinal /\ NoBug /\ NotBeforeTime /\ (main = "summary" => running = 0)
  BY DEF Init, SummaryIsFinal, NoBug, NotBeforeTime
<1> QED
  BY <1>3, <1>4, <1>5, <1>6, <1>7, <1>8 DEF LoopInv
-----------------------------------------------------------------------------
(***************************************************************************)
(* The client threads, time and the user.                                  *)
(***************************************************************************)

(* What a client does before it sends its event concerns nobody.           *)
LEMMA MovesInvariant ==
  ASSUME LoopInv, NEW c \in Clients, NEW from \in {"connecting", "running"},
         NEW to \in {"running", "ended"}, Moves(c, from, to), UNCHANGED events
  PROVE  LoopInv'
<1>1. TypeOK'
  BY DEF LoopInv, TypeOK, Moves, mainVars, timeVars
<1>2. Remain' = Remain
  BY DEF LoopInv, TypeOK, Moves, Remain
<1>3. CountsEveryEnd'
  BY <1>2, CountNow, CountNext DEF LoopInv, CountFinite, Moves, mainVars
<1>4. InStep' /\ StatusPaced' /\ ReportedThere' /\ NoBug' /\ NotBeforeTime'
  BY DEF LoopInv, InStep, StatusPaced, PrintsStatus, ReportedThere, NoBug, NotBeforeTime, Moves, mainVars,
         timeVars
<1>5. SummaryIsFinal' /\ (main' = "summary" => running' = 0)
  BY DEF LoopInv, SummaryIsFinal, Moves, mainVars
<1> QED
  BY <1>1, <1>3, <1>4, <1>5 DEF LoopInv

(* A client's last step: one less to come, one more to read.               *)
LEMMA SendTerminatedInvariant ==
  ASSUME LoopInv, NEW c \in Clients, SendTerminated(c)
  PROVE  LoopInv'
<1>1. /\ client[c] = "ended" /\ client' = [client EXCEPT ![c] = "gone"]
      /\ events' = events + 1
      /\ UNCHANGED <<cancel, main, revents, running, remaining, ticks, clock, elapsed,
                     sinceStatus, signals, stdin, interrupted>>
  BY DEF SendTerminated, Moves, mainVars, timeVars
<1>2. TypeOK'
  BY <1>1 DEF LoopInv, TypeOK
<1>3. Remain' = Remain \ {c} /\ c \in Remain
  BY <1>1 DEF LoopInv, TypeOK, Remain
<1>4. Cardinality(Remain') = Cardinality(Remain) - 1
  BY <1>3, CountNow, FS_RemoveElement DEF CountFinite
<1>5. CountsEveryEnd'
  BY <1>1, <1>4, CountNow, CountNext DEF LoopInv, TypeOK, CountFinite
<1>6. InStep' /\ StatusPaced' /\ NoBug' /\ NotBeforeTime'
  BY <1>1 DEF LoopInv, InStep, StatusPaced, PrintsStatus, NoBug, NotBeforeTime
<1>7. ReportedThere'
  BY <1>1 DEF LoopInv, TypeOK, ReportedThere
<1>8. SummaryIsFinal' /\ (main' = "summary" => running' = 0)
  BY <1>1 DEF LoopInv, SummaryIsFinal
<1> QED
  BY <1>2, <1>5, <1>6, <1>7, <1>8 DEF LoopInv

(* A second: the clock and the time that passes go on together.            *)
LEMMA TickInvariant ==
  ASSUME LoopInv, Tick
  PROVE  LoopInv'
<1>1. UNCHANGED <<client, events, cancel, main, revents, running, remaining, ticks, stdin,
                  interrupted>>
  BY DEF Tick, threadVars, mainVars
<1>2. /\ clock' = IF clock > 0 THEN clock - 1 ELSE 0
      /\ signals' = IF clock = 1 THEN signals \cup {"alarm"} ELSE signals
      /\ elapsed' = Lesser(elapsed + 1, Time)
      /\ sinceStatus' = Lesser(sinceStatus + 1, Status)
  BY DEF Tick
<1>3. /\ clock' \in Nat /\ elapsed' \in 0 .. Time /\ sinceStatus' \in 0 .. Status
      /\ signals' \subseteq {"alarm", "int"}
  BY <1>2, Constants DEF LoopInv, TypeOK, Lesser
<1>4. TypeOK'
  BY <1>1, <1>3 DEF LoopInv, TypeOK
<1>5. CountsEveryEnd'
  BY <1>1 DEF LoopInv, CountsEveryEnd
<1>6. InStep'
  <2>1. "alarm" \in signals' \cup revents' => clock' = 0
    BY <1>1, <1>2 DEF LoopInv, TypeOK, InStep
  <2>2. clock' <= ticks'
    BY <1>1, <1>2 DEF LoopInv, TypeOK, InStep
  <2>3. ASSUME Time > 0 PROVE Time - remaining + ticks - clock' <= elapsed'
    <3>1. ticks <= remaining /\ Time - remaining + ticks - clock <= elapsed
      BY <2>3, Constants DEF LoopInv, TypeOK, InStep, Lesser
    <3>2. /\ remaining \in Int /\ ticks \in Nat /\ clock \in Nat /\ clock' \in Nat
          /\ elapsed \in Nat /\ Time \in Nat /\ clock' >= clock - 1
      BY <1>2, <1>3, Constants DEF LoopInv, TypeOK
    <3>3. /\ Time - remaining + ticks - clock' <= Time
          /\ Time - remaining + ticks - clock' <= elapsed + 1
      BY <3>1, <3>2, SecondLater
    <3> QED
      BY <1>2, <3>2, <3>3 DEF Lesser
  <2> QED
    BY <1>1, <2>1, <2>2, <2>3 DEF LoopInv, InStep
<1>7. StatusPaced'
  <2>1. ASSUME ticks = Status PROVE Status - clock' <= sinceStatus'
    <3>1. Status - clock <= sinceStatus
      BY <2>1 DEF LoopInv, StatusPaced
    <3> QED
      BY <1>2, <3>1, Constants DEF LoopInv, TypeOK, Lesser
  <2>2. ASSUME "alarm" \in revents, ticks = Status PROVE sinceStatus' = Status
    <3>1. sinceStatus = Status
      BY <2>2 DEF LoopInv, StatusPaced, PrintsStatus
    <3> QED
      BY <1>2, <3>1, Constants DEF Lesser
  <2> QED
    BY <1>1, <2>1, <2>2 DEF StatusPaced, PrintsStatus
<1>8. ReportedThere'
  BY <1>1, <1>2 DEF LoopInv, ReportedThere
<1>9. NotBeforeTime'
  BY <1>1, <1>2, Constants DEF LoopInv, TypeOK, NotBeforeTime, Lesser
<1>10. SummaryIsFinal' /\ NoBug' /\ (main' = "summary" => running' = 0)
  BY <1>1 DEF LoopInv, SummaryIsFinal, NoBug
<1> QED
  BY <1>4, <1>5, <1>6, <1>7, <1>8, <1>9, <1>10 DEF LoopInv

(* The user's signal or key stays pending.                                 *)
LEMMA UserInvariant ==
  ASSUME LoopInv, Interrupt \/ Type
  PROVE  LoopInv'
<1>1. /\ UNCHANGED <<client, events, cancel, main, revents, running, remaining, ticks, clock,
                     elapsed, sinceStatus>>
      /\ \/ signals' = signals \cup {"int"} /\ interrupted' = TRUE /\ UNCHANGED stdin
         \/ stdin' = TRUE /\ UNCHANGED <<signals, interrupted>>
  BY DEF Interrupt, Type, threadVars, mainVars, timeVars
<1>2. TypeOK'
  BY <1>1 DEF LoopInv, TypeOK
<1>3. CountsEveryEnd'
  BY <1>1 DEF LoopInv, CountsEveryEnd
<1>4. InStep' /\ StatusPaced'
  BY <1>1 DEF LoopInv, InStep, StatusPaced, PrintsStatus
<1>5. ReportedThere' /\ NotBeforeTime'
  BY <1>1 DEF LoopInv, ReportedThere, NotBeforeTime
<1>6. SummaryIsFinal' /\ NoBug' /\ (main' = "summary" => running' = 0)
  BY <1>1 DEF LoopInv, SummaryIsFinal, NoBug
<1> QED
  BY <1>2, <1>3, <1>4, <1>5, <1>6 DEF LoopInv
-----------------------------------------------------------------------------
(***************************************************************************)
(* The main thread.                                                        *)
(***************************************************************************)

(* poll only moves what is signalled to revents.                           *)
LEMMA PollInvariant ==
  ASSUME LoopInv, Poll
  PROVE  LoopInv'
<1>1. /\ main = "poll" /\ main' = "handle" /\ revents' = Readable
      /\ UNCHANGED <<client, events, cancel, running, remaining, ticks, clock, elapsed,
                     sinceStatus, signals, stdin, interrupted>>
  BY DEF Poll, threadVars, timeVars
<1>2. /\ revents' \subseteq signals \cup {"event", "stdin"}
      /\ "event" \in revents' => events > 0
      /\ "alarm" \in revents' => "alarm" \in signals
  <2>1. /\ Readable \subseteq signals \cup {"event", "stdin"}
        /\ "alarm" \in Readable => "alarm" \in signals
    BY DEF Readable
  <2>2. "event" \in Readable => events > 0
    BY DEF LoopInv, TypeOK, Readable
  <2> QED
    BY <1>1, <2>1, <2>2
<1>3. TypeOK'
  <2>1. revents' \subseteq {"alarm", "int", "event", "stdin"}
    BY <1>2 DEF LoopInv, TypeOK
  <2> QED
    BY <1>1, <2>1 DEF LoopInv, TypeOK
<1>4. CountsEveryEnd'
  BY <1>1 DEF LoopInv, CountsEveryEnd
<1>5. InStep'
  BY <1>1, <1>2 DEF LoopInv, InStep
<1>6. StatusPaced'
  <2>1. ASSUME "alarm" \in revents', ticks = Status PROVE sinceStatus = Status
    <3>1. clock = 0
      BY <1>2, <2>1 DEF LoopInv, InStep
    <3>2. Status - 0 <= sinceStatus
      BY <2>1, <3>1 DEF LoopInv, StatusPaced
    <3>3. sinceStatus \in 0 .. Status
      BY DEF LoopInv, TypeOK
    <3> QED
      BY <3>2, <3>3, Constants
  <2> QED
    BY <1>1, <2>1 DEF LoopInv, StatusPaced, PrintsStatus
<1>7. ReportedThere' /\ NotBeforeTime'
  BY <1>1, <1>2 DEF LoopInv, ReportedThere, NotBeforeTime
<1>8. SummaryIsFinal' /\ NoBug' /\ (main' = "summary" => running' = 0)
  BY <1>1 DEF LoopInv, SummaryIsFinal, NoBug
<1> QED
  BY <1>3, <1>4, <1>5, <1>6, <1>7, <1>8 DEF LoopInv

(* The interval that is over was part of the remaining time, so the rest   *)
(* is not negative and the next interval is part of it again.              *)
LEMMA CountDownExact ==
  ASSUME LoopInv, CountDown, "alarm" \in revents
  PROVE  /\ clock = 0
         /\ remaining' \in 0 .. Time /\ ticks' \in Nat
         /\ Time = 0 => ticks' = Status
         /\ Time > 0 => /\ ticks' = Lesser(remaining', Status)
                        /\ Time - remaining' <= elapsed
<1>1. clock = 0
  BY DEF LoopInv, InStep
<1>2. /\ remaining \in 0 .. Time /\ remaining \in Int /\ ticks \in Nat
      /\ elapsed \in 0 .. Time /\ elapsed \in Nat
  BY Constants DEF LoopInv, InStep, TypeOK
<1>3. CASE Time = 0
  <2>1. ticks = Status /\ remaining' = remaining /\ ticks' = ticks
    BY <1>3 DEF LoopInv, InStep, CountDown
  <2> QED
    BY <1>1, <1>2, <1>3, <2>1
<1>4. CASE Time # 0
  <2>1. Time > 0
    BY <1>4, Constants
  <2>2. ticks = Lesser(remaining, Status) /\ Time - remaining + ticks - clock <= elapsed
    BY <2>1 DEF LoopInv, InStep
  <2>3. ticks <= remaining
    BY <1>2, <2>2, Constants DEF Lesser
  <2>4. remaining' = remaining - ticks /\ ticks' = Lesser(remaining', Status)
    BY <1>4 DEF CountDown
  <2>5. remaining' \in 0 .. Time /\ Time - remaining' <= elapsed
    BY <1>1, <1>2, <2>2, <2>3, <2>4, Constants
  <2>6. ticks' \in Nat
    BY <2>4, <2>5, Constants DEF Lesser
  <2> QED
    BY <1>1, <2>1, <2>4, <2>5, <2>6
<1> QED
  BY <1>3, <1>4

(* One body of the poll loop, with the alarm, the signal and the ends.     *)
LEMMA HandleInvariant ==
  ASSUME LoopInv, Handle
  PROVE  LoopInv'
<1>1. /\ main = "handle" /\ revents' = {} /\ signals' = signals \ revents
      /\ UNCHANGED <<client, elapsed, stdin, interrupted>>
      /\ CountEnd /\ cancel' = (cancel \/ "int" \in revents \/ TimeIsUp)
      /\ main' = IF remaining' < 0 THEN "bug" ELSE "poll"
  BY DEF Handle
<1>2. /\ remaining \in 0 .. Time /\ elapsed \in 0 .. Time /\ elapsed \in Nat
      /\ sinceStatus \in 0 .. Status /\ ticks \in Nat /\ clock \in Nat
      /\ events \in Nat /\ running \in Nat
  BY Constants DEF LoopInv, InStep, TypeOK
<1>3. "alarm" \in revents => /\ CountDown /\ Rearm
                             /\ sinceStatus' = IF PrintsStatus THEN 0 ELSE sinceStatus
  BY DEF Handle
<1>4. "alarm" \notin revents => UNCHANGED <<remaining, ticks, clock, sinceStatus>>
  BY DEF Handle
<1>5. /\ remaining' \in 0 .. Time /\ ticks' \in Nat /\ clock' \in Nat
      /\ sinceStatus' \in 0 .. Status
  <2>1. CASE "alarm" \in revents
    <3>1. remaining' \in 0 .. Time /\ ticks' \in Nat /\ clock' \in Nat
      BY <1>3, <2>1, CountDownExact DEF Rearm
    <3>2. sinceStatus' \in 0 .. Status
      BY <1>2, <1>3, <2>1, Constants
    <3> QED
      BY <3>1, <3>2
  <2>2. CASE "alarm" \notin revents
    BY <1>2, <1>4, <2>2
  <2> QED
    BY <2>1, <2>2
<1>6. main' = "poll"
  BY <1>1, <1>5, Constants
<1>7. /\ events' \in Nat /\ running' \in Nat
      /\ running' - events' = running - events
  <2>1. CASE "event" \in revents
    <3>1. events > 0 /\ events' = events - 1 /\ running' = running - 1
      BY <1>1, <2>1 DEF CountEnd, LoopInv, ReportedThere
    <3>2. running >= events
      <4>1. running = Cardinality(Remain) + events /\ Cardinality(Remain) \in Nat
        BY CountNow DEF LoopInv, CountFinite
      <4> QED
        BY <1>2, <4>1
    <3> QED
      BY <1>2, <3>1, <3>2
  <2>2. CASE "event" \notin revents
    BY <1>1, <1>2, <2>2 DEF CountEnd
  <2> QED
    BY <2>1, <2>2
<1>8. cancel' \in BOOLEAN
  BY <1>1
<1>9. TypeOK'
  <2>1. signals' \subseteq {"alarm", "int"} /\ client' \in [Clients -> {"connecting", "running", "ended", "gone"}]
    BY <1>1 DEF LoopInv, TypeOK
  <2>2. stdin' \in BOOLEAN /\ interrupted' \in BOOLEAN
    BY <1>1 DEF LoopInv, TypeOK
  <2>3. remaining' \in Int /\ elapsed' \in 0 .. Time
    BY <1>1, <1>2, <1>5, Constants
  <2> QED
    BY <1>1, <1>5, <1>6, <1>7, <1>8, <2>1, <2>2, <2>3 DEF TypeOK
<1>10. CountsEveryEnd'
  <2>1. Remain' = Remain
    BY <1>1 DEF Remain
  <2>2. running = Cardinality(Remain) + events /\ Cardinality(Remain) \in Nat
    BY CountNow DEF LoopInv, CountFinite
  <2>3. running' = Cardinality(Remain') + events'
    BY <1>2, <1>7, <2>1, <2>2
  <2> QED
    BY <2>3, CountNext DEF CountFinite
<1>11. InStep'
  <2>1. CASE "alarm" \in revents
    <3>1. "alarm" \notin signals' \cup revents' /\ clock' = ticks'
      BY <1>1, <1>3, <2>1 DEF Rearm
    <3>2. /\ Time = 0 => ticks' = Status
          /\ Time > 0 => ticks' = Lesser(remaining', Status) /\ Time - remaining' <= elapsed
      BY <1>3, <2>1, CountDownExact
    <3>3. clock' <= ticks'
      BY <1>5, <3>1
    <3>4. Time > 0 => Time - remaining' + ticks' - clock' <= elapsed'
      BY <1>1, <1>2, <1>5, <3>1, <3>2, Constants, JustSet
    <3> QED
      BY <1>5, <3>1, <3>2, <3>3, <3>4 DEF InStep
  <2>2. CASE "alarm" \notin revents
    BY <1>1, <1>4, <2>2 DEF LoopInv, InStep
  <2> QED
    BY <2>1, <2>2
<1>12. StatusPaced'
  <2>1. CASE "alarm" \in revents
    <3>1. clock' = ticks' /\ "alarm" \notin revents'
      BY <1>1, <1>3, <2>1 DEF Rearm
    <3>2. ticks' = Status => Status - clock' <= sinceStatus'
      BY <1>5, <3>1, Constants
    <3> QED
      BY <3>1, <3>2 DEF StatusPaced
  <2>2. CASE "alarm" \notin revents
    BY <1>1, <1>4, <2>2 DEF LoopInv, StatusPaced
  <2> QED
    BY <2>1, <2>2
<1>13. ReportedThere'
  BY <1>1, <1>6 DEF LoopInv, ReportedThere
<1>14. NotBeforeTime'
  <2>1. CASE cancel
    BY <1>1, <2>1 DEF LoopInv, NotBeforeTime
  <2>2. CASE "int" \in revents
    <3>1. interrupted
      BY <2>2 DEF LoopInv, ReportedThere
    <3> QED
      BY <1>1, <3>1 DEF NotBeforeTime
  <2>3. CASE TimeIsUp
    <3>1. Time # 0 /\ "alarm" \in revents /\ remaining' <= 0
      BY <2>3 DEF TimeIsUp
    <3>2. Time > 0 /\ Time - remaining' <= elapsed
      BY <1>3, <3>1, Constants, CountDownExact
    <3>3. elapsed = Time
      BY <1>2, <1>5, <3>1, <3>2, Constants, NothingRemains
    <3> QED
      BY <1>1, <3>2, <3>3 DEF NotBeforeTime
  <2> QED
    BY <1>1, <2>1, <2>2, <2>3 DEF NotBeforeTime
<1>15. SummaryIsFinal' /\ NoBug' /\ (main' = "summary" => running' = 0)
  BY <1>6 DEF SummaryIsFinal, NoBug
<1> QED
  BY <1>9, <1>10, <1>11, <1>12, <1>13, <1>14, <1>15 DEF LoopInv

(* With nobody left to wait for all events have been sent and read.        *)
LEMMA LeaveInvariant ==
  ASSUME LoopInv, Leave \/ Join
  PROVE  LoopInv'
<1>1. /\ \/ main = "poll" /\ running = 0 /\ main' = "summary"
         \/ main = "summary" /\ main' = "over"
      /\ UNCHANGED <<client, events, cancel, revents, running, remaining, ticks, clock, elapsed,
                     sinceStatus, signals, stdin, interrupted>>
  BY DEF Leave, Join, threadVars, timeVars
<1>2. TypeOK'
  BY <1>1 DEF LoopInv, TypeOK
<1>3. CountsEveryEnd'
  BY <1>1 DEF LoopInv, CountsEveryEnd
<1>4. InStep' /\ StatusPaced' /\ ReportedThere' /\ NotBeforeTime' /\ NoBug'
  BY <1>1 DEF LoopInv, InStep, StatusPaced, PrintsStatus, ReportedThere, NotBeforeTime, NoBug
<1>5. running = 0
  BY <1>1 DEF LoopInv
<1>6. \A c \in Clients : client[c] = "gone"
  <2>1. Cardinality(Remain) = 0
    BY <1>5, CountNow DEF LoopInv, TypeOK, CountFinite
  <2> QED
    BY <2>1, CountNow DEF CountFinite
<1>7. SummaryIsFinal' /\ (main' = "summary" => running' = 0)
  BY <1>1, <1>5, <1>6 DEF SummaryIsFinal
<1> QED
  BY <1>2, <1>3, <1>4, <1>7 DEF LoopInv

(* Nothing changes when everything stays as it is.                         *)
LEMMA StutterInvariant == LoopInv /\ UNCHANGED vars => LoopInv'
<1> SUFFICES ASSUME LoopInv, UNCHANGED vars PROVE LoopInv'
  OBVIOUS
<1> USE DEF vars, threadVars, mainVars, timeVars
<1>1. TypeOK'
  BY DEF LoopInv, TypeOK
<1>2. CountsEveryEnd' /\ InStep' /\ StatusPaced'
  BY DEF LoopInv, CountsEveryEnd, InStep, StatusPaced, PrintsStatus
<1>3. ReportedThere' /\ SummaryIsFinal' /\ NoBug' /\ NotBeforeTime'
      /\ (main' = "summary" => running' = 0)
  BY DEF LoopInv, ReportedThere, SummaryIsFinal, NoBug, NotBeforeTime
<1> QED
  BY <1>1, <1>2, <1>3 DEF LoopInv

(* Every step keeps the invariant.                                         *)
LEMMA NextInvariant == LoopInv /\ [Next]_vars => LoopInv'
<1> SUFFICES ASSUME LoopInv, [Next]_vars PROVE LoopInv'
  OBVIOUS
<1>1. ASSUME NEW c \in Clients, Connect(c) \/ Finish(c) \/ SeesCancel(c) PROVE LoopInv'
  BY <1>1, MovesInvariant DEF Connect, Finish, SeesCancel
<1>2. ASSUME NEW c \in Clients, SendTerminated(c) PROVE LoopInv'
  BY <1>2, SendTerminatedInvariant
<1>3. ASSUME Tick PROVE LoopInv'
  BY <1>3, TickInvariant
<1>4. ASSUME Interrupt \/ Type PROVE LoopInv'
  BY <1>4, UserInvariant
<1>5. ASSUME Main PROVE LoopInv'
  BY <1>5, PollInvariant, HandleInvariant, LeaveInvariant DEF Main
<1>6. ASSUME UNCHANGED vars PROVE LoopInv'
  BY <1>6, StutterInvariant
<1> QED
  BY <1>1, <1>2, <1>3, <1>4, <1>5, <1>6 DEF Next, Over

(* The count of the ends, the clock, the intervals and the signals stay    *)
(* consistent, whatever -t, -u and number of clients there are.            *)
THEOREM Invariant == Spec => []LoopInv
BY InitInvariant, NextInvariant, PTL DEF Spec
-----------------------------------------------------------------------------
(* The summary is printed when every client has ended: no thread still     *)
(* writes the statistics that are summed up (application.cpp:236).         *)
THEOREM SummaryFinal == Spec => []SummaryIsFinal
<1>1. LoopInv => SummaryIsFinal
  BY DEF LoopInv
<1> QED
  BY <1>1, Invariant, PTL

(* The BUG_ON behind the subtraction of the interval never fires           *)
(* (application.cpp:190).                                                  *)
THEOREM TimeNotOverdrawn == Spec => []NoBug
<1>1. LoopInv => NoBug
  BY DEF LoopInv
<1> QED
  BY <1>1, Invariant, PTL

(* The clients are told to end by the user or after SECONDS, never before. *)
THEOREM NoEarlyEnd == Spec => []NotBeforeTime
<1>1. LoopInv => NotBeforeTime
  BY DEF LoopInv
<1> QED
  BY <1>1, Invariant, PTL
=============================================================================
