---------------------------- MODULE Application -----------------------------
(***************************************************************************)
(* The client side of net-babbler: cApplication::execute starts a cClient  *)
(* thread per connection and then polls SIGINT, SIGALRM, stdin and the     *)
(* event each client thread sends when it ends.  SIGALRM is its clock: it  *)
(* prints the status and counts the running time down.  All clients share  *)
(* one cancel event.  What a client does in a job is in Babbler.           *)
(***************************************************************************)
EXTENDS Integers, FiniteSets

CONSTANTS
  Clients,    (* the cClient objects                                       *)
  Time,       (* m_options.time in seconds, 0 when it is not given         *)
  Status,     (* m_options.statusUpdateTime in seconds                     *)
  Replies     (* the settings ask for responses, m_responseSizeMin > 0     *)

ASSUME ApplicationAssumption ==
  /\ IsFiniteSet(Clients)
  /\ Time \in Nat /\ Status \in Nat
  /\ Replies \in BOOLEAN

VARIABLES
  client,     (* where each client thread is                               *)
  events,     (* the counter of evClientTerminated                         *)
  cancel,     (* m_eventCancel is readable: nobody ever reads it           *)
  main,       (* where the main thread is                                  *)
  revents,    (* what its last poll reported                               *)
  running,    (* runningClientThreads                                      *)
  remaining,  (* remainingTime                                             *)
  ticks,      (* ticks                                                     *)
  clock,      (* seconds until the alarm, 0 when it is off                 *)
  signals,    (* the signals that are pending in their signalfd            *)
  stdin,      (* stdin is readable                                         *)
  elapsed,    (* seconds since the start, counted up to Time               *)
  sinceStatus,(* seconds since the last status, counted up to Status       *)
  interrupted (* SIGINT was sent                                           *)

threadVars == <<client, events>>
mainVars   == <<cancel, main, revents, running, remaining, ticks>>
timeVars   == <<clock, elapsed, sinceStatus>>
vars == <<threadVars, mainVars, timeVars, signals, stdin, interrupted>>

Lesser(a, b) == IF a <= b THEN a ELSE b
-----------------------------------------------------------------------------
(***************************************************************************)
(* cClient::threadFunc.                                                    *)
(***************************************************************************)

Moves(c, from, to) ==
  /\ client[c] = from
  /\ client' = [client EXCEPT ![c] = to]
  /\ UNCHANGED <<mainVars, timeVars, signals, stdin, interrupted>>

(* cSocket::connect returns, with a connection or without one; it knows    *)
(* nothing of the cancel event.                                            *)
Connect(c) ==
  /\ \E s \in {"running", "ended"} : Moves(c, "connecting", s)
  /\ UNCHANGED events

(* The loop of jobs ends by itself: m_count, a byte limit or an error.     *)
Finish(c) == Moves(c, "running", "ended") /\ UNCHANGED events

(* Mutation: the cancel event is read by the client that sees it.          *)
SeesCancelAndReads(c) ==
  /\ cancel /\ Replies
  /\ client[c] = "running"
  /\ client' = [client EXCEPT ![c] = "ended"]
  /\ cancel' = FALSE
  /\ UNCHANGED <<events, main, revents, running, remaining, ticks, timeVars,
                 signals, stdin, interrupted>>

(* Only recv looks at the cancel event, so only a job that waits for a     *)
(* response ends by it.                                                    *)
SeesCancel(c) ==
  /\ cancel /\ Replies
  /\ Moves(c, "running", "ended")
  /\ UNCHANGED events

(* Mutation: a client that was cancelled does not send the event.          *)
SendTerminatedUnlessCancelled(c) ==
  /\ Moves(c, "ended", "gone")
  /\ events' = IF cancel THEN events ELSE events + 1

(* m_evTerminated.send, the last thing the thread does, however it ended.  *)
SendTerminated(c) ==
  /\ Moves(c, "ended", "gone")
  /\ events' = events + 1
-----------------------------------------------------------------------------
(***************************************************************************)
(* Time and the user.                                                      *)
(***************************************************************************)

(* A second passes.                                                        *)
Tick ==
  /\ clock'       = IF clock > 0 THEN clock - 1 ELSE 0
  /\ signals'     = IF clock = 1 THEN signals \cup {"alarm"} ELSE signals
  /\ elapsed'     = Lesser(elapsed + 1, Time)
  /\ sinceStatus' = Lesser(sinceStatus + 1, Status)
  /\ UNCHANGED <<threadVars, mainVars, stdin, interrupted>>

Interrupt ==
  /\ signals' = signals \cup {"int"}
  /\ interrupted' = TRUE
  /\ UNCHANGED <<threadVars, mainVars, timeVars, stdin>>

(* Somebody types, or stdin is at its end; nobody ever reads it.           *)
Type ==
  /\ stdin' = TRUE
  /\ UNCHANGED <<threadVars, mainVars, timeVars, signals, interrupted>>
-----------------------------------------------------------------------------
(***************************************************************************)
(* The loop of the main thread.                                            *)
(***************************************************************************)

Readable ==
  signals \cup (IF events > 0 THEN {"event"} ELSE {})
          \cup (IF stdin THEN {"stdin"} ELSE {})

Poll ==
  /\ main = "poll"
  /\ running > 0
  /\ Readable # {}
  /\ revents' = Readable
  /\ main' = "handle"
  /\ UNCHANGED <<cancel, running, remaining, ticks, threadVars, timeVars,
                 signals, stdin, interrupted>>

(* Mutation: the last interval is not shortened to the remaining time.     *)
CountDownWhole ==
  /\ remaining' = remaining - ticks
  /\ ticks' = Status

(* The alarm went off: ticks seconds of the running time are over.         *)
CountDown ==
  /\ remaining' = IF Time # 0 THEN remaining - ticks ELSE remaining
  /\ ticks' = IF Time # 0 THEN Lesser(remaining', Status) ELSE ticks

(* Mutation: alarm is called only before the loop.                         *)
RearmMissing == UNCHANGED clock

(* alarm (ticks): with 0 there is no next one.                             *)
Rearm == clock' = ticks'

(* The status is due when the interval that is over was a whole one.       *)
PrintsStatus == ticks = Status

(* Mutation: the shortened interval is taken for the end of it.            *)
TimeIsUpEarly == Time # 0 /\ "alarm" \in revents /\ ticks' < Status

(* The running time is over.                                               *)
TimeIsUp == Time # 0 /\ "alarm" \in revents /\ remaining' <= 0

(* One unit of the event counter stands for one client.                    *)
CountEnd ==
  IF "event" \in revents
  THEN /\ events'  = events - 1
       /\ running' = running - 1
  ELSE UNCHANGED <<events, running>>

(* The body of the loop, for what poll reported: a signal or an event that *)
(* arrives meanwhile is left to the next poll.                             *)
Handle ==
  /\ main = "handle"
  /\ IF "alarm" \in revents
     THEN /\ CountDown
          /\ Rearm
          /\ sinceStatus' = IF PrintsStatus THEN 0 ELSE sinceStatus
     ELSE UNCHANGED <<remaining, ticks, clock, sinceStatus>>
  /\ signals' = signals \ revents
  /\ CountEnd
  /\ cancel' = (cancel \/ "int" \in revents \/ TimeIsUp)
  /\ main'   = IF remaining' < 0 THEN "bug" ELSE "poll"
  /\ revents' = {}
  /\ UNCHANGED <<client, elapsed, stdin, interrupted>>

(* Mutation: the loop ends when the clients were told to.                  *)
LeaveCancelled ==
  /\ main = "poll"
  /\ running = 0 \/ cancel
  /\ main' = "summary"
  /\ UNCHANGED <<cancel, revents, running, remaining, ticks, threadVars, timeVars,
                 signals, stdin, interrupted>>

(* The loop is over: the statistics of all clients are summed up.          *)
Leave ==
  /\ main = "poll"
  /\ running = 0
  /\ main' = "summary"
  /\ UNCHANGED <<cancel, revents, running, remaining, ticks, threadVars, timeVars,
                 signals, stdin, interrupted>>

(* The destructors of the clients join their threads.                      *)
Join ==
  /\ main = "summary"
  /\ \A c \in Clients : client[c] = "gone"
  /\ main' = "over"
  /\ UNCHANGED <<cancel, revents, running, remaining, ticks, threadVars, timeVars,
                 signals, stdin, interrupted>>

Over == main \in {"over", "bug"} /\ UNCHANGED vars
-----------------------------------------------------------------------------
(* The first interval, as it is set before the loop.                       *)
FirstTicks == IF Time # 0 THEN Lesser(Time, Status) ELSE Status

Init ==
  /\ client = [c \in Clients |-> "connecting"]
  /\ events = 0
  /\ cancel = FALSE
  /\ main = "poll"
  /\ revents = {}
  /\ running = Cardinality(Clients)
  /\ remaining = Time
  /\ ticks = FirstTicks
  /\ clock = FirstTicks
  /\ signals = {}
  /\ stdin = FALSE
  /\ elapsed = 0
  /\ sinceStatus = 0
  /\ interrupted = FALSE

Main == Poll \/ Handle \/ Leave \/ Join

Next ==
  \/ \E c \in Clients : Connect(c) \/ Finish(c) \/ SeesCancel(c) \/ SendTerminated(c)
  \/ Tick
  \/ Interrupt
  \/ Type
  \/ Main
  \/ Over

Spec == Init /\ [][Next]_vars

(* Time passes, the kernel gives every connect an answer, and threads run. *)
(* A client need not come to the end of its jobs: it may have no limit. It *)
(* sees the cancel event because recv polls it, also while it waits for a  *)
(* response that never comes, and sends end because its responder reads    *)
(* (HalfDuplex of Babbler).                                                *)
FairSpec ==
  /\ Spec
  /\ WF_vars(Tick)
  /\ WF_vars(Main)
  /\ \A c \in Clients :
       WF_vars(Connect(c)) /\ WF_vars(SeesCancel(c)) /\ WF_vars(SendTerminated(c))
-----------------------------------------------------------------------------
(***************************************************************************)
(* Properties.                                                             *)
(***************************************************************************)

(* Every variable holds a value of its type.                               *)
TypeOK ==
  /\ client \in [Clients -> {"connecting", "running", "ended", "gone"}]
  /\ events \in Nat /\ running \in Nat
  /\ cancel \in BOOLEAN /\ stdin \in BOOLEAN /\ interrupted \in BOOLEAN
  /\ main \in {"poll", "handle", "summary", "over", "bug"}
  /\ revents \subseteq {"alarm", "int", "event", "stdin"}
  /\ remaining \in Int /\ ticks \in Nat /\ clock \in Nat
  /\ signals \subseteq {"alarm", "int"}
  /\ elapsed \in 0 .. Time /\ sinceStatus \in 0 .. Status

(* No end of a client is lost or counted twice, though several may come    *)
(* between two polls: what the main thread still waits for is what has not *)
(* sent its event and what it has not read yet.                            *)
CountsEveryEnd ==
  running = Cardinality({c \in Clients : client[c] # "gone"}) + events

(* The summary is printed when no client can change its statistics.        *)
SummaryIsFinal ==
  main \in {"summary", "over"} => \A c \in Clients : client[c] = "gone"

(* The running time is never overdrawn: the BUG_ON behind the subtraction  *)
(* does not fire, however late the main thread gets to an alarm.           *)
NoBug == main # "bug"

(* Clients are told to end by the user or when SECONDS have passed, never  *)
(* earlier, whatever the intervals add up to.                              *)
NotBeforeTime == cancel => interrupted \/ (Time > 0 /\ elapsed = Time)

(* The alarm stays in step with the remaining time: an alarm is pending    *)
(* only when the clock ran off, and what was counted down and what the     *)
(* clock has run since have really passed.                                 *)
InStep ==
  /\ "alarm" \in signals \cup revents => clock = 0
  /\ clock <= ticks
  /\ remaining \in 0 .. Time
  /\ Time = 0 => ticks = Status
  /\ Time > 0 => /\ ticks = Lesser(remaining, Status)
                 /\ Time - remaining + ticks - clock <= elapsed

(* A status closes a whole interval (application.cpp:186), also when the   *)
(* last one before the end of the time is shortened.                       *)
StatusPaced ==
  /\ ticks = Status => Status - clock <= sinceStatus
  /\ "alarm" \in revents /\ PrintsStatus => sinceStatus = Status

(* What poll reported is still there when it is handled.                   *)
ReportedThere ==
  /\ revents \subseteq signals \cup {"event", "stdin"}
  /\ "event" \in revents => events > 0
  /\ "int" \in signals => interrupted
  /\ main # "handle" => revents = {}

(* Types, the count of the ends, the clock and the signals: together they  *)
(* hold from step to step.                                                 *)
LoopInv ==
  /\ TypeOK
  /\ CountsEveryEnd
  /\ InStep
  /\ StatusPaced
  /\ ReportedThere
  /\ main = "summary" => running = 0
  /\ SummaryIsFinal /\ NoBug /\ NotBeforeTime

(* -t: "Stop after running SECONDS".  The clock that counts the time is the*)
(* one of the status: without a status interval there is none and the      *)
(* program never stops by itself (application.cpp:173).                    *)
TimeLimit == Time > 0 /\ Status > 0 => <>(main = "over")

(* SIGINT ends the program, also when it comes again or while clients      *)
(* connect or end.  This is for clients that wait for responses: without   *)
(* them nothing looks at the cancel event (requestor.hpp:70).              *)
StopsOnInterrupt == interrupted ~> main = "over"
=============================================================================
