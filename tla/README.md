# net-babbler in TLA+

Models, checks and proofs of `nb`, the client/server traffic simulator of this
repository. The client opens connections and sends requests of chosen sizes;
the server answers each with a response of the size the request asks for. The
paths below are relative to the root of the repository; the code is in `src/`.

To check one configuration: `tlc -config MCBabblerMixed.cfg MCBabbler`.
To check the proofs: `tlapm BabblerProofs.tla`, and the same for each module
whose name ends with `Proofs`; the theorems about module `M` are in `MProofs`.

## The system

| Component | State | Operations | Interacts with |
| --- | --- | --- | --- |
| Protocol (`protocol.cpp`) | one buffer `m_buf` for both directions, `m_pBuf`, `m_bufContentSize`, counters | sendRequest, sendResponse, recvRequest, recvResponse | its socket; the statistics are read by another thread |
| Requestor (`requestor.hpp`) | sequence number, next sizes, byte limits | doJob: limits, request, response, next sizes | protocol |
| Responder (`responder.hpp`) | peer address for datagrams | doJob: receive, answer | protocol |
| Client thread (`client.cpp`) | remaining count, start and end time, a cancel event shared by all | connect, loop of jobs, end event; statistics for the main thread | requestor, main thread |
| Socket (`socket.cpp`) | descriptor (reference counted), pair of pollfds | connect, listen, accept, send, recv | kernel, cancel event |
| Stateful server (`serverstateful.cpp`) | list of responder threads | listener loop: permit, accept, start, cleanup; destructor | semaphore, responder threads |
| Stateless server (`serverstateless.cpp`) | its threads, clones of one socket | constructor, destructor | semaphore, responder threads |
| Responder thread (`responderthread.cpp`) | `m_finished` | loop of jobs, end, post | responder, semaphore |
| Semaphore, event, signal | counter, eventfd, signalfd | wait, post, send | as above |
| Application (`application.cpp`) | running clients, remaining time, ticks | poll loop; life of the servers | clients, servers, signals |
| Settings (`comsettings.hpp`) | ranges of sizes, step | parsing | requestor |

Not stateful and not modelled: value parser and formatter, error strings, the
printout, and `libcmdline` (a submodule that is not part of the repository; its
`BUG_ON` is modelled as the end of the process).

The modules and what each takes from the others:

    Application        main thread of the client: poll loop, ends of the clients
      ClientStatistics   one client thread against statistics() of the main thread
      Requestor          the sizes a client asks for
      Babbler            one connection, implements RequestReply
        ReceiveCall        cSocket::recv by turns, implements ReceiveContract
      Datagram           clients and server threads over UDP
    ServerPool         listeners, responder threads, semaphore
      Descriptors        the counted descriptors of all of them

What is hard here: one buffer that serves both directions and keeps the start
of the next message; a stream that may be cut anywhere; client and server
blocking on each other; a counting semaphore whose permits are taken by one
thread and returned by another; threads that are joined by a third; an event
that is counted and one that is broadcast; a clock that is also a status
interval; and unsigned sizes near a limit. `PROJECT.json` lists each hazard at
its line, with the properties about it.

## The modules

**Babbler** is one stream connection: client thread, responder thread, both
`cBabblerProtocol` objects and the two directions between them. A byte is known
by its position in its stream; a message is a record `start, len, seq, options`
in `wire`. Checksum, packet type and payload counter are replaced by positions:
`Parse` finds a header exactly where a message starts in bytes `send()` has not
overwritten (`scribbled`), and `TakeBody` accepts payload of the current message
and nothing else. `StartJob` is `doJob` up to the first `sendto` and
`SendRequest` its three cases: a size below a header is a `BUG_ON`, of a request
that is only a header nothing is sent, any other is on its way. `HandOver` is
one `sendto` with the accounting and refill behind it; `TakeHeader` and
`TakeBody` one `recvfrom`, `Parse` the part of `receive()` between the two;
`RecvResponse` and `SendResponse` what the two doJobs do with the result.
`ConnectionLost`, `RecvCancelled`, `LimitReached` are the ways out.
`EmptyWakeup` leaves `EAGAIN` in the thread's `errno` (`again`), with which
`StreamLost` does not see the end of the stream (`socket.cpp:250`). The rest of
what `recv` does between its call and its result is in `ReceiveCall`.

**RequestReply** is what a connection promises, with no word of bytes:
requests are issued one at a time, served in order and once each, and a job that
wants a reply completes only after its request was served. `Babbler` implements
it with the mapping at `Abstract`.

**BabblerInvariant** holds the inductive invariant of `Babbler`.

**ReceiveContract** is what `receive()` relies on when it calls `recv`: at least
what it asked for, in the order of the stream and with nothing left out, or an
exception for a connection at its end or a client that is to end.
**ReceiveCall** is `cSocket::recv` itself: `Poll` is what `poll` reports, `Turn`
the rest of the loop's body with the outcomes of `recvfrom` as its disjuncts
(`Take`, `WouldBlock`, `AtEnd`), and `GoOn` its end with the cancel event and
the condition of the loop. `again` is the thread's `errno`.

**Datagram** is `nb` over UDP: clients with a socket each, and threads of a
`cStatelessServer` that receive from one. A datagram is a piece of a message;
`ReceiveHeader`, `ReceiveBody` are the two calls of `recv` in `receive()`,
`Continues` what `checkPayload` accepts, `Remember` the address `recvfrom`
stores, `SendRequest` and `Reply` the sending side of the two `doJob`s. The
network loses, doubles and reorders. `Abort` is the end of a process by an
exception nobody catches or by a `BUG_ON`; `Refused` is what a client sees of a
server without threads.

**Requestor** is the choice of sizes: `Parsed` and `Accepted` are the constructor
of `cComSettings`, `Shortened`, `Fitted` and `Reached` are `isLimitReached`,
`Draw`, `Drawn` and `Swept` the end of `doJob`. Sizes are unsigned of `Word`
values. `Octets` is what `send()` transmits of a message, and `NeverAnswered` a
job that waits for a message that is only a header: it does not finish. `Babbler`
leaves the sizes open (any of `ReqSizes` and `RespSizes`, and a
limit at any time), so this module only narrows it.

**ServerPool** is the server: listeners, responder threads, the shared
semaphore, and the destruction at the end of `execute`. `Visit` is one turn of
the cleanup loop; removing a finished thread is a join, so it waits until the
thread has posted. `AcceptFails` ends a listener with its permit. A responder
that does not see that its client is gone is here a client that stays.

**Descriptors** is the class `cHandle`: `Make`, `Lock`, `Count` are its
constructor, `Destroy`, `Lock`, `Uncount` its destructor, `HandOver` a move into
another thread. The read and the write of the count are steps of their own. The
kernel gives a number out again as soon as it is closed.

**Application** is the main thread of the client with SIGINT, SIGALRM, stdin and
the end event of each client thread. `Handle` is one body of the poll loop for
what `poll` reported; what arrives meanwhile waits for the next one.

**ClientStatistics** is one client thread, reduced to what it counts and when it
sets `m_requestor`, `m_startTime` and `m_finishedTime`, and `statistics()` in the
main thread with each of its reads as a step. Copying the counters and updating
them take two steps each, so that the lock matters.

Modules with `MC` give constants values; each `.cfg` is a run. Operators named
"Mutation" in a comment are deliberately wrong variants of the definition that
follows them, used to show that a property notices them; no specification uses
them.

## Runs

| Run | Question | Result |
| --- | --- | --- |
| babbler_mixed | safety, refinement and termination of a connection, for all kinds of sizes | holds |
| babbler_pipelined | does `receive()` always look at a whole header? | violated, see below |
| babbler_bare_reply | does every job end when a response is just a header? | violated |
| receive | does `recv` give `receive()` what it relies on, and when does it return? | holds |
| datagram | what may end a thread or a process over UDP, whom does an answer reach? | holds |
| requestor | sizes, both limits, BUG_ONs, and when a client with a limit stops | holds |
| server_pool | bounds on threads and lists, joins before destruction, every port serves | holds |
| server_pool_ports | does each port listen when permits are fewer than listeners? | violated |
| descriptors | are descriptors counted exactly, does each thread keep its own socket? | holds |
| application | no end lost, time limit, pace of the status, SIGINT | holds |
| application_no_reply | does the running time end a client without replies? | violated |
| client_statistics | are snapshots whole, rates sane and summaries exact? | holds |

The four violated properties are disagreements between code and its own words:

1. `protocol.cpp:130`: requests without responses run together; a fragment of a
   header left in the buffer reaches the `BUG_ON` behind the FIXME and the whole
   server is aborted.
2. `protocol.cpp:104`: a response of 24 bytes has no payload, so nothing is sent
   and the client waits for ever (`EveryJobEnds`). The message of
   `comsettings.hpp:86` promises a minimum of 32, but the checks of the response
   are commented out.
3. `serverstateful.cpp:55`: the permit is taken before `accept`, so idle
   listeners hold permits; three listeners per port use up 1000 on 334 ports.
4. `requestor.hpp:70`: without a response nothing looks at the cancel event.

The properties that hold name their exceptions. These are behaviours of the code
a reader may not expect, each visible when the exception is taken out of the
property:

* `JobEnds` and `LimitStops` except jobs with a size of exactly a header, in the
  three modules: of such a request or response nothing is sent
  (`protocol.cpp:104`), but the response is waited for. Reversed ranges and
  wrapping sweeps give such a request, the unchecked response range such a
  response.
* `BugOnlyOnFragmentOrSize`, `BugOnlyOnSizes` and `EndsExplained` name the sizes
  that reach a `BUG_ON` of the client (`protocol.cpp:55`, `58`): responses of 1 to
  23 bytes and requests below 24. `comsettings.hpp:82` looks at each bound of the
  requests and never at the order of a range, so a reversed one
  (`requestor.hpp:85`) and a sweep over 2^32 (`requestor.hpp:90`) give both.
* `ResponderEnds`, `JobEnds` of Babbler and `CallEnds` except a thread whose `errno`
  is a stale `EAGAIN`: after one wakeup for nothing, `recvfrom` returning 0 at the
  end of the stream is taken for another one, and the thread spins
  (`socket.cpp:250`); a responder keeps its permit.
* `ReceivedWithin` needs responses: with response size 0 and a receive limit that
  is not a multiple of 32, the size wraps at `requestor.hpp:54` and the client
  asks for almost 4 GB.
* `TimeLimit` needs a status interval: `-s 0` makes `alarm (0)` at
  `application.cpp:175`, and the running time is never counted.
* `RateSane` excepts a status between the assignments of `m_requestor` and
  `m_startTime` (`client.cpp:120`, `134`): its duration is the time since the
  epoch of the clock, and the next period is wrong too.
* `EndsExplained` names what ends a thread or a process over UDP: a response no
  datagram holds ends one server thread each (`socket.cpp:277`); a doubled
  datagram ends the client process (`protocol.cpp:80`); a message that is not one
  datagram can end either process, as its pieces go to different threads.
* `Accepted` shows that three numbers, a sweep by the comment at
  `comsettings.hpp:35`, always throw: line 62 reads the fourth.
* `StopsOnInterrupt` is checked for clients that wait for responses; without them
  it fails like `TimeLimit` in the fourth violated run.

### Bounds and why they are enough

* Babbler: header 2, buffer 5, 4 bytes in flight, requests of 1, 2, 3 and 6
  bytes, responses of 0, 1, 2 and 5, three jobs: 534,000 states. The buffer is
  smaller than some messages (chunks, several receives) and larger than others
  (behind a message of 3 there may be a fragment of the next header or the whole
  header); messages of 5 and 6 exceed what the connection holds, so senders block.
  A size of 1 stands for those below a header, 2 is only a header, a response of
  0 is none. The pairs of requests that matter are adjacent, so three jobs
  suffice.
* ReceiveCall: up to eight bytes, calls for a header of 3 in a buffer of 5, and
  for the rest of a message; wakeups for nothing, the end, a reset and the cancel
  event at any moment. A call is over after at most three short reads, so eight
  bytes cover several calls.
* Datagram: two clients, two threads, two jobs each, one fault; header 2, buffers
  of 4 and 6, datagrams of at most 5; ten pairs of sizes, 456,000 states. Messages
  of one datagram, of two, larger than the receiver's buffer and larger than a
  datagram, of only a header and below, no response. Two jobs make a late
  answer possible, two threads a message whose pieces go apart. The payload
  counts modulo 256 in the code; sequence numbers stay far below it here, so an
  accidental match after 256 is left out.
* Requestor: `MIN_LEN` 4, header 3, 32 for 2^32; options of the three kinds with
  minima on both sides of `2 * MIN_LEN - 1`, no or too small responses, a reversed
  range, a sweep that runs over the top, and options that are refused; limits of
  0, below, at and above one message. At least one limit is given so that the
  counters stay finite. Limits of 0 and below are "no limit" in the code: 0 here.
* ServerPool: two listeners, a stateless thread and three connections on two
  permits: as many permits as listeners, fewer than connections, and one more
  when the stateless thread ends.
* Descriptors: three threads, two numbers, three sockets, four handles, symmetric
  in all of them. Each number is used by more than one socket in turn, and a
  number can have several handles in different threads.
* Application: two clients; a time of 5 in intervals of 2, so the last interval
  is a shortened one.
* ClientStatistics: two jobs of two octets each way, a clock of four steps. The
  clock is `steady_clock` in milliseconds, which counts from the start of the
  machine, and stays below `Word`: a machine that has been up for 49 days, after
  which the unsigned differences wrap, is outside this model.

`elapsed` and `sinceStatus` are history counters that stop at their limits;
`lost`, `doubled`, `split`, `oversize`, `undersize`, `reported`, `since` and `end`
are history that no guard of the code looks at. `MaxFaults` of `Datagram` is the
bound on `lost + doubled`.

### Fairness

* Babbler: weak fairness of each thread, and nothing of the network or of the
  cancellation. The operating system runs a thread that can run.
* ReceiveCall: `poll` returns when there is something to report (it may return
  without, but need not) and the thread runs; nothing need arrive or be cancelled.
* Datagram: every thread runs; the network delivers what it does not lose, which
  is the fairness of the thread that takes it.
* Requestor: the client thread runs and a job whose messages have a payload ends,
  which is `JobEnds` of Babbler; for one with a size of only a header, which
  `JobEnds` excepts, `Finish` is not enabled.
* ServerPool: listeners and ending threads run. A client hangs up some day and
  its responder notices it: an assumption, not something the code guarantees. A
  responder that spins (`ResponderEnds` of Babbler) keeps its permit like one
  whose client stays for ever, and `Served` says nothing of such runs. Accept
  need not fail.
* Application: time passes, `connect` returns (the kernel gives up some day),
  the main thread and ending clients run. A client need not finish its jobs. A
  cancelled client leaves its wait because `recv` polls the event; a client
  stuck in `send` to a peer that does not read is outside this model, and
  `HalfDuplex` shows that a responder of this code always reads.

Deadlock is checked everywhere except in `server_pool_ports`, where the server
stopping is what the run shows.

## Proofs

All theorems hold for every value of the constants under the assumption named in
the module (`BabblerAssumption` and so on), which each run evaluates. What the
code ensures of these: a header fits in the buffer with at least an octet of
payload (`--buf-size` is at least 64); the numbers of an option are unsigned;
clients and servers are different sets of threads, and a stateless server has
one; `recv` is never asked for more than its buffer holds; the semaphore begins
with a permit. What is assumed of the environment: threads, handles and clients
are finitely many, and the clock of `ClientStatistics` does not reach `Word`.
Nothing is assumed of the sizes of requests and responses in `Babbler` and
`Datagram`: any natural number may be drawn, 0 and those below a header
included.

`Invariant` of each module is `Spec => []` of its inductive invariant, and the
other theorems follow from it; the lemmas have one per action. Most properties
are not inductive by themselves, and what the invariant adds is the explanation
of why they hold.

| Module | Theorems | of the properties |
| --- | --- | --- |
| BabblerProofs | Invariant, TypeCorrect, NeverException, BugConditions, LeftoversSafe, OneDirection, DeliveredInOrder, CountsRight, StatisticsAgree, Refinement | StreamInv, TypeOK, NoProtocolException, BugOnlyOnFragmentOrSize, UnparsedIntact, HalfDuplex, InOrder, Counted, StatsAgree, ImplementsRequestReply |
| ReceiveCallProofs | Invariant, Refinement | CallInv, ImplementsContract |
| DatagramProofs | Invariant, WhyItEnds, AnswersFit | SharedInv, EndsExplained, AnswerFits |
| RequestorProofs | Invariant, TypeCorrect, RequestsInRange, SendLimitKept, SendLimitExact, RecvLimitKept, NoBugOnSizes | SizesInv, TypeOK, RequestInRange, SentWithin, StopsExactly, ReceivedWithin, BugOnlyOnSizes |
| ServerPoolProofs | Invariant, ThreadsBounded, ListsBounded, ThreadsKept, SemaphoreKept | PermitInv, BusyBounded, ListBounded, NoThreadLost, SemaphoreOutlives |
| DescriptorsProofs | Invariant, OwnSocketKept | CountInv, OwnSocket |
| ApplicationProofs | Invariant, SummaryFinal, TimeNotOverdrawn, NoEarlyEnd | LoopInv, SummaryIsFinal, NoBug, NotBeforeTime |
| ClientStatisticsProofs | Invariant, Snapshots, Summary, Rates | SnapshotInv, SnapshotsWhole, SummaryExact, RateSane |

**BabblerProofs.** That `receive()` finds a header where it looks needs (1) the
layout of the streams: messages lie end to end, and how much of the last one is
out follows from the loop variables of `send()`; (2) the buffer: the first
unparsed byte is the first byte of the next message, and nothing below it
matters; (3) the conversation: only the last request may still wait for an
answer, so when the responder writes a response into its buffer nothing unparsed
is in it, and when the client sends, it has read everything. These are
`WireLayout`, `Progress`, and `JobProgress` with `Conversation`. `StatsAgree`
compares counters of two threads between two jobs only; `Counted` says of each
counter at any time which bytes it stands for (those of the messages begun, less
what is still to be handed over; those taken, less what is not yet parsed), and
with the layout of the stream the sums at the two ends are the same.

**ReceiveCallProofs.** `Refinement` needs that a call which has stored something
has less than it asked for: otherwise the loop would be over, and a step of the
contract missed.

**DatagramProofs.** While no message is split, `Whole` (every piece is a message
and is received as one, and a thread answers the client it took the request
from) and `Fits` (no message has a sequence number of a job to come, and those
of the current one ask for its size) are what `AnswerFits` follows from, even
with doubled datagrams. That nothing ends the client (`EndsExplained`) needs
`Once`: as long as nothing was doubled, a request that wants an answer, or its
answer, is in one place only (under way or with one thread), and its client is
waiting for it. `Traffic` is what stays true when messages are split.

**RequestorProofs.** `SizesInv` says of the request about to be sent that it is in
range and what it leaves of the limit (nothing, a message, or less than what it
overshoots by), and the same of the response. `SendLimitExact` (exactly the limit)
holds when requests are at least 63 bytes and the limit at least 32.
`SettingsType` is what the constructor of the settings guarantees, `FittedRange`
the lemma about `isLimitReached`, `DrawRange` the one about random and swept
sizes.

**ServerPoolProofs.** The bound on threads is the conservation of permits: those
in the semaphore, with accepting listeners and with threads are together at most
the initial ones and those posted by stateless threads (`PermitsKept`; at most,
as a failed `accept` loses one). The bound of a list is about the end of its
cleanup: of the threads a cleanup has passed and will pass, those that stay
(`Survivors`) held a permit when it began. Joins before destruction follow from
`ListsOwn`: a thread that may still run is in the list of the one listener whose
port it came to. For this `Nobody`, the port of a connection not made yet, is no
listener, which is an assumption.

**DescriptorsProofs.** The count of a number is exactly the number of its
counted handles (`RefsExact`), and what was read under the lock is still the
count when it is written (`LockKept`). This is not enough: a clone is not counted
at once, and the number must not be closed meanwhile. `CloneHeld` says why it is
not: the thread that clones holds on to the handle it clones from.

**ApplicationProofs.** The clock, the remaining time and the ticks of the alarm
keep in step with what really passed (`InStep`), however late an alarm is
handled; each end of a client is in `running` or in the counter of the event
(`CountsEveryEnd`); what `poll` has reported is still there (`ReportedThere`).
`InStep` is stated for a run without a time limit, too, where the remaining time
stays 0.

**ClientStatisticsProofs.** A snapshot copies the counters in two steps, and the
client adds to them in two. `LockHeld` and `Updates` say what the client will
add under the lock, so that between the steps only the sender's or the receiver's
half is unfinished; `Copies` that what was copied after the client ended is final,
which makes the summary exact; `Timing` and `Durations` how the periods follow
from `m_startTime` and `m_finishedTime` whatever the unsigned differences wrap
to. `Rates` is an action property: lemma `OnlyResultReports` finds the step,
`PeriodSane` does the arithmetic.

Five things were found by proving. `LoopInv` of `Application` was not inductive
for a running time of 0, nor `CountInv` of `Descriptors` without `CloneHeld`,
and `CallInv` of `ReceiveCall` was too weak for the refinement; `ServerPool`
needed `Nobody` apart from the listeners; and `Datagram` did not say that sizes
are numbers. TLC saw none of them on the instances of the runs.

`SharedInv` of `Datagram`, `SnapshotInv` of `ClientStatistics` and `Counted` are proved but are
not properties of a run; checked with TLC on the instances of the runs they hold.

Only model-checked:

* Liveness, which is beyond the prover used: `JobEnds` and `ResponderEnds` of
  `Babbler`, `CallEnds`, `JobEnds` of `Datagram`, `LimitStops`, `Served`,
  `TimeLimit`, `StopsOnInterrupt`.
* The four violated properties, which are shown by their counterexamples.

Every safety invariant, every action property and both refinements that a
passing run checks are theorems.

## Not modelled, and the plan

Not modelled:

* The value parser: regular expressions over strings of the command line, pure
  and without state; the port ranges it returns are the listeners of
  `ServerPool`. Value formatter, error strings and the printout: text only.
* `libcmdline`, a submodule whose directory is empty.
* Address resolution, binding to local addresses and socket options; what SCTP,
  DCCP and raw sockets do differently from TCP and UDP.
* The constructors of `cComSettings` that take numbers, and the counters
  `m_errors` and `m_timeouts`: nothing uses them.
* `m_connDescription`, a string the main thread prints while the client thread
  may be setting it: a data race with no state behind it.
* Failures of `sem_init`, `sem_post`, `eventfd`, `std::thread` and `new`, which
  end the process.

What could come next:

1. The modules are proved one by one; that they fit together is argued in the
   text above ("what each takes from the others"). One of these arguments could
   be a theorem: that the steps of `ClientStatistics` that count are those of
   `Babbler`.
2. `Datagram` could say more of split messages: a message larger than a buffer
   but received by the only thread in the order it was sent arrives whole.
3. A bound of `Descriptors`: the last handle of a number closes it, so at the end
   every number is free.
