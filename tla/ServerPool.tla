----------------------------- MODULE ServerPool -----------------------------
(***************************************************************************)
(* The server side of net-babbler: every cStatefulServer has a listener    *)
(* thread that accepts connections and gives each a cResponderThread; all  *)
(* listeners share the semaphore maxConnThreadCount.  The responder        *)
(* threads of the cStatelessServers share the semaphore too, but only to   *)
(* post to it.  What a responder does with its connection is in Babbler.   *)
(*                                                                         *)
(* A connection and the responder thread that serves it have one name.     *)
(***************************************************************************)
EXTENDS Integers, FiniteSets

CONSTANTS
  Listeners,  (* the stateful servers: one per port and protocol           *)
  Workers,    (* the responder threads of the stateless servers            *)
  Conns,      (* the connections clients open                              *)
  Limit       (* initial value of maxConnThreadCount, 1000 in the code     *)

(* No listener: the connection has not been opened.                        *)
Nobody == "nobody"

ASSUME ServerPoolAssumption ==
  /\ IsFiniteSet(Listeners) /\ IsFiniteSet(Workers) /\ IsFiniteSet(Conns)
  /\ Workers \cap Conns = {}
  /\ Nobody \notin Listeners
  /\ Limit \in Nat \ {0}

VARIABLES
  listener,   (* where each listener thread is                             *)
  list,       (* m_connThreads of each stateful server                     *)
  toVisit,    (* members of the list its cleanup loop has still to look at *)
  thread,     (* where each responder thread is                            *)
  port,       (* where the client of each connection is                    *)
  hungUp,     (* connections their client has closed                       *)
  permits,    (* the value of maxConnThreadCount                           *)
  main        (* where the main thread is in the destructors               *)

vars == <<listener, list, toVisit, thread, port, hungUp, permits, main>>

Responders == Workers \cup Conns

(* A connection nobody has asked for, or not accepted yet: port[c] is the  *)
(* listener whose backlog it waits in.                                     *)
Pending(l) == {c \in Conns : port[c] = l /\ thread[c] = "none"}
-----------------------------------------------------------------------------
(***************************************************************************)
(* The listener thread.                                                    *)
(***************************************************************************)

(* cSocket::listen succeeds; otherwise the thread ends before its loop.    *)
Listen(l) ==
  /\ listener[l] = "starting"
  /\ \E s \in {"waiting", "ended"} : listener' = [listener EXCEPT ![l] = s]
  /\ UNCHANGED <<list, toVisit, thread, port, hungUp, permits, main>>

(* Mutation: the wait does not block.                                      *)
TakePermitUnguarded(l) ==
  /\ listener[l] = "waiting"
  /\ permits'  = permits - 1
  /\ listener' = [listener EXCEPT ![l] = "accepting"]
  /\ UNCHANGED <<list, toVisit, thread, port, hungUp, main>>

(* m_threadLimit.wait, before there is a connection to serve.              *)
TakePermit(l) ==
  /\ listener[l] = "waiting"
  /\ permits > 0
  /\ permits'  = permits - 1
  /\ listener' = [listener EXCEPT ![l] = "accepting"]
  /\ UNCHANGED <<list, toVisit, thread, port, hungUp, main>>

(* accept returns a connection: its thread starts, is appended to the list *)
(* and the cleanup loop begins.                                            *)
Accept(l) ==
  /\ listener[l] = "accepting"
  /\ \E c \in Pending(l) :
       /\ thread'  = [thread EXCEPT ![c] = "running"]
       /\ list'    = [list EXCEPT ![l] = @ \cup {c}]
       /\ toVisit' = [toVisit EXCEPT ![l] = list'[l]]
  /\ listener' = [listener EXCEPT ![l] = "cleaning"]
  /\ UNCHANGED <<port, hungUp, permits, main>>

(* accept fails: the errorException ends the thread with its permit.       *)
AcceptFails(l) ==
  /\ listener[l] = "accepting"
  /\ listener' = [listener EXCEPT ![l] = "ended"]
  /\ UNCHANGED <<list, toVisit, thread, port, hungUp, permits, main>>

(* The cleanup loop looks at a thread that is not finished.                *)
Keep(l, c) ==
  /\ thread[c] = "running"
  /\ UNCHANGED list

(* It looks at a finished one: the destructor joins it.                    *)
Remove(l, c) ==
  /\ thread[c] = "exited"
  /\ list' = [list EXCEPT ![l] = @ \ {c}]

(* Mutation: the destructor does not join.                                 *)
VisitWithoutJoin(l) ==
  /\ listener[l] = "cleaning"
  /\ \E c \in toVisit[l] :
       /\ toVisit' = [toVisit EXCEPT ![l] = @ \ {c}]
       /\ \/ Keep(l, c)
          \/ /\ thread[c] \in {"finished", "exited"}
             /\ list' = [list EXCEPT ![l] = @ \ {c}]
  /\ UNCHANGED <<listener, thread, port, hungUp, permits, main>>

(* Mutation: the cleanup loop looks only at the first of the list.         *)
VisitOne(l) ==
  /\ listener[l] = "cleaning"
  /\ \E c \in toVisit[l] :
       /\ toVisit' = [toVisit EXCEPT ![l] = {}]
       /\ Keep(l, c) \/ Remove(l, c)
  /\ UNCHANGED <<listener, thread, port, hungUp, permits, main>>

(* One turn of the cleanup loop.                                           *)
Visit(l) ==
  /\ listener[l] = "cleaning"
  /\ \E c \in toVisit[l] :
       /\ toVisit' = [toVisit EXCEPT ![l] = @ \ {c}]
       /\ Keep(l, c) \/ Remove(l, c)
  /\ UNCHANGED <<listener, thread, port, hungUp, permits, main>>

(* The loop is through: back to m_threadLimit.wait.                        *)
Cleaned(l) ==
  /\ listener[l] = "cleaning"
  /\ toVisit[l] = {}
  /\ listener' = [listener EXCEPT ![l] = "waiting"]
  /\ UNCHANGED <<list, toVisit, thread, port, hungUp, permits, main>>
-----------------------------------------------------------------------------
(***************************************************************************)
(* The responder threads.                                                  *)
(***************************************************************************)

(* doJob throws an errorException and m_finished is set.  A connection is  *)
(* lost at any time, a client that hung up is noticed; a stateless thread  *)
(* ends, say, when a response does not fit into a datagram.                *)
Finish(r) ==
  /\ thread[r] = "running"
  /\ thread' = [thread EXCEPT ![r] = "finished"]
  /\ UNCHANGED <<listener, list, toVisit, port, hungUp, permits, main>>

(* Mutation: the thread ends without a post.                               *)
PostForgotten(r) ==
  /\ thread[r] = "finished"
  /\ thread' = [thread EXCEPT ![r] = "exited"]
  /\ UNCHANGED <<listener, list, toVisit, port, hungUp, permits, main>>

(* threadLimit.post, the last thing a thread does.                         *)
Post(r) ==
  /\ thread[r] = "finished"
  /\ thread' = [thread EXCEPT ![r] = "exited"]
  /\ permits' = permits + 1
  /\ UNCHANGED <<listener, list, toVisit, port, hungUp, main>>
-----------------------------------------------------------------------------
(***************************************************************************)
(* The clients, and the end of the process.                                *)
(***************************************************************************)

(* The kernel queues a connection for a listening socket.                  *)
Connect(c, l) ==
  /\ port[c] = Nobody
  /\ listener[l] \notin {"starting", "ended"}
  /\ port' = [port EXCEPT ![c] = l]
  /\ UNCHANGED <<listener, list, toVisit, thread, hungUp, permits, main>>

HangUp(c) ==
  /\ port[c] # Nobody
  /\ c \notin hungUp
  /\ hungUp' = hungUp \cup {c}
  /\ UNCHANGED <<listener, list, toVisit, thread, port, permits, main>>

(* cApplication::execute leaves the scope of the servers: the stateless    *)
(* ones are destroyed first, with a join of each of their threads, ...     *)
JoinWorkers ==
  /\ main = "workers"
  /\ \A w \in Workers : thread[w] = "exited"
  /\ main' = "servers"
  /\ UNCHANGED <<listener, list, toVisit, thread, port, hungUp, permits>>

(* Mutation: ~cStatefulServer deletes its list without a join.             *)
JoinServersOnlyListeners ==
  /\ main = "servers"
  /\ \A l \in Listeners : listener[l] = "ended"
  /\ main' = "over"
  /\ UNCHANGED <<listener, list, toVisit, thread, port, hungUp, permits>>

(* ... then the stateful ones, with a join of the listener and of all the  *)
(* threads it left in its list, and the semaphore last.                    *)
JoinServers ==
  /\ main = "servers"
  /\ \A l \in Listeners : /\ listener[l] = "ended"
                          /\ \A c \in list[l] : thread[c] = "exited"
  /\ main' = "over"
  /\ UNCHANGED <<listener, list, toVisit, thread, port, hungUp, permits>>

Over == main = "over" /\ UNCHANGED vars
-----------------------------------------------------------------------------
Init ==
  /\ listener = [l \in Listeners |-> "starting"]
  /\ list     = [l \in Listeners |-> {}]
  /\ toVisit  = [l \in Listeners |-> {}]
  /\ thread   = [r \in Responders |-> IF r \in Workers THEN "running" ELSE "none"]
  /\ port     = [c \in Conns |-> Nobody]
  /\ hungUp   = {}
  /\ permits  = Limit
  /\ main     = "workers"

Listening(l) ==
  \/ Listen(l)
  \/ TakePermit(l)
  \/ Accept(l)
  \/ Visit(l)
  \/ Cleaned(l)

Main == JoinWorkers \/ JoinServers

Next ==
  \/ \E l \in Listeners : Listening(l) \/ AcceptFails(l)
  \/ \E r \in Responders : Finish(r) \/ Post(r)
  \/ \E c \in Conns : HangUp(c) \/ \E l \in Listeners : Connect(c, l)
  \/ Main
  \/ Over

Spec == Init /\ [][Next]_vars

(* Threads that can run do, a client hangs up some day (its count, its     *)
(* time or its patience ends) and its responder notices.  One that was     *)
(* woken for nothing before does not (ResponderEnds of Babbler) and keeps  *)
(* its permit, like one whose client stays for ever: what follows is for   *)
(* runs in which no client stays.  No accept need fail.                    *)
FairSpec ==
  /\ Spec
  /\ \A l \in Listeners : WF_vars(Listening(l))
  /\ \A r \in Responders : WF_vars(Post(r))
  /\ \A c \in Conns : WF_vars(HangUp(c)) /\ WF_vars(c \in hungUp /\ Finish(c))
-----------------------------------------------------------------------------
(***************************************************************************)
(* Properties.                                                             *)
(***************************************************************************)

(* Every variable holds a value of its type.                               *)
TypeOK ==
  /\ listener \in [Listeners -> {"starting", "waiting", "accepting", "cleaning", "ended"}]
  /\ list \in [Listeners -> SUBSET Conns]
  /\ toVisit \in [Listeners -> SUBSET Conns]
  /\ thread \in [Responders -> {"none", "running", "finished", "exited"}]
  /\ port \in [Conns -> Listeners \cup {Nobody}]
  /\ hungUp \subseteq Conns
  /\ permits \in Nat
  /\ main \in {"workers", "servers", "over"}

(* Responder threads of connections that hold a permit.                    *)
Busy == {c \in Conns : thread[c] \in {"running", "finished"}}

(* The permits there are: the initial ones and one for each stateless      *)
(* thread that has ended.                                                  *)
Permits == Limit + Cardinality({w \in Workers : thread[w] = "exited"})

(* There are never more responder threads for connections than permits.    *)
BusyBounded == Cardinality(Busy) <= Permits

(* What a server keeps of its connections does not grow with their number: *)
(* the cleanup at each accept leaves at most as many threads as there are  *)
(* permits, and one is added before it.                                    *)
ListBounded ==
  \A l \in Listeners :
    Cardinality(list[l]) <= Permits + (IF listener[l] = "cleaning" THEN 1 ELSE 0)

(* A thread that may still run is in exactly one list, so it is joined     *)
(* before it and the semaphore are gone.                                   *)
NoThreadLost ==
  \A c \in Busy : \E l \in Listeners :
    /\ c \in list[l]
    /\ \A k \in Listeners \ {l} : c \notin list[k]

(* No thread posts to a semaphore that is destroyed.                       *)
SemaphoreOutlives ==
  main = "over" => \A r \in Responders : thread[r] \in {"none", "exited"}

(* A permit is free, held by a listener in accept or by a connection's     *)
(* thread, or went with a listener whose accept failed.                    *)
PermitsKept ==
  permits + Cardinality({l \in Listeners : listener[l] = "accepting"})
          + Cardinality(Busy) <= Permits

(* A thread is in the list of the listener that accepted its connection    *)
(* until it has exited.                                                    *)
ListsOwn ==
  /\ \A l \in Listeners : \A c \in list[l] : port[c] = l /\ thread[c] # "none"
  /\ \A c \in Busy : port[c] \in Listeners /\ c \in list[port[c]]
  /\ \A l \in Listeners : /\ toVisit[l] \subseteq list[l]
                          /\ listener[l] # "cleaning" => toVisit[l] = {}

(* What the cleanup loop has kept and will keep: threads that held a permit*)
(* when it began.                                                          *)
Survivors(l) == (list[l] \ toVisit[l]) \cup (list[l] \cap Busy)

(* The destructors go on only when the threads they joined are over.       *)
Joined ==
  /\ main # "workers" => \A w \in Workers : thread[w] = "exited"
  /\ main = "over" => \A l \in Listeners :
       listener[l] = "ended" /\ \A c \in list[l] : thread[c] = "exited"

(* What keeps the bounds, the lists and the semaphore: the parts hold      *)
(* together from step to step.                                             *)
PermitInv ==
  /\ TypeOK
  /\ PermitsKept
  /\ ListsOwn
  /\ \A l \in Listeners : Cardinality(Survivors(l)) <= Permits
  /\ Joined

(* The connections to a port nb listens on are accepted, unless accept     *)
(* failed once on that port: with a permit for every listener no port      *)
(* starves as long as the clients of the others leave and are seen to      *)
(* leave (serverstateful.cpp:55).                                          *)
Served ==
  \A l \in Listeners :
    Pending(l) # {} ~> Pending(l) = {} \/ listener[l] = "ended"

(* -l: "Listen for incoming connections on PORT".  Weaker than Served: no  *)
(* accept of any port may have failed.                                     *)
EveryPortListens ==
  \A c \in Conns, l \in Listeners :
    port[c] = l ~> thread[c] # "none" \/ \E k \in Listeners : listener[k] = "ended"
=============================================================================
