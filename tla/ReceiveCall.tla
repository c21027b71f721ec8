---------------------------- MODULE ReceiveCall ----------------------------
(***************************************************************************)
(* cSocket::recv on a connection, turn by turn: poll on the socket and the *)
(* cancel event, a recvfrom that does not block, and what is made of its   *)
(* result and of errno.  errno belongs to the thread and is only written   *)
(* by a call that fails, so it is still that of an earlier turn when       *)
(* recvfrom returns 0 for the end of the stream.                           *)
(*                                                                         *)
(* No timeout is ever set (m_timeout_ms is -1), and the signals of the     *)
(* client are blocked, so poll returns only when there is something.  It   *)
(* may report a socket that has nothing to read: the code expects that.    *)
(***************************************************************************)
EXTENDS Integers

CONSTANTS
  Calls,      (* the pairs of len and atleast receive() calls recv with    *)
  MaxArrive   (* bound: bytes that ever arrive                             *)

ASSUME ReceiveCallAssumption ==
  /\ Calls \subseteq [len : Nat \ {0}, atleast : Nat]
  /\ \A c \in Calls : c.atleast <= c.len
  /\ MaxArrive \in Nat

VARIABLES
  pc,         (* before or after poll, "idle" between two calls, or "over" *)
  call,       (* len and atleast of the last call                          *)
  received,   (* received, 0 when a call is not in progress                *)
  taken,      (* bytes of the stream recvfrom has returned                 *)
  revents,    (* what poll reported                                        *)
  again,      (* errno is EAGAIN                                           *)
  delivered, arrived, eof, broken, cancel   (* as in ReceiveContract       *)

envVars == <<arrived, eof, broken, cancel>>
vars == <<pc, call, received, taken, revents, again, delivered, envVars>>

Lesser(a, b) == IF a <= b THEN a ELSE b

Unread == arrived - taken
-----------------------------------------------------------------------------
(* receive() calls recv.                                                   *)
Enter ==
  /\ pc = "idle"
  /\ call' \in Calls
  /\ pc' = "poll"
  /\ UNCHANGED <<received, taken, revents, again, delivered, envVars>>

(* poll returns; "in" need not mean that there is something to read.       *)
Poll ==
  /\ pc = "poll"
  /\ revents' \in (SUBSET {"in", "err", "event"}) \ {{}}
  /\ Unread > 0 \/ eof \/ broken => "in" \in revents'
  /\ "err" \in revents' <=> broken
  /\ "event" \in revents' <=> cancel
  /\ pc' = "turn"
  /\ UNCHANGED <<call, received, taken, again, delivered, envVars>>

(* The rest of a turn, with n bytes received in this call so far.          *)
GoOn(n) ==
  IF "event" \in revents
  THEN /\ pc' = "over"
       /\ received' = 0
       /\ UNCHANGED delivered
  ELSE IF n < call.atleast
  THEN /\ pc' = "poll"
       /\ received' = n
       /\ UNCHANGED delivered
  ELSE /\ pc' = "idle"
       /\ received' = 0
       /\ delivered' = delivered + n

Throw ==
  /\ pc' = "over"
  /\ received' = 0
  /\ UNCHANGED <<taken, again, delivered>>

(* Mutation: what earlier turns received is not added up.                  *)
TakeOverwrites ==
  /\ Unread > 0
  /\ \E n \in 1 .. Lesser(call.len - received, Unread) :
       taken' = taken + n /\ GoOn(n)
  /\ UNCHANGED again

(* recvfrom returns bytes: what came before a reset may still be read.     *)
Take ==
  /\ Unread > 0
  /\ \E n \in 1 .. Lesser(call.len - received, Unread) :
       taken' = taken + n /\ GoOn(received + n)
  /\ UNCHANGED again

(* Mutation: errno is taken for an error whatever it is.                   *)
WouldBlockThrows == ~broken /\ ~eof /\ Unread = 0 /\ Throw

(* recvfrom would block: errno is EAGAIN from now on.                      *)
WouldBlock ==
  /\ ~broken /\ ~eof /\ Unread = 0
  /\ again' = TRUE
  /\ GoOn(received)
  /\ UNCHANGED taken

(* Mutation: a result of 0 is taken for nothing to read.                   *)
AtEndIgnored ==
  /\ ~broken /\ eof /\ Unread = 0
  /\ GoOn(received) /\ UNCHANGED <<taken, again>>

(* recvfrom returns 0: an exception, unless errno is EAGAIN from before.   *)
AtEnd ==
  /\ ~broken /\ eof /\ Unread = 0
  /\ IF again THEN GoOn(received) /\ UNCHANGED <<taken, again>> ELSE Throw

(* The body of the loop behind poll.                                       *)
Turn ==
  /\ pc = "turn"
  /\ \/ "err" \in revents /\ Throw
     \/ /\ "err" \notin revents /\ "in" \in revents
        /\ Take \/ WouldBlock \/ AtEnd \/ (broken /\ Throw)
     \/ /\ revents = {"event"}
        /\ GoOn(received) /\ UNCHANGED <<taken, again>>
  /\ revents' = {}
  /\ UNCHANGED <<call, envVars>>

(* The exception ends the thread's loop.                                   *)
Over == pc = "over" /\ UNCHANGED vars
-----------------------------------------------------------------------------
(***************************************************************************)
(* The peer, the network and terminateAll.                                 *)
(***************************************************************************)

callVars == <<pc, call, received, taken, revents, again, delivered>>

Arrive ==
  /\ ~eof /\ ~broken /\ arrived < MaxArrive
  /\ arrived' = arrived + 1
  /\ UNCHANGED <<callVars, eof, broken, cancel>>

Close  == ~eof /\ eof' = TRUE /\ UNCHANGED <<callVars, arrived, broken, cancel>>
Break  == ~broken /\ broken' = TRUE /\ UNCHANGED <<callVars, arrived, eof, cancel>>
Cancel == ~cancel /\ cancel' = TRUE /\ UNCHANGED <<callVars, arrived, eof, broken>>
-----------------------------------------------------------------------------
Init ==
  /\ pc = "idle" /\ call \in Calls
  /\ received = 0 /\ taken = 0 /\ delivered = 0 /\ arrived = 0
  /\ revents = {} /\ again = FALSE
  /\ eof = FALSE /\ broken = FALSE /\ cancel = FALSE

Next == Enter \/ Poll \/ Turn \/ Over \/ Arrive \/ Close \/ Break \/ Cancel

Spec == Init /\ [][Next]_vars

(* The thread runs: poll returns when there is something to report, not    *)
(* necessarily otherwise.  Nothing need arrive and nobody need cancel.     *)
FairSpec ==
  /\ Spec
  /\ WF_vars((Unread > 0 \/ eof \/ broken \/ cancel) /\ Poll)
  /\ WF_vars(Turn)
-----------------------------------------------------------------------------
(***************************************************************************)
(* Properties.                                                             *)
(***************************************************************************)

InCall == pc \in {"poll", "turn"}

TypeOK ==
  /\ pc \in {"idle", "poll", "turn", "over"} /\ call \in Calls
  /\ received \in Nat /\ taken \in Nat /\ delivered \in Nat /\ arrived \in Nat
  /\ revents \subseteq {"in", "err", "event"}
  /\ again \in BOOLEAN /\ eof \in BOOLEAN /\ broken \in BOOLEAN /\ cancel \in BOOLEAN

(* recv never writes behind the buffer, and every byte it took is returned *)
(* or about to be, until an exception; what poll reported stays true       *)
(* (socket.cpp:215).                                                       *)
CallInv ==
  /\ TypeOK
  /\ taken <= arrived
  /\ pc # "over" => taken = delivered + received
  /\ pc = "over" => delivered <= taken
  /\ received <= call.len
  /\ InCall => received < call.atleast \/ received = 0
  /\ ~InCall => received = 0
  /\ "event" \in revents => cancel
  /\ "err" \in revents => broken
  /\ pc = "turn" => revents # {}

Contract == INSTANCE ReceiveContract WITH
  phase <- IF InCall THEN "call" ELSE pc

(* recv returns what receive() relies on: neither a wakeup for nothing nor *)
(* a short read is taken for an end, and an end is no reason to drop what  *)
(* came before it.                                                         *)
ImplementsContract == Contract!Spec

(* A call comes to its end when there is enough to return, and also when   *)
(* the client is to end, the connection was reset, or the peer has closed  *)
(* it, unless recvfrom has once been woken for nothing: then the thread    *)
(* does not see the end of the stream any more and spins.                  *)
CallEnds ==
  InCall /\ (cancel \/ broken \/ (eof /\ ~again) \/ received + Unread >= Contract!Due(call))
    ~> ~InCall
=============================================================================
