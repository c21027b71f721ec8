-------------------------- MODULE ReceiveContract --------------------------
(***************************************************************************)
(* What cBabblerProtocol::receive relies on when it calls cSocket::recv on *)
(* a connection: it gets at least what it asked for, in the order of the   *)
(* stream and with nothing left out, or the connection is at its end, or   *)
(* the client is to end.  RecvHeader, RecvBody, ConnectionLost and         *)
(* RecvCancelled of Babbler are these outcomes.                            *)
(***************************************************************************)
EXTENDS Integers

CONSTANTS
  Calls,      (* what is asked for: len, and atleast of it                 *)
  MaxArrive   (* bound: bytes that ever arrive                             *)

VARIABLES
  phase,      (* "idle", "call", or "over" after an exception              *)
  call,       (* what the call asks for                                    *)
  delivered,  (* bytes of the stream that calls have returned              *)
  arrived,    (* bytes of the stream the kernel has received               *)
  eof,        (* the peer has closed the connection                        *)
  broken,     (* the connection was reset                                  *)
  cancel      (* the cancel event has been sent                            *)

vars == <<phase, call, delivered, arrived, eof, broken, cancel>>
envVars == <<arrived, eof, broken, cancel>>

(* As long as bytes are due that many must have come.                      *)
Due(c) == IF c.atleast = 0 THEN 1 ELSE c.atleast
-----------------------------------------------------------------------------
Enter ==
  /\ phase = "idle" /\ phase' = "call"
  /\ call' \in Calls
  /\ UNCHANGED <<delivered, envVars>>

(* Nothing may be returned when nothing was required.                      *)
Return ==
  /\ phase = "call"
  /\ \E n \in call.atleast .. call.len :
       /\ delivered + n <= arrived
       /\ delivered' = delivered + n
  /\ phase' = "idle"
  /\ UNCHANGED <<call, envVars>>

(* errorException: what the peer sent before it closed the connection is   *)
(* delivered first, as far as it is enough.                                *)
Fail ==
  /\ phase = "call"
  /\ broken \/ (eof /\ arrived - delivered < Due(call))
  /\ phase' = "over"
  /\ UNCHANGED <<call, delivered, envVars>>

(* eventException.                                                         *)
GiveUp ==
  /\ phase = "call"
  /\ cancel
  /\ phase' = "over"
  /\ UNCHANGED <<call, delivered, envVars>>
-----------------------------------------------------------------------------
Arrive ==
  /\ ~eof /\ ~broken /\ arrived < MaxArrive
  /\ arrived' = arrived + 1
  /\ UNCHANGED <<phase, call, delivered, eof, broken, cancel>>

Close ==
  eof' = TRUE /\ UNCHANGED <<phase, call, delivered, arrived, broken, cancel>>
Break ==
  broken' = TRUE /\ UNCHANGED <<phase, call, delivered, arrived, eof, cancel>>
Cancel ==
  cancel' = TRUE /\ UNCHANGED <<phase, call, delivered, arrived, eof, broken>>

Environment == Arrive \/ Close \/ Break \/ Cancel

Init ==
  /\ phase = "idle" /\ call \in Calls /\ delivered = 0 /\ arrived = 0
  /\ eof = FALSE /\ broken = FALSE /\ cancel = FALSE

Next == Enter \/ Return \/ Fail \/ GiveUp \/ Environment

Spec == Init /\ [][Next]_vars
=============================================================================
