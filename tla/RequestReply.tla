---------------------------- MODULE RequestReply ----------------------------
(***************************************************************************)
(* What one client and its responder promise each other, with no word of   *)
(* streams, buffers and headers: requests are issued one at a time, served *)
(* in order and once each, and a job whose request wants a reply is        *)
(* complete only after that request was served.                            *)
(***************************************************************************)
EXTENDS Naturals

VARIABLES
  issued,     (* requests the client has issued                            *)
  wanted,     (* the last of them wants a reply                            *)
  served,     (* requests the responder has received                       *)
  completed   (* jobs the client has completed                             *)

vars == <<issued, wanted, served, completed>>

Init ==
  /\ issued = 0
  /\ wanted = FALSE
  /\ served = 0
  /\ completed = 0

(* The next job starts when the one before it is complete.                 *)
Issue ==
  /\ completed = issued
  /\ issued' = issued + 1
  /\ wanted' \in BOOLEAN
  /\ UNCHANGED <<served, completed>>

(* The responder gets the oldest request it has not yet served.            *)
Serve ==
  /\ served < issued
  /\ served' = served + 1
  /\ UNCHANGED <<issued, wanted, completed>>

(* A reply means that this request, and so every earlier one, was served.  *)
Complete ==
  /\ completed < issued
  /\ wanted => served = issued
  /\ completed' = completed + 1
  /\ UNCHANGED <<issued, wanted, served>>

Next == Issue \/ Serve \/ Complete

Spec == Init /\ [][Next]_vars
=============================================================================
