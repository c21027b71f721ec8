--------------------------- MODULE MCReceiveCall ---------------------------
EXTENDS ReceiveCall

(* For a header of 3 in a buffer of 5, and for the rest of a message.      *)
MCCalls == {[len |-> 5, atleast |-> 3], [len |-> 5, atleast |-> 0], [len |-> 2, atleast |-> 0]}
=============================================================================
