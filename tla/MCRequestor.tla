---------------------------- MODULE MCRequestor ----------------------------
EXTENDS Requestor

(* Fixed, random and sweeping sizes; below, at and above the size that     *)
(* leaves room for a last message; without responses and with responses    *)
(* too small for a message; a reversed range; a sweep that wraps around;   *)
(* options that are not accepted.                                          *)
MCOptions ==
  { <<4>>, <<5, 5, 0, 0>>, <<7, 7, 6, 6>>, <<4, 9, 4, 6>>, <<7, 9, 0, 5>>,
    <<4, 9, 5, 11, 3>>, <<4, 9, 0, 0, 2>>, <<16, 24, 4, 4, 12>>, <<9, 6, 4, 4>>,
    <<4, 9, 3>>, <<3, 5>>, <<2, 2, 4, 4>> }
=============================================================================
