----------------------------- MODULE MCDatagram ------------------------------
EXTENDS Datagram

(* One datagram each way, of two lengths; no response; a request of two    *)
(* datagrams and a response the client's buffer does not hold; a response  *)
(* no datagram holds; sizes of only a header and below.                    *)
MCSizes == {[req |-> 3, resp |-> 4], [req |-> 3, resp |-> 3], [req |-> 4, resp |-> 0],
            [req |-> 5, resp |-> 5], [req |-> 3, resp |-> 6],
            [req |-> 3, resp |-> 2], [req |-> 2, resp |-> 3], [req |-> 2, resp |-> 0],
            [req |-> 3, resp |-> 1], [req |-> 1, resp |-> 3]}
=============================================================================
