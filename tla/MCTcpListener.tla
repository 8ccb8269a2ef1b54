--------------------------- MODULE MCTcpListener ---------------------------
(* TLC instances of TcpListener.  Eight sequence numbers with a request of *)
(* 2 and a response of 2: the first client starts at 7 and the second      *)
(* server sequence at 6, so the numbers of both directions wrap.           *)
EXTENDS TcpListener

CONSTANTS p1, p2, p3

Plain == [payload |-> "request", fin |-> FALSE]
WithFin == [payload |-> "request", fin |-> TRUE]
Unsupported == [payload |-> "other", fin |-> FALSE]

MCServerSequence == [p \in Peers |-> IF p = p1 THEN 1 ELSE 6]
MCClientSequence == [p \in Peers |-> IF p = p1 THEN 7 ELSE 3]

(* The first client may do all that a client does; the others stop after   *)
(* their SYN and occupy the table.                                         *)
MCRequests == [p \in Peers |-> IF p = p1 THEN {Plain, WithFin, Unsupported} ELSE {}]
=============================================================================
