------------------------------- MODULE MCRook ------------------------------
(***************************************************************************)
(* A small instance of Rook for TLC.                                       *)
(***************************************************************************)
EXTENDS Rook

\* Many datagrams at one moment, a session that lasts, and one where UDP is blocked.
MCLimits ==
  {[tcp |-> 0, udp |-> 3, seq |-> 10, copies |-> 2, time |-> FALSE, vain |-> FALSE],
   [tcp |-> 4, udp |-> 0, seq |-> 1, copies |-> 1, time |-> TRUE, vain |-> FALSE],
   [tcp |-> 1, udp |-> 0, seq |-> 1, copies |-> 1, time |-> TRUE, vain |-> TRUE]}
=============================================================================
