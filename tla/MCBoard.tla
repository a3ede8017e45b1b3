------------------------------ MODULE MCBoard ------------------------------
(***************************************************************************)
(* Small instances of Board for TLC.                                       *)
(***************************************************************************)
EXTENDS Board, TLC

\* Each probes the other; of three, each probes the next.
MCPeers == [p \in Node |-> {(p % Cardinality(Node)) + 1}]
=============================================================================
