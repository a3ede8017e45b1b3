----------------------------- MODULE MCRegistry -----------------------------
(***************************************************************************)
(* Small instances of Registry for TLC.                                    *)
(***************************************************************************)
EXTENDS Registry, TLC

CONSTANTS u1, u2, u3, ip1, ip2

\* u1 and u2 are two ports of one NAT address.
MCIp == u1 :> ip1 @@ u2 :> ip1 @@ u3 :> ip2

Symmetry == Permutations(Slots) \cup Permutations(SinkId)
=============================================================================
