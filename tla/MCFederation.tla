---------------------------- MODULE MCFederation ---------------------------
(***************************************************************************)
(* Small instances of Federation for TLC.                                  *)
(***************************************************************************)
EXTENDS Federation, TLC

CONSTANTS h1, h2, b1

MCDials == {<<h1, h2>>}
MCLocal == h1 :> {b1} @@ h2 :> {b1}
=============================================================================
