----------------------------- MODULE MCChannel -----------------------------
(***************************************************************************)
(* Small instances of Channel for TLC.                                     *)
(***************************************************************************)
EXTENDS Channel

CONSTANTS s1, s2, m1, m2

\* m1 is a message of two chunks.
MCChunks == m1 :> 2 @@ m2 :> 1

MCWindow1 == s1 :> 1 @@ s2 :> 1
MCWindow12 == s1 :> 1 @@ s2 :> 2
=============================================================================
