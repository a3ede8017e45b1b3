------------------------------- MODULE MCDrop -------------------------------
(***************************************************************************)
(* Small instances of DropTransfer for TLC.                                *)
(***************************************************************************)
EXTENDS DropTransfer, TLC

CONSTANTS f1, f2

MCTotal == f1 :> 3 @@ f2 :> 2
=============================================================================
