----------------------- MODULE MCBlockchainProcessor -----------------------
(***************************************************************************)
(* Small instances of BlockchainProcessor for TLC.                         *)
(***************************************************************************)
EXTENDS BlockchainProcessor

CONSTANTS b1, b2

MCBlock == {b1, b2}
=============================================================================
