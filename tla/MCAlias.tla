------------------------------- MODULE MCAlias -------------------------------
(***************************************************************************)
(* Small instances of Alias for TLC: two accounts, one price, and two      *)
(* transactions that can create the alias.                                 *)
(***************************************************************************)
EXTENDS Alias, TLC

CONSTANTS alice, bob, t1, t2

MCAccount == {alice, bob}
MCTransactionId == {t1, t2}
MCPrice == {1}
Symmetry == Permutations(MCAccount) \cup Permutations(MCTransactionId)
=============================================================================
