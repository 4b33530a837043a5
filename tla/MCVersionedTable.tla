-------------------------- MODULE MCVersionedTable --------------------------
(***************************************************************************)
(* A small instance of VersionedTable for TLC.  Keys do not influence each *)
(* other, so one key and two distinguishable entities show every way       *)
(* versions of an entity can be confused.                                  *)
(***************************************************************************)
EXTENDS VersionedTable

CONSTANTS k, a, b

MCKeys == {k}
MCValues == {a, b}
=============================================================================
