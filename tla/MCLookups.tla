------------------------------- MODULE MCLookups --------------------------------
(* Small instances of Lookups for TLC.                                      *)
EXTENDS Lookups
=============================================================================
