----------------------------- MODULE MCFilters -----------------------------
(***************************************************************************)
(* Filters with one state code that a client writes in lower case.         *)
(***************************************************************************)
EXTENDS Filters

MCUpper(s) == IF s = "ca" THEN "CA" ELSE s
=============================================================================
