---------------------------- MODULE MCSosReport -----------------------------
(***************************************************************************)
(* SosReport for TLC.                                                      *)
(***************************************************************************)
EXTENDS SosReport
=============================================================================
