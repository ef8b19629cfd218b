----------------------------- MODULE MCSettings -----------------------------
(***************************************************************************)
(* Settings for TLC: one editable and one other setting, two fields that   *)
(* are set or not.                                                         *)
(***************************************************************************)
EXTENDS Settings

CONSTANTS authentication, metadata

MCKeyOrder == <<authentication, metadata>>
=============================================================================
