-------------------------------- MODULE Absence --------------------------------
(***************************************************************************)
(* What stands for undefined, null or a missing entry in the components    *)
(* that are checked together.                                              *)
(***************************************************************************)
CONSTANT None
=============================================================================
