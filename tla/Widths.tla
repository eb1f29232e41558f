------------------------------- MODULE Widths -------------------------------
(***************************************************************************)
(* The largest values of the integers the program and the SDK share.       *)
(***************************************************************************)
CONSTANTS U16Max, U32Max, U64Max
=============================================================================
