---------------------------- MODULE MCErrorCodes ----------------------------
(* Every code that error.rs tells apart, the ones around them, and the     *)
(* values that mean success.                                               *)
EXTENDS ErrorCodes

MCCodes == -275 .. 2

=============================================================================
