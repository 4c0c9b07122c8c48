------------------------------- MODULE MCSTM -------------------------------
(* Instances of STM for TLC.                                               *)
EXTENDS STM, TLC
=============================================================================
