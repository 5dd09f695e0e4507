-------------------------- MODULE MCSendTransaction --------------------------
(* Instances of SendTransaction for TLC.                                   *)
EXTENDS SendTransaction
=============================================================================
