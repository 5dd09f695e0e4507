---------------------------- MODULE MCBatchRequest ----------------------------
(* Instances of BatchRequest for TLC.                                      *)
EXTENDS BatchRequest
CONSTANTS r1, r2, r3, stray
=============================================================================
