----------------------------- MODULE LarkTokenMC -----------------------------
(* LarkToken for TLC.                                                      *)
EXTENDS LarkToken
=============================================================================
