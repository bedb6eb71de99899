------------------------------ MODULE MCServer ------------------------------
(* Server on the instance that TLC checks.                                  *)
EXTENDS Server, TLC

=============================================================================
