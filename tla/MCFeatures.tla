------------------------------ MODULE MCFeatures ------------------------------
(* The instance of Features that TLC checks.                                *)
EXTENDS Features
==============================================================================
