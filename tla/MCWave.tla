------------------------------- MODULE MCWave -------------------------------
(* Instances of ValidatorWave for TLC.                                     *)
EXTENDS ValidatorWave, TLC
=============================================================================
