-------------------------- MODULE MCPolicyWitness --------------------------
(* The instance of PolicyWitness on which TLC checks progress: one keeper    *)
(* pass at a time, two conversations, and renewals that fall due as time     *)
(* passes. Overlapping passes are in MCService.                              *)
EXTENDS PolicyWitness
=============================================================================
