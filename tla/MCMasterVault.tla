---------------------------- MODULE MCMasterVault ----------------------------
(***************************************************************************)
(* The instance of MasterVault that TLC checks.                            *)
(***************************************************************************)
EXTENDS MasterVault, TLC

SymmetricNames ==
  UNION {Permutations(S) : S \in {Users, Devices, Nonces}}

=============================================================================
