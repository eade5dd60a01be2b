---------------------------- MODULE MCMicroLedger ----------------------------
(***************************************************************************)
(* The instance of MicroLedger that TLC checks.                            *)
(***************************************************************************)
EXTENDS MicroLedger, TLC

\* One amount of each sign.
SignedAmounts == {-1, 1}
PositiveAmounts == {1}

Hashes == Permutations(TxHashes)

=============================================================================
