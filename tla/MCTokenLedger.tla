---------------------------- MODULE MCTokenLedger ----------------------------
(***************************************************************************)
(* The instance of TokenLedger that TLC checks.                            *)
(***************************************************************************)
EXTENDS TokenLedger

\* With a bonus of 1 and a stake of 2: a transfer that the bonus covers and one
\* that it does not, and a mint that takes a token away.
SmallAmounts == {1, 2}
SignedMints == {-1}

=============================================================================
