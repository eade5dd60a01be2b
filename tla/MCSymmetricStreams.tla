------------------------- MODULE MCSymmetricStreams -------------------------
(* One encryption and one decryption for TLC, blocks of three bytes.         *)
EXTENDS SymmetricStreams

CONSTANTS s1, s2

MCDecryptions == {s2}

=============================================================================
