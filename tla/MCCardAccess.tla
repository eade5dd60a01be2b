---------------------------- MODULE MCCardAccess ----------------------------
(* Two applications for TLC, the second configured with lock_login.          *)
EXTENDS CardAccess

CONSTANTS p1, p2

MCLockLogin == {p2}

=============================================================================
