------------------------------ MODULE MCPkcs11 ------------------------------
(* One instance of Pkcs11 for TLC: a card with one PIN and a card that no    *)
(* framework binds.                                                          *)
EXTENDS Pkcs11

CONSTANTS h1, h2

MCAtomicOption == <<FALSE, TRUE>>
MCSessionFlags == [h \in Handles |-> IF h = h1 THEN {TRUE} ELSE {FALSE}]
MCPins == [k \in Kinds |-> IF k = "card" THEN 1 ELSE 0]

=============================================================================
