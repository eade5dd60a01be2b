---------------------------- MODULE HashTimeLock -----------------------------
(***************************************************************************)
(* What the two hash time-lock engines promise, with none of their states, *)
(* names or checks: an amount locked under a hash is held until it is paid *)
(* out against the secret, not after the lock's expiry, or returned, not   *)
(* before it; never both, and never held again.                            *)
(***************************************************************************)
EXTENDS Integers

CONSTANTS
  Contracts,
  Secrets     \* a hash lock is named by the one secret that opens it

VARIABLES
  now,        \* the clock
  phase,      \* contract -> "absent", "held", "paid" or "returned"
  opens,      \* contract -> the secret that opens it, once it is held
  expiry,     \* contract -> the instant its time lock runs out
  revealed    \* the secrets a claim has made public

htlVars == <<now, phase, opens, expiry, revealed>>

Init ==
  /\ now \in Int
  /\ phase = [c \in Contracts |-> "absent"]
  /\ revealed = {}

Hold(c) ==
  /\ phase[c] = "absent"
  /\ phase' = [phase EXCEPT ![c] = "held"]
  /\ opens'[c] \in Secrets
  /\ expiry'[c] \in Int
  /\ \A d \in Contracts \ {c} : opens'[d] = opens[d] /\ expiry'[d] = expiry[d]
  /\ UNCHANGED <<now, revealed>>

Pay(c) ==
  /\ phase[c] = "held"
  /\ now <= expiry[c]
  /\ phase' = [phase EXCEPT ![c] = "paid"]
  /\ revealed' = revealed \cup {opens[c]}
  /\ UNCHANGED <<now, opens, expiry>>

Return(c) ==
  /\ phase[c] = "held"
  /\ now >= expiry[c]
  /\ phase' = [phase EXCEPT ![c] = "returned"]
  /\ UNCHANGED <<now, opens, expiry, revealed>>

Tick == now' > now /\ UNCHANGED <<phase, opens, expiry, revealed>>

Next == Tick \/ \E c \in Contracts : Hold(c) \/ Pay(c) \/ Return(c)

Spec == Init /\ [][Next]_htlVars

=============================================================================
