--------------------------- MODULE HtlcAtomicSwap ----------------------------
(***************************************************************************)
(* The engine of server/services/htlc_atomic_swap.py: contracts that lock  *)
(* an amount for a receiver under a hash and a time lock.  Every method    *)
(* holds the engine's lock from its first read to its last write, so each  *)
(* is one step; a call that raises changes nothing and is left out.        *)
(*                                                                         *)
(* The hash is taken to be injective: a hash lock is named by its secret.  *)
(* Amounts, symbols and chain names are never compared and are left out.   *)
(***************************************************************************)
EXTENDS Integers

CONSTANTS
  Contracts,    \* contract ids, drawn at random by the code
  Parties,      \* addresses
  Secrets,
  Durations,    \* duration_seconds, possibly negative
  None,
  MaxTime       \* bound on the clock

VARIABLES
  now,          \* time.time()
  contracts     \* contract id -> the HTLCContract, or None

vars == <<now, contracts>>

Contract == [sender : Parties, receiver : Parties, hashlock : Secrets,
             timelock_epoch : Int, secret_preimage : Secrets \cup {None},
             state : {"FUNDED", "CLAIMED", "REFUNDED"}]

ASSUME HtlcAssumption ==
  /\ Durations \subseteq Int /\ MaxTime \in Nat
  /\ None \notin Secrets /\ None \notin Contract

Exists(c) == contracts[c] # None

\* Mutant: the contract keeps the state its class gives it by default.
CreateUnfunded(c, sender, receiver, hashlock, duration) ==
  /\ ~Exists(c)
  /\ contracts' = [contracts EXCEPT ![c] =
        [sender |-> sender, receiver |-> receiver, hashlock |-> hashlock,
         timelock_epoch |-> now + duration, secret_preimage |-> None,
         state |-> "INITIALIZED"]]
  /\ UNCHANGED now

create_htlc_lock(c, sender, receiver, hashlock, duration) ==
  /\ ~Exists(c)
  /\ contracts' = [contracts EXCEPT ![c] =
        [sender |-> sender, receiver |-> receiver, hashlock |-> hashlock,
         timelock_epoch |-> now + duration, secret_preimage |-> None,
         state |-> "FUNDED"]]
  /\ UNCHANGED now

\* Mutant: a claim is not tested against the clock.
NeverTooLate(c) == contracts[c].state = "FUNDED"

MayClaim(c) == contracts[c].state = "FUNDED" /\ now < contracts[c].timelock_epoch

claim_htlc_with_secret(c, secret, claimer) ==
  /\ Exists(c)
  /\ MayClaim(c)
  /\ claimer = contracts[c].receiver
  /\ secret = contracts[c].hashlock
  /\ contracts' = [contracts EXCEPT ![c].state = "CLAIMED",
                                    ![c].secret_preimage = secret]
  /\ UNCHANGED now

\* Mutants: the comparison the wrong way round; a refund of a claimed contract.
RefundBeforeExpiry(c) ==
  contracts[c].state = "FUNDED" /\ now <= contracts[c].timelock_epoch
RefundUnlessRefunded(c) ==
  contracts[c].state # "REFUNDED" /\ now >= contracts[c].timelock_epoch

MayRefund(c) == contracts[c].state = "FUNDED" /\ now >= contracts[c].timelock_epoch

refund_htlc_after_expiry(c, refunder) ==
  /\ Exists(c)
  /\ MayRefund(c)
  /\ refunder = contracts[c].sender
  /\ contracts' = [contracts EXCEPT ![c].state = "REFUNDED"]
  /\ UNCHANGED now

Tick == now < MaxTime /\ now' = now + 1 /\ UNCHANGED contracts

Init == now = 0 /\ contracts = [c \in Contracts |-> None]

Next ==
  \/ \E c \in Contracts, s, r \in Parties, h \in Secrets, d \in Durations :
        create_htlc_lock(c, s, r, h, d)
  \/ \E c \in Contracts, secret \in Secrets, p \in Parties :
        claim_htlc_with_secret(c, secret, p)
  \/ \E c \in Contracts, p \in Parties : refund_htlc_after_expiry(c, p)
  \/ Tick

Spec == Init /\ [][Next]_vars

TypeOK ==
  /\ now \in Int
  /\ contracts \in [Contracts -> Contract \cup {None}]

-----------------------------------------------------------------------------
(* The engine implements HashTimeLock. *)

phase ==
  [c \in Contracts |->
     IF ~Exists(c) THEN "absent"
     ELSE IF contracts[c].state = "FUNDED" THEN "held"
     ELSE IF contracts[c].state = "CLAIMED" THEN "paid" ELSE "returned"]

opens == [c \in Contracts |-> IF Exists(c) THEN contracts[c].hashlock ELSE None]
expiry == [c \in Contracts |-> IF Exists(c) THEN contracts[c].timelock_epoch ELSE 0]
revealed == {contracts[c].secret_preimage : c \in {d \in Contracts : Exists(d)}} \ {None}

HTL == INSTANCE HashTimeLock

\* Every behaviour of the engine is one the promise allows: a contract is paid
\* or returned at most once, each on its own side of the expiry.
ImplementsHashTimeLock == HTL!Spec

=============================================================================
