----------------------------- MODULE AtomicSwaps -----------------------------
(***************************************************************************)
(* The older of the two swap engines, server/services/atomic_swaps.py.  It *)
(* differs from HtlcAtomicSwap where a time lock bites: a redemption that  *)
(* comes too late marks the swap EXPIRED before it raises, redemption and  *)
(* refund are both open at the very instant of the expiry, and neither     *)
(* looks at who is calling.  Each method runs under the engine's lock.     *)
(***************************************************************************)
EXTENDS Integers

CONSTANTS
  Swaps,      \* swap ids; the code hashes the parties, the lock and the time
  Secrets,    \* a hash lock is named by the secret that opens it
  Durations,  \* timelock_seconds
  None,
  MaxTime     \* bound on the clock

VARIABLES now, swaps

vars == <<now, swaps>>

Swap == [hash_lock : Secrets, timelock_epoch : Int,
         secret_preimage : Secrets \cup {None},
         status : {"LOCKED", "REDEEMED", "EXPIRED", "REFUNDED"}]

ASSUME SwapsAssumption ==
  /\ Durations \subseteq Int /\ MaxTime \in Nat
  /\ None \notin Secrets /\ None \notin Swap

Exists(i) == swaps[i] # None

initiate_swap(i, hash_lock, timelock) ==
  /\ ~Exists(i)
  /\ swaps' = [swaps EXCEPT ![i] =
        [hash_lock |-> hash_lock, timelock_epoch |-> now + timelock,
         secret_preimage |-> None, status |-> "LOCKED"]]
  /\ UNCHANGED now

\* Mutant: the redemption is tested against the status alone.
NeverTooLate(i) == FALSE

TooLate(i) == now > swaps[i].timelock_epoch

redeem_swap(i, secret) ==
  /\ Exists(i)
  /\ swaps[i].status = "LOCKED"
  /\ ~TooLate(i)
  /\ secret = swaps[i].hash_lock
  /\ swaps' = [swaps EXCEPT ![i].status = "REDEEMED", ![i].secret_preimage = secret]
  /\ UNCHANGED now

\* The call fails, and yet it has changed the status.
RedeemTooLate(i) ==
  /\ Exists(i)
  /\ swaps[i].status = "LOCKED"
  /\ TooLate(i)
  /\ swaps' = [swaps EXCEPT ![i].status = "EXPIRED"]
  /\ UNCHANGED now

\* Mutant: an EXPIRED swap can no longer be refunded.
OnlyLocked == {"LOCKED"}

Refundable == {"LOCKED", "EXPIRED"}

refund_expired_swap(i) ==
  /\ Exists(i)
  /\ swaps[i].status \in Refundable
  /\ now >= swaps[i].timelock_epoch
  /\ swaps' = [swaps EXCEPT ![i].status = "REFUNDED"]
  /\ UNCHANGED now

Tick == now < MaxTime /\ now' = now + 1 /\ UNCHANGED swaps

Init == now = 0 /\ swaps = [i \in Swaps |-> None]

Next ==
  \/ \E i \in Swaps, h \in Secrets, d \in Durations :
        now + d < MaxTime /\ initiate_swap(i, h, d)
  \/ \E i \in Swaps, s \in Secrets : redeem_swap(i, s)
  \/ \E i \in Swaps : RedeemTooLate(i)
  \/ \E i \in Swaps : refund_expired_swap(i)
  \/ Tick

Spec == Init /\ [][Next]_vars

\* Time passes, and the initiator keeps asking for its refund.
Fairness == WF_vars(Tick) /\ \A i \in Swaps : WF_vars(refund_expired_swap(i))

FairSpec == Spec /\ Fairness

\* The attempt to redeem too late does not cost the initiator its tokens:
\* every swap is redeemed or refunded in the end.
EverySwapIsSettled ==
  \A i \in Swaps :
     Exists(i) ~> Exists(i) /\ swaps[i].status \in {"REDEEMED", "REFUNDED"}

-----------------------------------------------------------------------------
(* The engine implements HashTimeLock; an EXPIRED swap is still held. *)

phase ==
  [i \in Swaps |->
     IF ~Exists(i) THEN "absent"
     ELSE IF swaps[i].status \in {"LOCKED", "EXPIRED"} THEN "held"
     ELSE IF swaps[i].status = "REDEEMED" THEN "paid" ELSE "returned"]

opens == [i \in Swaps |-> IF Exists(i) THEN swaps[i].hash_lock ELSE None]
expiry == [i \in Swaps |-> IF Exists(i) THEN swaps[i].timelock_epoch ELSE 0]
revealed == {swaps[i].secret_preimage : i \in {j \in Swaps : Exists(j)}} \ {None}

HTL == INSTANCE HashTimeLock WITH Contracts <- Swaps

\* Every behaviour of the engine is one the promise allows: a swap is redeemed
\* or refunded at most once, each on its own side of the expiry.
ImplementsHashTimeLock == HTL!Spec

=============================================================================
