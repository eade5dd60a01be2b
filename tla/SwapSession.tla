----------------------------- MODULE SwapSession -----------------------------
(***************************************************************************)
(* One cross-chain swap carried out over the engine of HtlcAtomicSwap, the *)
(* way the engine's header describes it: the initiator draws the secret    *)
(* and locks the origin leg for the participant; the participant locks the *)
(* counter leg for the initiator under the same hash, for half as long;    *)
(* the initiator claims the counter leg, which publishes the secret; the   *)
(* participant then claims the origin leg.  Either takes a leg back once   *)
(* it has run out.                                                         *)
(*                                                                         *)
(* The parties are clients, outside the code.  The participant is prompt:  *)
(* once the secret is public it claims before the clock moves.             *)
(***************************************************************************)
EXTENDS HtlcAtomicSwap

CONSTANTS
  Alice, Bob,       \* the initiator and the participant
  Origin, Counter,  \* the two legs
  Secret,
  OriginDuration, CounterDuration,
  LateFunding       \* whether Bob locks his leg without looking at the clock

ASSUME SessionAssumption ==
  /\ Parties = {Alice, Bob} /\ Alice # Bob
  /\ Contracts = {Origin, Counter} /\ Origin # Counter
  /\ Secrets = {Secret}
  /\ Durations = {OriginDuration, CounterDuration}
  /\ OriginDuration = 2 * CounterDuration
  /\ LateFunding \in BOOLEAN

Public == Exists(Counter) /\ contracts[Counter].secret_preimage = Secret

\* Only legs that run out within the bound on the clock.
AliceLocks ==
  /\ now + OriginDuration < MaxTime
  /\ create_htlc_lock(Origin, Alice, Bob, Secret, OriginDuration)

\* Nothing in the engine compares the legs: looking at the clock is up to Bob.
BobLocks ==
  /\ Exists(Origin) /\ contracts[Origin].state = "FUNDED"
  /\ now + CounterDuration < MaxTime
  /\ LateFunding \/ now + CounterDuration < contracts[Origin].timelock_epoch
  /\ create_htlc_lock(Counter, Bob, Alice, Secret, CounterDuration)

AliceClaims == claim_htlc_with_secret(Counter, Secret, Alice)
BobClaims   == Public /\ claim_htlc_with_secret(Origin, Secret, Bob)
AliceTakesBack == refund_htlc_after_expiry(Origin, Alice)
BobTakesBack   == refund_htlc_after_expiry(Counter, Bob)

BobIsReady == Public /\ Exists(Origin) /\ MayClaim(Origin)

SessionTick == ~BobIsReady /\ Tick

SessionNext ==
  \/ AliceLocks \/ BobLocks
  \/ AliceClaims \/ BobClaims
  \/ AliceTakesBack \/ BobTakesBack
  \/ SessionTick

SessionSpec == Init /\ [][SessionNext]_vars

\* Time passes, Bob claims what he can, and each takes back what he is owed.
SessionFairness ==
  /\ WF_vars(SessionTick)
  /\ WF_vars(BobClaims)
  /\ WF_vars(AliceTakesBack)
  /\ WF_vars(BobTakesBack)

FairSession == SessionSpec /\ SessionFairness

In(c, s) == Exists(c) /\ contracts[c].state = s

\* Bob, being prompt, never gives without getting: the counter leg is not paid
\* to Alice while the origin leg goes back to her.
BobNeverLoses == ~(In(Counter, "CLAIMED") /\ In(Origin, "REFUNDED"))

\* Nor does Alice: the origin leg is paid only after the counter leg was, so it
\* is never paid while the counter leg goes back to Bob.
AliceNeverLoses == In(Origin, "CLAIMED") => In(Counter, "CLAIMED")

\* No leg stays locked: the time locks leave no gap between them.
LegsAreSettled == \A c \in Contracts : In(c, "FUNDED") ~> ~In(c, "FUNDED")

=============================================================================
