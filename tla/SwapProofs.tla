----------------------------- MODULE SwapProofs ------------------------------
(***************************************************************************)
(* Proofs about the swap engine and the session over it, for every set of  *)
(* contracts, parties and secrets and every pair of durations.             *)
(***************************************************************************)
EXTENDS SwapSession, TLAPS

-----------------------------------------------------------------------------
(* The engine. *)

\* What each step of the engine does to the contracts.
LEMMA EngineType ==
  /\ Init => TypeOK
  /\ TypeOK /\ [Next]_vars => TypeOK'
<1> USE HtlcAssumption
<1>1. Init => TypeOK
  BY DEF Init, TypeOK
<1>2. TypeOK /\ [Next]_vars => TypeOK'
  <2> SUFFICES ASSUME TypeOK, [Next]_vars PROVE TypeOK'
    OBVIOUS
  <2>1. ASSUME NEW c \in Contracts, NEW s \in Parties, NEW r \in Parties,
               NEW h \in Secrets, NEW d \in Durations, create_htlc_lock(c, s, r, h, d)
        PROVE  TypeOK'
    BY <2>1 DEF TypeOK, create_htlc_lock, Contract
  <2>2. ASSUME NEW c \in Contracts, NEW secret \in Secrets, NEW p \in Parties,
               claim_htlc_with_secret(c, secret, p)
        PROVE  TypeOK'
    BY <2>2 DEF TypeOK, claim_htlc_with_secret, MayClaim, Exists, Contract
  <2>3. ASSUME NEW c \in Contracts, NEW p \in Parties, refund_htlc_after_expiry(c, p)
        PROVE  TypeOK'
    BY <2>3 DEF TypeOK, refund_htlc_after_expiry, MayRefund, Exists, Contract
  <2>4. CASE Tick
    BY <2>4 DEF TypeOK, Tick
  <2>5. CASE UNCHANGED vars
    BY <2>5 DEF TypeOK, vars
  <2>6. QED
    BY <2>1, <2>2, <2>3, <2>4, <2>5 DEF Next
<1>3. QED
  BY <1>1, <1>2

\* A secret is shown only by a contract that was claimed, and then it is the one
\* that opens the contract.
Shown ==
  \A c \in Contracts :
    Exists(c) => contracts[c].secret_preimage =
                   IF contracts[c].state = "CLAIMED" THEN contracts[c].hashlock ELSE None

LEMMA ShownStep ==
  /\ Init => Shown
  /\ TypeOK /\ Shown /\ [Next]_vars => Shown'
<1> USE HtlcAssumption
<1>1. Init => Shown
  BY DEF Init, Shown, Exists
<1>2. TypeOK /\ Shown /\ [Next]_vars => Shown'
  <2> SUFFICES ASSUME TypeOK, Shown, [Next]_vars, NEW e \in Contracts, Exists(e)'
               PROVE  contracts'[e].secret_preimage =
                        IF contracts'[e].state = "CLAIMED"
                        THEN contracts'[e].hashlock ELSE None
    BY DEF Shown, Exists
  <2>1. ASSUME NEW c \in Contracts, NEW s \in Parties, NEW r \in Parties,
               NEW h \in Secrets, NEW d \in Durations, create_htlc_lock(c, s, r, h, d)
        PROVE  contracts'[e].secret_preimage =
                        IF contracts'[e].state = "CLAIMED"
                        THEN contracts'[e].hashlock ELSE None
    BY <2>1 DEF TypeOK, Shown, create_htlc_lock, Exists
  <2>2. ASSUME NEW c \in Contracts, NEW secret \in Secrets, NEW p \in Parties,
               claim_htlc_with_secret(c, secret, p)
        PROVE  contracts'[e].secret_preimage =
                        IF contracts'[e].state = "CLAIMED"
                        THEN contracts'[e].hashlock ELSE None
    BY <2>2 DEF TypeOK, Shown, claim_htlc_with_secret, MayClaim, Exists, Contract
  <2>3. ASSUME NEW c \in Contracts, NEW p \in Parties, refund_htlc_after_expiry(c, p)
        PROVE  contracts'[e].secret_preimage =
                        IF contracts'[e].state = "CLAIMED"
                        THEN contracts'[e].hashlock ELSE None
    BY <2>3 DEF TypeOK, Shown, refund_htlc_after_expiry, MayRefund, Exists, Contract
  <2>4. CASE Tick
    BY <2>4 DEF Tick, Shown, Exists
  <2>5. CASE UNCHANGED vars
    BY <2>5 DEF vars, Shown, Exists
  <2>6. QED
    BY <2>1, <2>2, <2>3, <2>4, <2>5 DEF Next
<1>3. QED
  BY <1>1, <1>2

-----------------------------------------------------------------------------
(* The engine implements the promise. *)

\* The initial state and every step of the engine map to the promise's.
LEMMA InitMaps == Init => HTL!Init
BY HtlcAssumption DEF Init, HTL!Init, phase, revealed, Exists

LEMMA HoldMaps ==
  ASSUME TypeOK, NEW c \in Contracts, NEW s \in Parties, NEW r \in Parties,
         NEW h \in Secrets, NEW d \in Durations, create_htlc_lock(c, s, r, h, d)
  PROVE  HTL!Hold(c)
<1> USE HtlcAssumption DEF create_htlc_lock
<1>1. contracts'[c].hashlock = h /\ contracts'[c].timelock_epoch = now + d
  BY DEF TypeOK
<1>2. contracts'[c].state = "FUNDED" /\ contracts'[c].secret_preimage = None
  BY DEF TypeOK
<1>3. contracts'[c] # None
  <2>1. contracts'[c] = [sender |-> s, receiver |-> r, hashlock |-> h,
                         timelock_epoch |-> now + d, secret_preimage |-> None,
                         state |-> "FUNDED"]
    BY DEF TypeOK
  <2>2. now + d \in Int
    BY DEF TypeOK
  <2>3. contracts'[c] \in Contract
    BY <2>1, <2>2 DEF Contract
  <2>4. QED
    BY <2>3
<1>4. \A e \in Contracts \ {c} : contracts'[e] = contracts[e]
  BY DEF TypeOK
<1>5. phase[c] = "absent" /\ phase' = [phase EXCEPT ![c] = "held"]
  BY <1>2, <1>3, <1>4 DEF phase, Exists
<1>6. opens'[c] \in Secrets /\ expiry'[c] \in Int
  BY <1>1, <1>3 DEF opens, expiry, Exists, TypeOK
<1>7. \A e \in Contracts \ {c} : opens'[e] = opens[e] /\ expiry'[e] = expiry[e]
  BY <1>4 DEF opens, expiry, Exists
<1>8. revealed' = revealed
  BY <1>2, <1>3, <1>4 DEF revealed, Exists
<1>9. QED
  BY <1>5, <1>6, <1>7, <1>8 DEF HTL!Hold

LEMMA PayMaps ==
  ASSUME TypeOK, Shown, NEW c \in Contracts, NEW secret \in Secrets, NEW p \in Parties,
         claim_htlc_with_secret(c, secret, p)
  PROVE  HTL!Pay(c)
<1> USE HtlcAssumption DEF claim_htlc_with_secret, MayClaim
<1>1. contracts[c] \in Contract
  BY DEF TypeOK, Exists
<1>2. /\ contracts'[c] # None
      /\ contracts'[c].state = "CLAIMED"
      /\ contracts'[c].secret_preimage = contracts[c].hashlock
      /\ contracts'[c].hashlock = contracts[c].hashlock
      /\ contracts'[c].timelock_epoch = contracts[c].timelock_epoch
  BY <1>1 DEF TypeOK, Contract
<1>3. \A e \in Contracts \ {c} : contracts'[e] = contracts[e]
  BY DEF TypeOK
<1>4. phase[c] = "held" /\ phase' = [phase EXCEPT ![c] = "paid"]
  BY <1>2, <1>3 DEF phase, Exists
<1>5. opens' = opens /\ expiry' = expiry
  <2>1. \A e \in Contracts : /\ Exists(e)' <=> Exists(e)
                             /\ contracts'[e].hashlock = contracts[e].hashlock
                             /\ contracts'[e].timelock_epoch = contracts[e].timelock_epoch
    BY <1>2, <1>3 DEF Exists
  <2>2. QED
    BY <2>1 DEF opens, expiry
<1>6. contracts[c].secret_preimage = None /\ opens[c] = contracts[c].hashlock
  BY DEF Shown, opens, Exists
<1>7. contracts[c].hashlock # None
  BY <1>1 DEF Contract
<1>8. revealed' = revealed \cup {opens[c]}
  <2>1. revealed' \subseteq revealed \cup {opens[c]}
    <3>1. ASSUME NEW e \in Contracts, Exists(e)', contracts'[e].secret_preimage # None
          PROVE  contracts'[e].secret_preimage \in revealed \cup {opens[c]}
      <4>1. CASE e = c
        BY <1>2, <1>6, <4>1
      <4>2. CASE e # c
        <5>1. contracts'[e] = contracts[e]
          BY <1>3, <4>2
        <5>2. QED
          BY <3>1, <5>1 DEF revealed, Exists
      <4>3. QED
        BY <4>1, <4>2
    <3>2. QED
      BY <3>1 DEF revealed
  <2>2. opens[c] \in revealed'
    BY <1>2, <1>6, <1>7 DEF revealed, Exists
  <2>3. ASSUME NEW e \in Contracts, Exists(e), contracts[e].secret_preimage # None
        PROVE  contracts[e].secret_preimage \in revealed'
    <3>1. e # c
      BY <1>6, <2>3
    <3>2. contracts'[e] = contracts[e]
      BY <1>3, <3>1
    <3>3. QED
      BY <2>3, <3>2 DEF revealed, Exists
  <2>4. revealed \subseteq revealed'
    BY <2>3 DEF revealed
  <2>5. QED
    BY <2>1, <2>2, <2>4
<1>9. now \in Int /\ expiry[c] = contracts[c].timelock_epoch
      /\ contracts[c].timelock_epoch \in Int
  BY <1>1 DEF TypeOK, expiry, Exists, Contract
<1>10. QED
  BY <1>4, <1>5, <1>8, <1>9 DEF HTL!Pay

LEMMA ReturnMaps ==
  ASSUME TypeOK, NEW c \in Contracts, NEW p \in Parties, refund_htlc_after_expiry(c, p)
  PROVE  HTL!Return(c)
<1> USE HtlcAssumption DEF refund_htlc_after_expiry, MayRefund
<1>1. contracts[c] \in Contract
  BY DEF TypeOK, Exists
<1>2. /\ contracts'[c] # None
      /\ contracts'[c].state = "REFUNDED"
      /\ contracts'[c].secret_preimage = contracts[c].secret_preimage
      /\ contracts'[c].hashlock = contracts[c].hashlock
      /\ contracts'[c].timelock_epoch = contracts[c].timelock_epoch
  BY <1>1 DEF TypeOK, Contract
<1>3. \A e \in Contracts \ {c} : contracts'[e] = contracts[e]
  BY DEF TypeOK
<1>4. phase[c] = "held" /\ phase' = [phase EXCEPT ![c] = "returned"]
  BY <1>2, <1>3 DEF phase, Exists
<1>5. opens' = opens /\ expiry' = expiry
  BY <1>1, <1>2, <1>3 DEF opens, expiry, Exists
<1>6. revealed' = revealed
  BY <1>1, <1>2, <1>3 DEF revealed, Exists
<1>7. now >= expiry[c]
  BY DEF expiry, Exists
<1>8. QED
  BY <1>4, <1>5, <1>6, <1>7 DEF HTL!Return

\* Every behaviour of the engine is a behaviour of HashTimeLock: whatever is
\* locked, claimed and refunded in whatever order, a contract is paid at most
\* once, returned at most once and never both.
THEOREM EngineImplements == Spec => ImplementsHashTimeLock
<1>1. TypeOK /\ Shown /\ [Next]_vars => [HTL!Next]_(HTL!htlVars)
  <2> SUFFICES ASSUME TypeOK, Shown, [Next]_vars PROVE [HTL!Next]_(HTL!htlVars)
    OBVIOUS
  <2>1. ASSUME NEW c \in Contracts, NEW s \in Parties, NEW r \in Parties,
               NEW h \in Secrets, NEW d \in Durations, create_htlc_lock(c, s, r, h, d)
        PROVE  HTL!Next
    BY <2>1, HoldMaps DEF HTL!Next
  <2>2. ASSUME NEW c \in Contracts, NEW secret \in Secrets, NEW p \in Parties,
               claim_htlc_with_secret(c, secret, p)
        PROVE  HTL!Next
    BY <2>2, PayMaps DEF HTL!Next
  <2>3. ASSUME NEW c \in Contracts, NEW p \in Parties, refund_htlc_after_expiry(c, p)
        PROVE  HTL!Next
    BY <2>3, ReturnMaps DEF HTL!Next
  <2>4. CASE Tick
    <3>1. phase' = phase /\ opens' = opens /\ expiry' = expiry /\ revealed' = revealed
      BY <2>4 DEF Tick, phase, opens, expiry, revealed, Exists
    <3>2. now' > now
      BY <2>4 DEF Tick, TypeOK
    <3>3. QED
      BY <3>1, <3>2 DEF HTL!Next, HTL!Tick
  <2>5. CASE UNCHANGED vars
    BY <2>5 DEF vars, HTL!htlVars, phase, opens, expiry, revealed, Exists
  <2>6. QED
    BY <2>1, <2>2, <2>3, <2>4, <2>5 DEF Next
<1>2. QED
  BY <1>1, InitMaps, EngineType, ShownStep, PTL
  DEF Spec, ImplementsHashTimeLock, HTL!Spec

-----------------------------------------------------------------------------
(* The session. *)

\* The session only ever calls the engine.
LEMMA SessionStep == SessionNext => Next
<1> USE SessionAssumption
<1>1. AliceLocks \/ BobLocks => Next
  BY DEF AliceLocks, BobLocks, Next
<1>2. AliceClaims \/ BobClaims => Next
  BY DEF AliceClaims, BobClaims, Next
<1>3. AliceTakesBack \/ BobTakesBack => Next
  BY DEF AliceTakesBack, BobTakesBack, Next
<1>4. SessionTick => Next
  BY DEF SessionTick, Next
<1>5. QED
  BY <1>1, <1>2, <1>3, <1>4 DEF SessionNext

\* So whatever the engine keeps, the session keeps.
THEOREM SessionIsEngine == SessionSpec => Spec
BY SessionStep, PTL DEF SessionSpec, Spec

THEOREM SessionTypeCorrect == SessionSpec => []TypeOK
BY SessionIsEngine, EngineType, PTL DEF Spec

\* The inductive invariant behind Bob's safety, when he looks at the
\* clock before he locks his leg: his leg runs out first; a leg goes back only
\* once its time is over; and once the secret is public the origin leg is either
\* Bob's or still open to him.
LegsInv ==
  /\ Exists(Counter) => /\ contracts[Counter].hashlock = Secret
                        /\ Exists(Origin)
                        /\ contracts[Counter].timelock_epoch < contracts[Origin].timelock_epoch
  /\ In(Origin, "REFUNDED") => now >= contracts[Origin].timelock_epoch
  /\ In(Counter, "CLAIMED") =>
        \/ In(Origin, "CLAIMED")
        \/ In(Origin, "FUNDED") /\ now < contracts[Origin].timelock_epoch

LEMMA LegsStep ==
  ASSUME ~LateFunding
  PROVE  TypeOK /\ Shown /\ LegsInv /\ [SessionNext]_vars => LegsInv'
<1> SUFFICES ASSUME TypeOK, Shown, LegsInv, [SessionNext]_vars PROVE LegsInv'
  OBVIOUS
<1> USE HtlcAssumption, SessionAssumption
<1>1. CASE AliceLocks
  <2>1. contracts' = [contracts EXCEPT ![Origin] = contracts'[Origin]] /\ now' = now
        /\ ~Exists(Origin) /\ contracts'[Origin].state = "FUNDED"
    BY <1>1 DEF AliceLocks, create_htlc_lock, TypeOK
  <2>2. ~Exists(Counter)
    BY <2>1 DEF LegsInv
  <2>3. contracts'[Counter] = contracts[Counter]
    BY <2>1 DEF TypeOK
  <2>4. QED
    BY <2>1, <2>2, <2>3 DEF LegsInv, In, Exists
<1>2. CASE BobLocks
  <2>1. /\ contracts'[Counter].hashlock = Secret
        /\ contracts'[Counter].timelock_epoch = now + CounterDuration
        /\ contracts'[Counter].state = "FUNDED"
        /\ contracts'[Origin] = contracts[Origin]
        /\ now' = now /\ ~Exists(Counter) /\ Exists(Origin)
        /\ now + CounterDuration < contracts[Origin].timelock_epoch
        /\ contracts[Origin].state = "FUNDED"
    BY <1>2 DEF BobLocks, create_htlc_lock, TypeOK
  <2>2. QED
    BY <2>1 DEF LegsInv, In, Exists
<1>3. CASE AliceClaims
  <2>1. /\ Exists(Counter) /\ contracts[Counter].state = "FUNDED"
        /\ now < contracts[Counter].timelock_epoch /\ now' = now
        /\ contracts'[Origin] = contracts[Origin]
        /\ contracts'[Counter] = [contracts[Counter] EXCEPT
               !.state = "CLAIMED", !.secret_preimage = Secret]
    BY <1>3 DEF AliceClaims, claim_htlc_with_secret, MayClaim, TypeOK
  <2>2. contracts[Counter] \in Contract /\ contracts[Origin] \in Contract
    BY <2>1 DEF TypeOK, LegsInv, Exists
  <2>3. /\ contracts'[Counter].state = "CLAIMED"
        /\ contracts'[Counter].hashlock = contracts[Counter].hashlock
        /\ contracts'[Counter].timelock_epoch = contracts[Counter].timelock_epoch
        /\ contracts'[Counter] # None
    BY <2>1, <2>2 DEF Contract
  <2>4. now < contracts[Origin].timelock_epoch
    BY <2>1, <2>2 DEF LegsInv, Contract, TypeOK
  <2>5. In(Origin, "FUNDED") \/ In(Origin, "CLAIMED")
    BY <2>1, <2>2, <2>4 DEF LegsInv, In, Exists, Contract, TypeOK
  <2>6. QED
    BY <2>1, <2>3, <2>4, <2>5 DEF LegsInv, In, Exists
<1>4. CASE BobClaims
  <2>1. /\ Exists(Origin) /\ contracts[Origin].state = "FUNDED"
        /\ Exists(Counter) /\ contracts[Counter].secret_preimage = Secret
        /\ now' = now
        /\ contracts'[Counter] = contracts[Counter]
        /\ contracts'[Origin] = [contracts[Origin] EXCEPT
               !.state = "CLAIMED", !.secret_preimage = Secret]
    BY <1>4 DEF BobClaims, Public, claim_htlc_with_secret, MayClaim, TypeOK
  <2>2. contracts[Origin] \in Contract
    BY <2>1 DEF TypeOK, Exists
  <2>3. /\ contracts'[Origin].state = "CLAIMED"
        /\ contracts'[Origin].timelock_epoch = contracts[Origin].timelock_epoch
        /\ contracts'[Origin] # None
    BY <2>1, <2>2 DEF Contract
  <2>4. contracts[Counter].state = "CLAIMED"
    BY <2>1 DEF Shown
  <2>5. QED
    BY <2>1, <2>3, <2>4 DEF LegsInv, In, Exists
<1>5. CASE AliceTakesBack
  <2>1. /\ Exists(Origin) /\ contracts[Origin].state = "FUNDED"
        /\ now >= contracts[Origin].timelock_epoch /\ now' = now
        /\ contracts'[Counter] = contracts[Counter]
        /\ contracts'[Origin] = [contracts[Origin] EXCEPT !.state = "REFUNDED"]
    BY <1>5 DEF AliceTakesBack, refund_htlc_after_expiry, MayRefund, TypeOK
  <2>2. contracts[Origin] \in Contract
    BY <2>1 DEF TypeOK, Exists
  <2>3. /\ contracts'[Origin].state = "REFUNDED"
        /\ contracts'[Origin].timelock_epoch = contracts[Origin].timelock_epoch
        /\ contracts'[Origin] # None
    BY <2>1, <2>2 DEF Contract
  <2>4. ~In(Counter, "CLAIMED")
    BY <2>1, <2>2 DEF LegsInv, In, Contract, TypeOK
  <2>5. QED
    BY <2>1, <2>3, <2>4 DEF LegsInv, In, Exists
<1>6. CASE BobTakesBack
  <2>1. /\ Exists(Counter) /\ contracts[Counter].state = "FUNDED" /\ now' = now
        /\ contracts'[Origin] = contracts[Origin]
        /\ contracts'[Counter] = [contracts[Counter] EXCEPT !.state = "REFUNDED"]
    BY <1>6 DEF BobTakesBack, refund_htlc_after_expiry, MayRefund, TypeOK
  <2>2. contracts[Counter] \in Contract
    BY <2>1 DEF TypeOK, Exists
  <2>3. /\ contracts'[Counter].state = "REFUNDED"
        /\ contracts'[Counter].hashlock = contracts[Counter].hashlock
        /\ contracts'[Counter].timelock_epoch = contracts[Counter].timelock_epoch
        /\ contracts'[Counter] # None
    BY <2>1, <2>2 DEF Contract
  <2>4. QED
    BY <2>1, <2>3 DEF LegsInv, In, Exists
<1>7. CASE SessionTick
  <2>1. now' = now + 1 /\ contracts' = contracts /\ ~BobIsReady
    BY <1>7 DEF SessionTick, Tick
  <2>2. In(Counter, "CLAIMED") => In(Origin, "CLAIMED")
    <3>1. In(Counter, "CLAIMED") => Public
      BY DEF In, Public, Shown, LegsInv
    <3>2. QED
      BY <2>1, <3>1 DEF BobIsReady, MayClaim, LegsInv, In
  <2>3. Exists(Origin) => contracts[Origin].timelock_epoch \in Int
    BY DEF TypeOK, Exists, Contract
  <2>4. In(Origin, "REFUNDED")' => now' >= contracts'[Origin].timelock_epoch
    BY <2>1, <2>3 DEF LegsInv, In, Exists, TypeOK
  <2>5. QED
    BY <2>1, <2>2, <2>4 DEF LegsInv, In, Exists
<1>8. CASE UNCHANGED vars
  BY <1>8 DEF vars, LegsInv, In, Exists
<1>9. QED
  BY <1>1, <1>2, <1>3, <1>4, <1>5, <1>6, <1>7, <1>8 DEF SessionNext

\* For any duration of the participant's leg, half of the initiator's, and at any
\* pace: if Bob locks it only while it runs out before the other and claims as soon
\* as he can, he never gives without getting.
THEOREM BobIsSafe ==
  ASSUME ~LateFunding
  PROVE  SessionSpec => []BobNeverLoses
<1>1. Init => LegsInv
  BY SessionAssumption DEF Init, LegsInv, In, Exists
<1>2. TypeOK /\ LegsInv => BobNeverLoses
  BY DEF LegsInv, BobNeverLoses, In
<1>3. [SessionNext]_vars => [Next]_vars
  BY SessionStep
<1>4. QED
  BY <1>1, <1>2, <1>3, LegsStep, EngineType, ShownStep, PTL DEF SessionSpec

\* A leg keeps everything but its state and its secret while it changes state.
LEMMA LegMoves ==
  ASSUME TypeOK, NEW c \in Contracts, Exists(c), NEW st, NEW x,
         \/ contracts' = [contracts EXCEPT ![c].state = st, ![c].secret_preimage = x]
         \/ contracts' = [contracts EXCEPT ![c].state = st]
  PROVE  /\ \A e \in Contracts \ {c} : contracts'[e] = contracts[e]
         /\ contracts'[c].state = st
BY HtlcAssumption DEF TypeOK, Exists, Contract

\* Alice is safe whatever Bob does, late or not: the origin leg opens to the
\* secret alone, and only a claim of the counter leg shows the secret.
THEOREM AliceIsSafe == SessionSpec => []AliceNeverLoses
<1>1. Init => AliceNeverLoses
  BY SessionAssumption DEF Init, AliceNeverLoses, In, Exists
<1>2. TypeOK /\ Shown /\ AliceNeverLoses /\ [SessionNext]_vars => AliceNeverLoses'
  <2> SUFFICES ASSUME TypeOK, Shown, AliceNeverLoses, [SessionNext]_vars
               PROVE  AliceNeverLoses'
    OBVIOUS
  <2> USE HtlcAssumption, SessionAssumption
  <2>1. CASE AliceLocks
    <3>1. contracts'[Origin].state = "FUNDED"
      BY <2>1 DEF AliceLocks, create_htlc_lock, TypeOK
    <3>2. QED
      BY <3>1 DEF AliceNeverLoses, In, Exists
  <2>2. CASE BobLocks
    <3>1. contracts'[Origin] = contracts[Origin] /\ contracts[Origin].state = "FUNDED"
      BY <2>2 DEF BobLocks, create_htlc_lock, TypeOK
    <3>2. QED
      BY <3>1 DEF AliceNeverLoses, In, Exists
  <2>3. CASE AliceClaims
    <3>1. /\ Exists(Counter)
          /\ contracts' = [contracts EXCEPT ![Counter].state = "CLAIMED",
                                            ![Counter].secret_preimage = Secret]
      BY <2>3 DEF AliceClaims, claim_htlc_with_secret
    <3>2. contracts'[Counter].state = "CLAIMED"
      BY <3>1, LegMoves
    <3>3. contracts'[Counter] # None
      BY <3>1 DEF TypeOK, Exists, Contract
    <3>4. QED
      BY <3>2, <3>3 DEF AliceNeverLoses, In, Exists
  <2>4. CASE BobClaims
    <3>1. /\ Exists(Origin) /\ Exists(Counter)
          /\ contracts[Counter].secret_preimage = Secret
          /\ contracts'[Counter] = contracts[Counter]
      BY <2>4 DEF BobClaims, Public, claim_htlc_with_secret, TypeOK
    <3>2. contracts[Counter].state = "CLAIMED"
      BY <3>1 DEF Shown
    <3>3. QED
      BY <3>1, <3>2 DEF AliceNeverLoses, In, Exists
  <2>5. CASE AliceTakesBack
    <3>1. Exists(Origin) /\ contracts' = [contracts EXCEPT ![Origin].state = "REFUNDED"]
      BY <2>5 DEF AliceTakesBack, refund_htlc_after_expiry
    <3>2. contracts'[Origin].state = "REFUNDED"
      BY <3>1, LegMoves
    <3>3. QED
      BY <3>2 DEF AliceNeverLoses, In, Exists
  <2>6. CASE BobTakesBack
    <3>1. /\ Exists(Counter) /\ contracts[Counter].state = "FUNDED"
          /\ contracts'[Origin] = contracts[Origin]
      BY <2>6 DEF BobTakesBack, refund_htlc_after_expiry, MayRefund, TypeOK
    <3>2. QED
      BY <3>1 DEF AliceNeverLoses, In, Exists
  <2>7. CASE UNCHANGED contracts
    BY <2>7 DEF AliceNeverLoses, In, Exists
  <2>8. QED
    BY <2>1, <2>2, <2>3, <2>4, <2>5, <2>6, <2>7 DEF SessionNext, SessionTick, Tick, vars
<1>3. [SessionNext]_vars => [Next]_vars
  BY SessionStep
<1>4. QED
  BY <1>1, <1>2, <1>3, EngineType, ShownStep, PTL DEF SessionSpec


-----------------------------------------------------------------------------
(* The older engine keeps the same promise.  What AtomicSwaps assumes of its *)
(* constants is what HtlcAssumption says of the same ones, and that None is  *)
(* not one of its swaps.                                                     *)

CONSTANT Swaps
VARIABLE swaps

Older == INSTANCE AtomicSwaps

\* The type of a swap, and that a redemption alone shows the secret.
OlderInv ==
  /\ now \in Int
  /\ swaps \in [Swaps -> Older!Swap \cup {None}]
  /\ \A i \in Swaps :
       Older!Exists(i) => swaps[i].secret_preimage =
                            IF swaps[i].status = "REDEEMED"
                            THEN swaps[i].hash_lock ELSE None

\* A step of the engine takes one swap from one record to another.
OlderMoves(i, swap) ==
  /\ swaps'[i] = swap
  /\ \A j \in Swaps \ {i} : swaps'[j] = swaps[j]
  /\ swaps' \in [Swaps -> Older!Swap \cup {None}]
  /\ now' = now

Redeemed(swap) == [swap EXCEPT !.status = "REDEEMED", !.secret_preimage = swap.hash_lock]
Marked(swap, s) == [swap EXCEPT !.status = s]

LEMMA OlderSteps ==
  ASSUME None \notin Older!Swap, OlderInv, NEW i \in Swaps
  PROVE  /\ \A h \in Secrets, d \in Durations : Older!initiate_swap(i, h, d) =>
              OlderMoves(i, [hash_lock |-> h, timelock_epoch |-> now + d,
                             secret_preimage |-> None, status |-> "LOCKED"])
         /\ \A s \in Secrets : Older!redeem_swap(i, s) =>
              OlderMoves(i, Redeemed(swaps[i]))
         /\ Older!RedeemTooLate(i) => OlderMoves(i, Marked(swaps[i], "EXPIRED"))
         /\ Older!refund_expired_swap(i) => OlderMoves(i, Marked(swaps[i], "REFUNDED"))
<1> USE HtlcAssumption DEF OlderInv, OlderMoves
<1>1. ASSUME NEW h \in Secrets, NEW d \in Durations, Older!initiate_swap(i, h, d)
      PROVE  OlderMoves(i, [hash_lock |-> h, timelock_epoch |-> now + d,
                            secret_preimage |-> None, status |-> "LOCKED"])
  <2> DEFINE new == [hash_lock |-> h, timelock_epoch |-> now + d,
                     secret_preimage |-> None, status |-> "LOCKED"]
  <2>1. new \in Older!Swap
    BY DEF Older!Swap
  <2>2. swaps' = [swaps EXCEPT ![i] = new] /\ now' = now
    BY <1>1 DEF Older!initiate_swap
  <2> HIDE DEF new
  <2>3. OlderMoves(i, new)
    BY <2>1, <2>2
  <2>4. QED
    BY <2>3 DEF new
<1>2. Older!Exists(i) => swaps[i] \in Older!Swap
  BY DEF Older!Exists
<1>3. ASSUME NEW s \in Secrets, Older!redeem_swap(i, s)
      PROVE  OlderMoves(i, Redeemed(swaps[i]))
  BY <1>2, <1>3 DEF Older!redeem_swap, Older!Swap, Redeemed
<1>4. Older!RedeemTooLate(i) => OlderMoves(i, Marked(swaps[i], "EXPIRED"))
  BY <1>2 DEF Older!RedeemTooLate, Older!Swap, Marked
<1>5. Older!refund_expired_swap(i) => OlderMoves(i, Marked(swaps[i], "REFUNDED"))
  BY <1>2 DEF Older!refund_expired_swap, Older!Swap, Marked
<1>6. QED
  BY <1>1, <1>3, <1>4, <1>5

\* The invariant, and the step of the promise each step of the engine is.
LEMMA OlderHolds ==
  ASSUME None \notin Older!Swap, OlderInv, NEW i \in Swaps, NEW h \in Secrets,
         NEW d \in Durations, Older!initiate_swap(i, h, d)
  PROVE  OlderInv' /\ Older!HTL!Hold(i)
<1> USE HtlcAssumption
<1> DEFINE new == [hash_lock |-> h, timelock_epoch |-> now + d,
                   secret_preimage |-> None, status |-> "LOCKED"]
<1>1. OlderMoves(i, new)
  BY OlderSteps
<1>2. new \in Older!Swap /\ new # None
  BY DEF OlderInv, Older!Swap
<1>3. swaps[i] = None
  BY DEF Older!initiate_swap, Older!Exists
<1>4. OlderInv'
  BY <1>1, <1>2 DEF OlderInv, OlderMoves, Older!Exists
<1>5. Older!phase' = [Older!phase EXCEPT ![i] = "held"] /\ Older!phase[i] = "absent"
  <2>1. swaps'[i] # None /\ swaps'[i].status = "LOCKED"
    BY <1>1, <1>2 DEF OlderMoves
  <2>2. \A j \in Swaps \ {i} : swaps'[j] = swaps[j]
    BY <1>1 DEF OlderMoves
  <2>3. QED
    BY <1>3, <2>1, <2>2 DEF Older!phase, Older!Exists
<1>6. Older!opens'[i] \in Secrets /\ Older!expiry'[i] \in Int
  BY <1>1, <1>2 DEF OlderMoves, Older!opens, Older!expiry, Older!Exists, OlderInv
<1>7. \A j \in Swaps \ {i} :
        Older!opens'[j] = Older!opens[j] /\ Older!expiry'[j] = Older!expiry[j]
  BY <1>1 DEF OlderMoves, Older!opens, Older!expiry, Older!Exists
<1>8. Older!revealed' = Older!revealed
  BY <1>1, <1>2, <1>3 DEF OlderMoves, Older!revealed, Older!Exists
<1>9. QED
  BY <1>1, <1>4, <1>5, <1>6, <1>7, <1>8 DEF Older!HTL!Hold, OlderMoves

\* What does not change where a swap keeps its lock, its expiry and its secret.
LEMMA OlderKeeps ==
  ASSUME OlderInv, NEW i \in Swaps, NEW swap \in Older!Swap, swap # None,
         OlderMoves(i, swap), swaps[i] # None,
         swap.hash_lock = swaps[i].hash_lock,
         swap.timelock_epoch = swaps[i].timelock_epoch
  PROVE  /\ Older!opens' = Older!opens /\ Older!expiry' = Older!expiry
         /\ swap.secret_preimage = swaps[i].secret_preimage
              => Older!revealed' = Older!revealed
<1>1. \A j \in Swaps : /\ Older!Exists(j)' <=> Older!Exists(j)
                       /\ swaps'[j].hash_lock = swaps[j].hash_lock
                       /\ swaps'[j].timelock_epoch = swaps[j].timelock_epoch
  BY DEF OlderMoves, Older!Exists
<1>2. Older!opens' = Older!opens /\ Older!expiry' = Older!expiry
  BY <1>1 DEF Older!opens, Older!expiry
<1>3. ASSUME swap.secret_preimage = swaps[i].secret_preimage
      PROVE  Older!revealed' = Older!revealed
  <2>1. \A j \in Swaps : swaps'[j].secret_preimage = swaps[j].secret_preimage
    BY <1>3 DEF OlderMoves
  <2>2. QED
    BY <1>1, <2>1 DEF Older!revealed
<1>4. QED
  BY <1>2, <1>3


LEMMA OlderPays ==
  ASSUME None \notin Older!Swap, OlderInv, NEW i \in Swaps, NEW s \in Secrets,
         Older!redeem_swap(i, s)
  PROVE  OlderInv' /\ Older!HTL!Pay(i)
<1> USE HtlcAssumption
<1>1. OlderMoves(i, Redeemed(swaps[i]))
  BY OlderSteps
<1>2. swaps[i] \in Older!Swap /\ swaps[i] # None
  BY DEF Older!redeem_swap, Older!Exists, OlderInv
<1>3. PICK swap \in Older!Swap : swap = Redeemed(swaps[i])
  BY <1>2 DEF Redeemed, Older!Swap
<1>4. /\ swap # None /\ OlderMoves(i, swap) /\ swap.status = "REDEEMED"
      /\ swap.hash_lock = swaps[i].hash_lock
      /\ swap.timelock_epoch = swaps[i].timelock_epoch
      /\ swap.secret_preimage = swaps[i].hash_lock
  BY <1>1, <1>2, <1>3 DEF Redeemed, Older!Swap
<1>5. OlderInv'
  BY <1>4 DEF OlderInv, OlderMoves, Older!Exists
<1>6. Older!opens' = Older!opens /\ Older!expiry' = Older!expiry
  BY <1>2, <1>4, OlderKeeps
<1>7. Older!phase' = [Older!phase EXCEPT ![i] = "paid"] /\ Older!phase[i] = "held"
  <2>1. swaps'[i] # None /\ swaps'[i].status = "REDEEMED"
    BY <1>4 DEF OlderMoves
  <2>2. \A j \in Swaps \ {i} : swaps'[j] = swaps[j]
    BY <1>1 DEF OlderMoves
  <2>3. swaps[i].status = "LOCKED"
    BY DEF Older!redeem_swap
  <2>4. QED
    BY <1>2, <2>1, <2>2, <2>3 DEF Older!phase, Older!Exists
<1>8. swaps[i].secret_preimage = None /\ Older!opens[i] = swaps[i].hash_lock
  BY <1>2 DEF OlderInv, Older!opens, Older!Exists, Older!redeem_swap
<1>9. Older!revealed' = Older!revealed \cup {Older!opens[i]}
  <2>1. swaps'[i] # None /\ swaps'[i].secret_preimage = Older!opens[i]
    BY <1>4, <1>8 DEF OlderMoves
  <2>2. \A j \in Swaps \ {i} : swaps'[j] = swaps[j]
    BY <1>1 DEF OlderMoves
  <2>3. Older!opens[i] # None
    BY <1>2, <1>8 DEF Older!Swap
  <2>4. QED
    BY <1>2, <1>8, <2>1, <2>2, <2>3 DEF Older!revealed, Older!Exists
<1>10. now \in Int /\ now <= Older!expiry[i]
  BY <1>2 DEF OlderInv, Older!expiry, Older!Exists, Older!redeem_swap, Older!TooLate,
     Older!Swap
<1>11. QED
  BY <1>1, <1>5, <1>6, <1>7, <1>9, <1>10 DEF Older!HTL!Pay, OlderMoves

LEMMA OlderMarks ==
  ASSUME None \notin Older!Swap, OlderInv, NEW i \in Swaps,
         NEW s \in {"EXPIRED", "REFUNDED"}, Older!Exists(i),
         swaps[i].status \in {"LOCKED", "EXPIRED"}, OlderMoves(i, Marked(swaps[i], s))
  PROVE  /\ OlderInv'
         /\ Older!phase[i] = "held"
         /\ Older!phase' = [Older!phase EXCEPT
              ![i] = IF s = "EXPIRED" THEN "held" ELSE "returned"]
         /\ UNCHANGED <<Older!opens, Older!expiry, Older!revealed>>
<1> USE HtlcAssumption
<1>1. swaps[i] \in Older!Swap /\ swaps[i] # None
  BY DEF Older!Exists, OlderInv
<1>2. PICK swap \in Older!Swap : swap = Marked(swaps[i], s)
  BY <1>1 DEF Marked, Older!Swap
<1>3. /\ swap # None /\ OlderMoves(i, swap) /\ swap.status = s
      /\ swap.hash_lock = swaps[i].hash_lock
      /\ swap.timelock_epoch = swaps[i].timelock_epoch
      /\ swap.secret_preimage = swaps[i].secret_preimage
  BY <1>1, <1>2 DEF Marked, Older!Swap
<1>4. OlderInv'
  BY <1>1, <1>3 DEF OlderInv, OlderMoves, Older!Exists
<1>5. UNCHANGED <<Older!opens, Older!expiry, Older!revealed>>
  BY <1>1, <1>3, OlderKeeps
<1>6. Older!phase[i] = "held"
  BY <1>1 DEF Older!phase, Older!Exists
<1>7. Older!phase' = [Older!phase EXCEPT
              ![i] = IF s = "EXPIRED" THEN "held" ELSE "returned"]
  <2>1. swaps'[i] # None /\ swaps'[i].status = s
    BY <1>3 DEF OlderMoves
  <2>2. \A j \in Swaps \ {i} : swaps'[j] = swaps[j]
    BY <1>3 DEF OlderMoves
  <2>3. QED
    BY <2>1, <2>2 DEF Older!phase, Older!Exists
<1>8. QED
  BY <1>4, <1>5, <1>6, <1>7

\* Marking a swap EXPIRED, which a redemption does before it fails, is nothing
\* to the promise.
LEMMA OlderExpires ==
  ASSUME None \notin Older!Swap, OlderInv, NEW i \in Swaps, Older!RedeemTooLate(i)
  PROVE  OlderInv' /\ UNCHANGED Older!HTL!htlVars
<1>1. OlderMoves(i, Marked(swaps[i], "EXPIRED"))
  BY OlderSteps
<1>2. Older!Exists(i) /\ swaps[i].status \in {"LOCKED", "EXPIRED"}
  BY DEF Older!RedeemTooLate
<1>3. /\ OlderInv' /\ Older!phase[i] = "held"
      /\ Older!phase' = [Older!phase EXCEPT ![i] = "held"]
      /\ UNCHANGED <<Older!opens, Older!expiry, Older!revealed>>
  BY <1>1, <1>2, OlderMarks
<1>4. Older!phase' = Older!phase
  BY <1>3 DEF Older!phase
<1>5. now' = now
  BY <1>1 DEF OlderMoves
<1>6. QED
  BY <1>3, <1>4, <1>5 DEF Older!HTL!htlVars

LEMMA OlderReturns ==
  ASSUME None \notin Older!Swap, OlderInv, NEW i \in Swaps,
         Older!refund_expired_swap(i)
  PROVE  OlderInv' /\ Older!HTL!Return(i)
<1>1. OlderMoves(i, Marked(swaps[i], "REFUNDED"))
  BY OlderSteps
<1>2. Older!Exists(i) /\ swaps[i].status \in {"LOCKED", "EXPIRED"}
  BY DEF Older!refund_expired_swap, Older!Refundable
<1>3. /\ OlderInv' /\ Older!phase[i] = "held"
      /\ Older!phase' = [Older!phase EXCEPT ![i] = "returned"]
      /\ UNCHANGED <<Older!opens, Older!expiry, Older!revealed>>
  BY <1>1, <1>2, OlderMarks
<1>4. now' = now /\ now >= Older!expiry[i]
  BY <1>1 DEF OlderMoves, Older!expiry, Older!Exists, Older!refund_expired_swap
<1>5. QED
  BY <1>3, <1>4 DEF Older!HTL!Return

\* Every behaviour of the older engine is one of the promise too, although a
\* redemption that fails changes the swap, and at the very instant of the expiry
\* a swap can be redeemed and refunded.
THEOREM OlderImplements ==
  ASSUME None \notin Older!Swap
  PROVE  Older!Spec => Older!ImplementsHashTimeLock
<1>1. Older!Init => OlderInv /\ Older!HTL!Init
  BY HtlcAssumption
  DEF Older!Init, OlderInv, Older!HTL!Init, Older!phase, Older!revealed, Older!Exists
<1>2. OlderInv /\ [Older!Next]_(Older!vars)
        => OlderInv' /\ [Older!HTL!Next]_(Older!HTL!htlVars)
  <2> SUFFICES ASSUME OlderInv, [Older!Next]_(Older!vars)
               PROVE  OlderInv' /\ [Older!HTL!Next]_(Older!HTL!htlVars)
    OBVIOUS
  <2>1. ASSUME NEW i \in Swaps, NEW h \in Secrets, NEW d \in Durations,
               Older!initiate_swap(i, h, d)
        PROVE  OlderInv' /\ Older!HTL!Next
    BY <2>1, OlderHolds DEF Older!HTL!Next
  <2>2. ASSUME NEW i \in Swaps, NEW s \in Secrets, Older!redeem_swap(i, s)
        PROVE  OlderInv' /\ Older!HTL!Next
    BY <2>2, OlderPays DEF Older!HTL!Next
  <2>3. ASSUME NEW i \in Swaps, Older!RedeemTooLate(i)
        PROVE  OlderInv' /\ UNCHANGED Older!HTL!htlVars
    BY <2>3, OlderExpires
  <2>4. ASSUME NEW i \in Swaps, Older!refund_expired_swap(i)
        PROVE  OlderInv' /\ Older!HTL!Next
    BY <2>4, OlderReturns DEF Older!HTL!Next
  <2>5. CASE Older!Tick \/ UNCHANGED Older!vars
    <3>1. swaps' = swaps
      BY <2>5 DEF Older!Tick, Older!vars
    <3>2. UNCHANGED <<Older!phase, Older!opens, Older!expiry, Older!revealed>>
      BY <3>1 DEF Older!phase, Older!opens, Older!expiry, Older!revealed, Older!Exists
    <3>3. now' \in Int /\ (now' = now \/ now' > now)
      BY <2>5 DEF Older!Tick, Older!vars, OlderInv
    <3>4. OlderInv'
      BY <3>1, <3>3 DEF OlderInv, Older!Exists
    <3>5. QED
      BY <3>2, <3>3, <3>4 DEF Older!HTL!Next, Older!HTL!Tick, Older!HTL!htlVars
  <2>6. QED
    BY <2>1, <2>2, <2>3, <2>4, <2>5 DEF Older!Next
<1>3. QED
  BY <1>1, <1>2, PTL DEF Older!Spec, Older!ImplementsHashTimeLock, Older!HTL!Spec

=============================================================================
