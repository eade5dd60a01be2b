-------------------------- MODULE MasterVaultProofs --------------------------
(***************************************************************************)
(* Proofs about MasterVault for every set of wallets, devices and nonces   *)
(* and every supply, reserve and reward.                                   *)
(***************************************************************************)
EXTENDS MasterVault, FiniteInduction, FiniteSetTheorems, TLAPS

\* int() of a positive number of half tokens is a number of whole tokens, and
\* no more of them.
LEMMA WholeTokens ==
  ASSUME NEW h \in Nat
  PROVE  Whole(h) \in Nat /\ 2 * Whole(h) <= h
BY DEF Whole

\* The two writes to the SQL row keep it a row, whatever set its flag ranges over.
LEMMA DebitedRow ==
  ASSUME NEW S, NEW h \in Nat,
         NEW r \in [admin_balance : Int, unlocked : Nat, is_paused : S]
  PROVE  [r EXCEPT !.admin_balance = @ - h, !.unlocked = @ + h]
           \in [admin_balance : Int, unlocked : Nat, is_paused : S]
<1>1. r.admin_balance - h \in Int /\ r.unlocked + h \in Nat
  OBVIOUS
<1>2. ASSUME NEW b \in Int, NEW u \in Nat
      PROVE  [r EXCEPT !.admin_balance = b, !.unlocked = u]
               \in [admin_balance : Int, unlocked : Nat, is_paused : S]
  OBVIOUS
<1>3. QED
  BY <1>1, <1>2

\* The same for the flag alone.
LEMMA PausedRow ==
  ASSUME NEW S, NEW p \in S,
         NEW r \in [admin_balance : Int, unlocked : Nat, is_paused : S]
  PROVE  [r EXCEPT !.is_paused = p]
           \in [admin_balance : Int, unlocked : Nat, is_paused : S]
OBVIOUS

\* The type invariant is inductive.
LEMMA TypeInit == Init => TypeOK
<1> SUFFICES ASSUME Init PROVE TypeOK
  OBVIOUS
<1>1. transactions \in Seq(Tx)
  <2>1. [type |-> "GENESIS_MINT", to |-> Vault, amount |-> Supply] \in Tx
    BY DEF Tx
  <2>2. QED
    BY <2>1 DEF Init, FreshEngine, GenesisChain
<1>2. vault_row \in [admin_balance : Int, unlocked : Nat, is_paused : BOOLEAN]
  BY VaultAssumption DEF Init, SeededRow
<1>3. wallets \in [Wallets -> Int] /\ admin_vault_balance \in Int
  BY VaultAssumption DEF Init, FreshEngine, FreshWallets
<1>4. /\ registered_devices \in [Devices -> Wallets \cup {None}]
      /\ device_wallet_map \in [Wallets -> Devices \cup {None}]
      /\ seen_nonces \in [Wallets -> SUBSET Nonces]
  BY DEF Init, FreshEngine
<1>5. QED
  BY <1>1, <1>2, <1>3, <1>4 DEF Init, FreshEngine, TypeOK

LEMMA TypeStep == TypeOK /\ [Next]_vars => TypeOK'
<1> SUFFICES ASSUME TypeOK, [Next]_vars PROVE TypeOK'
  OBVIOUS
<1> USE VaultAssumption DEF TypeOK
<1>1. ASSUME NEW d \in Devices, NEW w \in Wallets, RegistrationHitsCap(d, w)
      PROVE  TypeOK'
  BY <1>1 DEF RegistrationHitsCap, ledgerVars, adminVars
<1>2. ASSUME NEW d \in Devices, NEW w \in Wallets, RegisterDevice(d, w)
      PROVE  TypeOK'
  <2>1. [type |-> "DEVICE_REGISTRATION", device |-> d, to |-> w] \in Tx
    BY DEF Tx
  <2>2. transactions' \in Seq(Tx)
    BY <1>2, <2>1 DEF RegisterDevice
  <2>3. /\ admin_vault_balance' \in Int /\ total_public_distributed' \in Nat
        /\ wallets' \in [Wallets -> Int]
    BY <1>2 DEF RegisterDevice, next_distribution_total, Wallets
  <2>4. /\ registered_devices' \in [Devices -> Wallets \cup {None}]
        /\ device_wallet_map' \in [Wallets -> Devices \cup {None}]
    BY <1>2 DEF RegisterDevice, Wallets
  <2>5. /\ is_issuance_paused' \in BOOLEAN
        /\ UNCHANGED <<admin_manual_override, seen_nonces, adminVars>>
    BY <1>2 DEF RegisterDevice
  <2>6. QED
    BY <2>2, <2>3, <2>4, <2>5 DEF adminVars
<1>3. ASSUME NEW from \in Wallets, NEW h \in HalfAmounts, NEW n \in Nonces,
             TransferFails(from, h, n)
      PROVE  TypeOK'
  BY <1>3 DEF TransferFails, ConsumeNonce, ledgerVars, switchVars, adminVars
<1>4. ASSUME NEW from \in Wallets, NEW to \in Wallets, NEW h \in HalfAmounts,
             NEW n \in Nonces, TransferSettles(from, to, h, n)
      PROVE  TypeOK'
  <2>1. Whole(h) \in Nat \ {0}
    BY <1>4, WholeTokens DEF TransferSettles, TransferRefused
  <2>2. [type |-> "TRANSFER", from |-> from, to |-> to, amount |-> Whole(h)] \in Tx
    BY <2>1 DEF Tx
  <2>3. transactions' \in Seq(Tx)
    BY <1>4, <2>2 DEF TransferSettles
  <2>4. Moved(from, to, Whole(h)) \in [Wallets -> Int]
    BY <2>1 DEF Moved
  <2>5. Moved(Vault, to, Whole(h)) \in [Wallets -> Int]
    BY <2>1 DEF Moved, Wallets
  <2>6. wallets' \in [Wallets -> Int]
    BY <1>4, <2>4 DEF TransferSettles
  <2>7. admin_vault_balance' \in Int /\ total_public_distributed' \in Nat
    BY <1>4, <2>1, <2>5 DEF TransferSettles, CounterAfterTransfer, Wallets
  <2>8. seen_nonces' \in [Wallets -> SUBSET Nonces]
    BY <1>4 DEF TransferSettles, ConsumeNonce
  <2>9. UNCHANGED <<registered_devices, device_wallet_map, switchVars, adminVars>>
    BY <1>4 DEF TransferSettles
  <2>10. QED
    BY <2>3, <2>6, <2>7, <2>8, <2>9 DEF switchVars, adminVars
<1>5. ASSUME NEW enabled \in BOOLEAN, NEW unpause \in BOOLEAN,
             SetManualOverride(enabled, unpause)
      PROVE  TypeOK'
  BY <1>5 DEF SetManualOverride, ledgerVars, adminVars
<1>6. ASSUME NEW h \in HalfAmounts, NEW target \in Wallets, NEW committed \in BOOLEAN,
             UnlockReservePool(h, target, committed)
      PROVE  TypeOK'
  <2>1. h \in Nat /\ Whole(h) \in Nat
    BY WholeTokens
  <2>2. /\ admin_vault_balance' = admin_vault_balance - Whole(h)
        /\ total_unlocked_reserve' = total_unlocked_reserve + h
        /\ wallets' = [wallets EXCEPT ![target] = @ + Whole(h)]
    BY <1>6, Zenon DEF UnlockReservePool
  <2>3. /\ admin_vault_balance' \in Int /\ total_unlocked_reserve' \in Nat
        /\ wallets' \in [Wallets -> Int]
    BY <2>1, <2>2
  <2>4. [vault_row EXCEPT !.admin_balance = @ - h, !.unlocked = @ + h]
          \in [admin_balance : Int, unlocked : Nat, is_paused : BOOLEAN]
    BY <2>1, DebitedRow
  <2>5. vault_row' \in [admin_balance : Int, unlocked : Nat, is_paused : BOOLEAN]
    BY <1>6, <2>4, Zenon DEF UnlockReservePool
  <2>6. UNCHANGED <<total_public_distributed, registered_devices, device_wallet_map,
                    transactions, switchVars, seen_nonces, is_globally_paused>>
    BY <1>6, Zenon DEF UnlockReservePool
  <2>7. QED
    BY <2>3, <2>5, <2>6 DEF switchVars
<1>7. ASSUME NEW paused \in BOOLEAN, NEW committed \in BOOLEAN,
             SetGlobalPause(paused, committed)
      PROVE  TypeOK'
  <2>1. [vault_row EXCEPT !.is_paused = paused]
          \in [admin_balance : Int, unlocked : Nat, is_paused : BOOLEAN]
    BY PausedRow
  <2>2. vault_row' \in [admin_balance : Int, unlocked : Nat, is_paused : BOOLEAN]
    BY <1>7, <2>1, Zenon DEF SetGlobalPause
  <2>3. is_globally_paused' \in BOOLEAN /\ is_issuance_paused' \in BOOLEAN
    BY <1>7, Zenon DEF SetGlobalPause
  <2>4. UNCHANGED <<ledgerVars, admin_manual_override, seen_nonces,
                    total_unlocked_reserve>>
    BY <1>7 DEF SetGlobalPause
  <2>5. QED
    BY <2>2, <2>3, <2>4 DEF ledgerVars
<1>8. CASE Restart
  <2>1. [type |-> "GENESIS_MINT", to |-> Vault, amount |-> Supply] \in Tx
    BY DEF Tx
  <2>2. transactions' \in Seq(Tx)
    BY <1>8, <2>1 DEF Restart, GenesisChain
  <2>3. wallets' \in [Wallets -> Int] /\ admin_vault_balance' \in Int
    BY <1>8 DEF Restart, FreshWallets
  <2>4. /\ registered_devices' \in [Devices -> Wallets \cup {None}]
        /\ device_wallet_map' \in [Wallets -> Devices \cup {None}]
        /\ seen_nonces' \in [Wallets -> SUBSET Nonces]
    BY <1>8 DEF Restart
  <2>5. QED
    BY <1>8, <2>2, <2>3, <2>4 DEF Restart
<1>9. CASE UNCHANGED vars
  BY <1>9 DEF vars, ledgerVars, switchVars, adminVars
<1> HIDE VaultAssumption DEF TypeOK
<1>10. QED
  BY <1>1, <1>2, <1>3, <1>4, <1>5, <1>6, <1>7, <1>8, <1>9, Zenon DEF Next

\* Every variable keeps its type: in particular what is unlocked, distributed
\* and counted is never negative, and a settled transfer moves a whole token.
THEOREM TypeCorrect == Spec => []TypeOK
BY TypeInit, TypeStep, PTL DEF Spec

-----------------------------------------------------------------------------
(* What every step does to the balances, stated once. *)

\* What a transfer leaves in each wallet, the two ends being one or two.
LEMMA MovedValues ==
  ASSUME TypeOK, NEW from \in Wallets, NEW to \in Wallets, NEW a \in Nat
  PROVE  /\ Moved(from, to, a) \in [Wallets -> Int]
         /\ \A w \in Wallets :
              Moved(from, to, a)[w] =
                wallets[w] - (IF w = from THEN a ELSE 0) + (IF w = to THEN a ELSE 0)
BY DEF Moved, TypeOK

\* The amount of a settled transfer is a positive number of whole tokens that
\* the sender has.
LEMMA SettledAmount ==
  ASSUME TypeOK, NEW from \in Wallets, NEW to \in Wallets, NEW h \in HalfAmounts,
         NEW n \in Nonces, TransferSettles(from, to, h, n)
  PROVE  /\ Whole(h) \in Nat \ {0}
         /\ Whole(h) <= wallets[from]
         /\ ~ReserveViolated(from, Whole(h))
         /\ wallets' = Moved(from, to, Whole(h))
<1>1. h \in Nat
  BY VaultAssumption
<1>2. Whole(h) \in Nat /\ 2 * Whole(h) <= h
  BY <1>1, WholeTokens
<1>3. ~(2 * wallets[from] < h) /\ Whole(h) # 0 /\ ~ReserveViolated(from, Whole(h))
  BY DEF TransferSettles, TransferRefused
<1>4. QED
  BY <1>1, <1>2, <1>3 DEF TransferSettles, TypeOK

\* The three ways a step changes a wallet, the counter or what is unlocked.
Granted(w) ==
  /\ MayIssue
  /\ admin_vault_balance' = admin_vault_balance - Reward
  /\ wallets' = [[wallets EXCEPT ![Vault] = admin_vault_balance - Reward]
                          EXCEPT ![w] = @ + Reward]
  /\ total_unlocked_reserve' = total_unlocked_reserve

Transferred(from, to, a) ==
  /\ a <= wallets[from]
  /\ ~ReserveViolated(from, a)
  /\ wallets' = Moved(from, to, a)
  /\ admin_vault_balance' = IF from = Vault THEN wallets'[Vault]
                                            ELSE admin_vault_balance
  /\ total_unlocked_reserve' = total_unlocked_reserve

Unlocked(a, target) ==
  /\ admin_vault_balance' = admin_vault_balance - a
  /\ wallets' = [wallets EXCEPT ![target] = @ + a]
  /\ total_unlocked_reserve' >= total_unlocked_reserve + 2 * a

\* What a restart leaves.
Reset ==
  /\ wallets' = FreshWallets
  /\ admin_vault_balance' = Supply
  /\ total_unlocked_reserve' = 0

\* A step grants, transfers or unlocks, or is a restart, or leaves every wallet,
\* the counter and what is unlocked alone.
LEMMA BalanceSteps ==
  ASSUME TypeOK, [Next]_vars
  PROVE  \/ \E w \in Wallets : Granted(w)
         \/ \E from \in Wallets, to \in Wallets, a \in Nat : Transferred(from, to, a)
         \/ \E a \in Nat, target \in Wallets : Unlocked(a, target)
         \/ Reset
         \/ UNCHANGED <<wallets, admin_vault_balance, total_unlocked_reserve>>
<1>1. ASSUME NEW d \in Devices, NEW w \in Wallets, RegisterDevice(d, w)
      PROVE  Granted(w)
  BY <1>1 DEF RegisterDevice, Granted, adminVars
<1>2. ASSUME NEW from \in Wallets, NEW to \in Wallets, NEW h \in HalfAmounts,
             NEW n \in Nonces, TransferSettles(from, to, h, n)
      PROVE  Whole(h) \in Nat /\ Transferred(from, to, Whole(h))
  BY <1>2, SettledAmount DEF TransferSettles, CounterAfterTransfer, Transferred, adminVars
<1>3. ASSUME NEW h \in HalfAmounts, NEW target \in Wallets, NEW committed \in BOOLEAN,
             UnlockReservePool(h, target, committed)
      PROVE  Whole(h) \in Nat /\ Unlocked(Whole(h), target)
  <2>1. h \in Nat /\ Whole(h) \in Nat /\ 2 * Whole(h) <= h
    BY VaultAssumption, WholeTokens
  <2>2. /\ admin_vault_balance' = admin_vault_balance - Whole(h)
        /\ wallets' = [wallets EXCEPT ![target] = @ + Whole(h)]
        /\ total_unlocked_reserve' = total_unlocked_reserve + h
    BY <1>3, Zenon DEF UnlockReservePool
  <2>3. total_unlocked_reserve' >= total_unlocked_reserve + 2 * Whole(h)
    BY <2>1, <2>2 DEF TypeOK
  <2>4. QED
    BY <2>1, <2>2, <2>3, Zenon DEF Unlocked
<1>4. Restart => Reset
  BY DEF Restart, Reset
<1>5. ASSUME \/ \E d \in Devices, w \in Wallets : RegistrationHitsCap(d, w)
             \/ \E from \in Wallets, h \in HalfAmounts, n \in Nonces :
                   TransferFails(from, h, n)
             \/ \E enabled, unpause \in BOOLEAN : SetManualOverride(enabled, unpause)
             \/ \E paused, committed \in BOOLEAN : SetGlobalPause(paused, committed)
             \/ UNCHANGED vars
      PROVE  UNCHANGED <<wallets, admin_vault_balance, total_unlocked_reserve>>
  BY <1>5 DEF RegistrationHitsCap, TransferFails, SetManualOverride, SetGlobalPause,
              vars, ledgerVars, adminVars
<1>6. QED
  BY <1>1, <1>2, <1>3, <1>4, <1>5 DEF Next

-----------------------------------------------------------------------------
(* The safety properties. *)

\* The vault's wallet always holds what the counter says, or more: writing the
\* counter over the wallet at a registration never creates tokens.
THEOREM CounterIsCovered == Spec => []WalletCoversCounter
<1>1. Init => WalletCoversCounter
  BY VaultAssumption DEF Init, FreshEngine, FreshWallets, WalletCoversCounter, Wallets
<1>2. TypeOK /\ WalletCoversCounter /\ [Next]_vars => WalletCoversCounter'
  <2> SUFFICES ASSUME TypeOK, WalletCoversCounter, [Next]_vars
               PROVE  WalletCoversCounter'
    OBVIOUS
  <2> USE VaultAssumption DEF WalletCoversCounter, TypeOK
  <2> Vault \in Wallets
    BY DEF Wallets
  <2>1. CASE \E w \in Wallets : Granted(w)
    BY <2>1 DEF Granted, Wallets
  <2>2. ASSUME NEW from \in Wallets, NEW to \in Wallets, NEW a \in Nat,
               Transferred(from, to, a)
        PROVE  WalletCoversCounter'
    <3>1. /\ wallets'[Vault] = wallets[Vault] - (IF Vault = from THEN a ELSE 0)
                                              + (IF Vault = to THEN a ELSE 0)
          /\ wallets'[Vault] \in Int /\ wallets[Vault] \in Int
      BY <2>2, MovedValues DEF Transferred
    <3>2. CASE from = Vault
      BY <2>2, <3>1, <3>2 DEF Transferred
    <3>3. CASE from # Vault
      <4>1. admin_vault_balance' = admin_vault_balance
        BY <2>2, <3>3 DEF Transferred
      <4>2. QED
        BY <3>1, <3>3, <4>1
    <3>4. QED
      BY <3>2, <3>3
  <2>3. CASE \E a \in Nat, target \in Wallets : Unlocked(a, target)
    BY <2>3 DEF Unlocked
  <2>4. CASE Reset
    BY <2>4 DEF Reset, FreshWallets
  <2>5. CASE UNCHANGED <<wallets, admin_vault_balance, total_unlocked_reserve>>
    BY <2>5
  <2>6. QED
    BY <2>1, <2>2, <2>3, <2>4, <2>5, BalanceSteps
<1>3. QED
  BY <1>1, <1>2, TypeCorrect, PTL DEF Spec

\* No public wallet is ever overdrawn, by whatever mix of grants, transfers,
\* unlocks and restarts.
THEOREM PublicIsSolvent == Spec => []PublicNeverOverdrawn
<1>1. Init => PublicNeverOverdrawn
  BY VaultAssumption
  DEF Init, FreshEngine, FreshWallets, PublicNeverOverdrawn, Wallets
<1>2. TypeOK /\ PublicNeverOverdrawn /\ [Next]_vars => PublicNeverOverdrawn'
  <2> SUFFICES ASSUME TypeOK, PublicNeverOverdrawn, [Next]_vars, NEW u \in Users
               PROVE  wallets'[u] >= 0
    BY DEF PublicNeverOverdrawn
  <2> USE VaultAssumption DEF PublicNeverOverdrawn, TypeOK
  <2> u \in Wallets /\ u # Vault /\ Vault \in Wallets
    BY DEF Wallets
  <2>1. CASE \E w \in Wallets : Granted(w)
    BY <2>1 DEF Granted
  <2>2. ASSUME NEW from \in Wallets, NEW to \in Wallets, NEW a \in Nat,
               Transferred(from, to, a)
        PROVE  wallets'[u] >= 0
    <3>1. wallets'[u] = wallets[u] - (IF u = from THEN a ELSE 0)
                                   + (IF u = to THEN a ELSE 0)
      BY <2>2, MovedValues DEF Transferred
    <3>2. a <= wallets[from] /\ wallets[u] \in Int /\ wallets[u] >= 0
      BY <2>2 DEF Transferred
    <3>3. QED
      BY <3>1, <3>2
  <2>3. CASE \E a \in Nat, target \in Wallets : Unlocked(a, target)
    BY <2>3 DEF Unlocked
  <2>4. CASE Reset
    BY <2>4 DEF Reset, FreshWallets
  <2>5. CASE UNCHANGED <<wallets, admin_vault_balance, total_unlocked_reserve>>
    BY <2>5
  <2>6. QED
    BY <2>1, <2>2, <2>3, <2>4, <2>5, BalanceSteps
<1>3. QED
  BY <1>1, <1>2, TypeCorrect, PTL DEF Spec

\* Only the manual override lets a step take the vault's wallet below the
\* reserve: grants and transfers test for it, and no other write lowers it.
THEOREM ReserveIsHeld == Spec => ReserveHeldUnlessOverride
<1>1. TypeOK /\ [Next]_vars
        => [wallets[Vault] >= Reserve /\ wallets'[Vault] < Reserve
              => admin_manual_override]_vars
  <2> SUFFICES ASSUME TypeOK, [Next]_vars, wallets[Vault] >= Reserve,
                      wallets'[Vault] < Reserve, ~admin_manual_override
               PROVE  FALSE
    OBVIOUS
  <2> USE VaultAssumption DEF TypeOK
  <2> Vault \in Wallets
    BY DEF Wallets
  <2>1. ASSUME NEW w \in Wallets, Granted(w)
        PROVE  FALSE
    BY <2>1 DEF Granted, MayIssue, Wallets
  <2>2. ASSUME NEW from \in Wallets, NEW to \in Wallets, NEW a \in Nat,
               Transferred(from, to, a)
        PROVE  FALSE
    <3>1. wallets'[Vault] = wallets[Vault] - (IF Vault = from THEN a ELSE 0)
                                           + (IF Vault = to THEN a ELSE 0)
      BY <2>2, MovedValues DEF Transferred
    <3>2. from = Vault /\ wallets[Vault] - a < Reserve
      BY <3>1
    <3>3. QED
      BY <2>2, <3>2 DEF Transferred, ReserveViolated
  <2>3. CASE \E a \in Nat, target \in Wallets : Unlocked(a, target)
    BY <2>3 DEF Unlocked
  <2>4. CASE Reset
    BY <2>4 DEF Reset, FreshWallets
  <2>5. CASE UNCHANGED <<wallets, admin_vault_balance, total_unlocked_reserve>>
    BY <2>5
  <2>6. QED
    BY <2>1, <2>2, <2>3, <2>4, <2>5, BalanceSteps
<1>2. QED
  BY <1>1, TypeCorrect, PTL DEF Spec, ReserveHeldUnlessOverride

-----------------------------------------------------------------------------
(* Registrations. *)

\* Only a registration, which finds both sides free, and a restart, which frees
\* all, touch the two maps; the distribution counter otherwise only grows.
LEMMA ClaimSteps ==
  ASSUME TypeOK, [Next]_vars
  PROVE  \/ \E d \in Devices, w \in Wallets :
              /\ registered_devices[d] = None /\ device_wallet_map[w] = None
              /\ registered_devices' = [registered_devices EXCEPT ![d] = w]
              /\ device_wallet_map' = [device_wallet_map EXCEPT ![w] = d]
              /\ total_public_distributed' = total_public_distributed + Reward
         \/ /\ registered_devices' = [d \in Devices |-> None]
            /\ device_wallet_map' = [w \in Wallets |-> None]
            /\ total_public_distributed' = 0
         \/ /\ UNCHANGED <<registered_devices, device_wallet_map>>
            /\ total_public_distributed' >= total_public_distributed
<1>1. ASSUME NEW d \in Devices, NEW w \in Wallets, RegisterDevice(d, w)
      PROVE  /\ registered_devices[d] = None /\ device_wallet_map[w] = None
             /\ registered_devices' = [registered_devices EXCEPT ![d] = w]
             /\ device_wallet_map' = [device_wallet_map EXCEPT ![w] = d]
             /\ total_public_distributed' = total_public_distributed + Reward
  BY <1>1 DEF RegisterDevice, AlreadyClaimed, next_distribution_total
<1>2. ASSUME NEW from \in Wallets, NEW to \in Wallets, NEW h \in HalfAmounts,
             NEW n \in Nonces, TransferSettles(from, to, h, n)
      PROVE  /\ UNCHANGED <<registered_devices, device_wallet_map>>
             /\ total_public_distributed' >= total_public_distributed
  <2>1. Whole(h) \in Nat
    BY <1>2, SettledAmount
  <2>2. QED
    BY <1>2, <2>1 DEF TransferSettles, TypeOK
<1>3. ASSUME NEW h \in HalfAmounts, NEW target \in Wallets, NEW committed \in BOOLEAN,
             UnlockReservePool(h, target, committed)
      PROVE  /\ UNCHANGED <<registered_devices, device_wallet_map>>
             /\ total_public_distributed' >= total_public_distributed
  <2>1. UNCHANGED <<registered_devices, device_wallet_map, total_public_distributed>>
    BY <1>3, Zenon DEF UnlockReservePool
  <2>2. QED
    BY <2>1 DEF TypeOK
<1>4. ASSUME \/ \E d \in Devices, w \in Wallets : RegistrationHitsCap(d, w)
             \/ \E from \in Wallets, h \in HalfAmounts, n \in Nonces :
                   TransferFails(from, h, n)
             \/ \E enabled, unpause \in BOOLEAN : SetManualOverride(enabled, unpause)
             \/ \E paused, committed \in BOOLEAN : SetGlobalPause(paused, committed)
             \/ UNCHANGED vars
      PROVE  /\ UNCHANGED <<registered_devices, device_wallet_map>>
             /\ total_public_distributed' >= total_public_distributed
  <2>1. UNCHANGED <<registered_devices, device_wallet_map, total_public_distributed>>
    BY <1>4 DEF RegistrationHitsCap, TransferFails, SetManualOverride, SetGlobalPause,
                vars, ledgerVars
  <2>2. QED
    BY <2>1 DEF TypeOK
<1>5. ASSUME Restart
      PROVE  /\ registered_devices' = [d \in Devices |-> None]
             /\ device_wallet_map' = [w \in Wallets |-> None]
             /\ total_public_distributed' = 0
  BY <1>5 DEF Restart
<1>6. QED
  BY <1>1, <1>2, <1>3, <1>4, <1>5 DEF Next

\* The two deduplication maps stay inverse to each other, so a device feeds one
\* wallet and a wallet is fed by one device.
THEOREM ClaimsStayPaired == Spec => []ClaimsArePaired
<1>1. Init => ClaimsArePaired
  BY VaultAssumption DEF Init, FreshEngine, ClaimsArePaired, Wallets
<1>2. TypeOK /\ ClaimsArePaired /\ [Next]_vars => ClaimsArePaired'
  <2> SUFFICES ASSUME TypeOK, ClaimsArePaired, [Next]_vars,
                      NEW e \in Devices, NEW v \in Wallets
               PROVE  registered_devices'[e] = v <=> device_wallet_map'[v] = e
    BY DEF ClaimsArePaired
  <2> USE VaultAssumption DEF ClaimsArePaired, TypeOK
  <2> v \in Wallets /\ v # None /\ e # None
    BY DEF Wallets
  <2>1. ASSUME NEW d \in Devices, NEW w \in Wallets,
               registered_devices[d] = None, device_wallet_map[w] = None,
               registered_devices' = [registered_devices EXCEPT ![d] = w],
               device_wallet_map' = [device_wallet_map EXCEPT ![w] = d]
        PROVE  registered_devices'[e] = v <=> device_wallet_map'[v] = e
    <3>1. registered_devices[e] = v <=> device_wallet_map[v] = e
      OBVIOUS
    <3>2. registered_devices'[e] = IF e = d THEN w ELSE registered_devices[e]
      BY <2>1
    <3>3. device_wallet_map'[v] = IF v = w THEN d ELSE device_wallet_map[v]
      BY <2>1
    <3>4. QED
      BY <2>1, <3>1, <3>2, <3>3
  <2>2. CASE /\ registered_devices' = [d \in Devices |-> None]
             /\ device_wallet_map' = [w \in Wallets |-> None]
    BY <2>2
  <2>3. CASE UNCHANGED <<registered_devices, device_wallet_map>>
    BY <2>3
  <2>4. QED
    BY <2>1, <2>2, <2>3, ClaimSteps
<1>3. QED
  BY <1>1, <1>2, TypeCorrect, PTL DEF Spec

\* Every grant is inside the counter the 49% cap is tested against, which a
\* transfer out of the vault may raise further but nothing but a restart lowers.
THEOREM GrantsStayCounted == Spec => []GrantsAreCounted
<1>1. Init => GrantsAreCounted
  <2> SUFFICES ASSUME Init PROVE GrantsAreCounted
    OBVIOUS
  <2>1. Registered = {}
    BY DEF Init, FreshEngine, Registered
  <2>2. QED
    BY <2>1, FS_EmptySet, VaultAssumption DEF Init, FreshEngine, GrantsAreCounted
<1>2. TypeOK /\ GrantsAreCounted /\ [Next]_vars => GrantsAreCounted'
  <2> SUFFICES ASSUME TypeOK, GrantsAreCounted, [Next]_vars
               PROVE  GrantsAreCounted'
    OBVIOUS
  <2> USE VaultAssumption DEF TypeOK
  <2>1. IsFiniteSet(Registered) /\ Cardinality(Registered) \in Nat
    <3>1. Registered \subseteq Devices
      BY DEF Registered
    <3>2. QED
      BY <3>1, FS_Subset, FS_CardinalityType
  <2>2. ASSUME NEW d \in Devices, NEW w \in Wallets, registered_devices[d] = None,
               registered_devices' = [registered_devices EXCEPT ![d] = w],
               total_public_distributed' = total_public_distributed + Reward
        PROVE  GrantsAreCounted'
    <3>1. d \notin Registered
      BY <2>2 DEF Registered
    <3>2. Registered' = Registered \cup {d}
      <4>1. w # None
        BY DEF Wallets
      <4>2. QED
        BY <2>2, <4>1 DEF Registered
    <3>3. Cardinality(Registered') = Cardinality(Registered) + 1
      BY <2>1, <3>1, <3>2, FS_AddElement
    <3>4. Reward * (Cardinality(Registered) + 1) = Reward * Cardinality(Registered) + Reward
      BY <2>1
    <3>5. QED
      BY <2>1, <2>2, <3>3, <3>4 DEF GrantsAreCounted
  <2>3. CASE /\ registered_devices' = [d \in Devices |-> None]
             /\ total_public_distributed' = 0
    <3>1. Registered' = {}
      BY <2>3 DEF Registered
    <3>2. QED
      BY <2>3, <3>1, FS_EmptySet DEF GrantsAreCounted
  <2>4. CASE /\ UNCHANGED registered_devices
             /\ total_public_distributed' >= total_public_distributed
    <3>1. Registered' = Registered /\ total_public_distributed' \in Int
      BY <2>4, TypeStep DEF Registered
    <3>2. Reward * Cardinality(Registered) \in Int
      BY <2>1
    <3>3. QED
      BY <2>4, <3>1, <3>2 DEF GrantsAreCounted
  <2>5. QED
    BY <2>2, <2>3, <2>4, ClaimSteps
<1>3. QED
  BY <1>1, <1>2, TypeCorrect, PTL DEF Spec

-----------------------------------------------------------------------------
(* The supply. *)

\* A grant writes the counter over the vault's wallet and gives at most what
\* that took: the wallets hold no more than before.
LEMMA GrantCreatesNothing ==
  ASSUME TypeOK, WalletCoversCounter, NEW w \in Wallets, Granted(w)
  PROVE  InCirculation \in Int /\ InCirculation' \in Int /\ InCirculation' <= InCirculation
<1> DEFINE c == admin_vault_balance - Reward
           mid == [wallets EXCEPT ![Vault] = c]
<1>1. /\ wallets \in [Wallets -> Int] /\ IsFiniteSet(Wallets) /\ Vault \in Wallets
      /\ c \in Int /\ c + Reward <= wallets[Vault] /\ Reward \in Nat
  BY VaultAssumption, FS_AddElement DEF TypeOK, Wallets, WalletCoversCounter
<1>2. wallets' = [mid EXCEPT ![w] = mid[w] + Reward]
  BY DEF Granted
<1> HIDE DEF c
<1>3. mid \in [Wallets -> Int] /\ mid[w] \in Int /\ mid[w] + Reward \in Int
  BY <1>1
<1>4. SumFunction(wallets) \in Int /\ SumFunction(mid) = SumFunction(wallets) + c - wallets[Vault]
  BY <1>1, SumExcept
<1> HIDE DEF mid
<1>5. SumFunction(wallets') = SumFunction(mid) + (mid[w] + Reward) - mid[w]
  BY <1>1, <1>2, <1>3, SumExcept
<1>6. QED
  BY <1>1, <1>3, <1>4, <1>5 DEF InCirculation

\* A transfer, to oneself too, moves what there is.
LEMMA TransferConserves ==
  ASSUME TypeOK, NEW from \in Wallets, NEW to \in Wallets, NEW a \in Nat,
         Transferred(from, to, a)
  PROVE  InCirculation \in Int /\ InCirculation' = InCirculation
<1>1. wallets \in [Wallets -> Int] /\ IsFiniteSet(Wallets)
  BY VaultAssumption, FS_AddElement DEF TypeOK, Wallets
<1>2. wallets' = Shifted(wallets, from, to, a) /\ a \in Int
  BY DEF Transferred, Moved, Shifted
<1>3. QED
  BY <1>1, <1>2, SumMoved DEF InCirculation

\* An unlock adds its whole tokens.
LEMMA UnlockAdds ==
  ASSUME TypeOK, NEW a \in Nat, NEW target \in Wallets, Unlocked(a, target)
  PROVE  InCirculation \in Int /\ InCirculation' = InCirculation + a
<1>1. /\ wallets \in [Wallets -> Int] /\ IsFiniteSet(Wallets)
      /\ wallets[target] \in Int /\ wallets[target] + a \in Int
  BY VaultAssumption, FS_AddElement DEF TypeOK, Wallets
<1>2. wallets' = [wallets EXCEPT ![target] = wallets[target] + a]
  BY DEF Unlocked
<1>3. /\ SumFunction(wallets) \in Int
      /\ SumFunction(wallets') = SumFunction(wallets) + (wallets[target] + a) - wallets[target]
  BY <1>1, <1>2, SumExcept
<1>4. QED
  BY <1>1, <1>3 DEF InCirculation

\* A new engine holds the supply.
LEMMA FreshSupply == SumFunction(FreshWallets) = Supply
<1> DEFINE zero == [w \in Wallets |-> 0]
<1>1. /\ zero \in [Wallets -> Int] /\ IsFiniteSet(Wallets) /\ Vault \in Wallets
      /\ Supply \in Int
  BY VaultAssumption, FS_AddElement DEF Wallets
<1>2. FreshWallets = [zero EXCEPT ![Vault] = Supply] /\ zero[Vault] = 0
  BY <1>1 DEF FreshWallets
<1>3. SumFunction(zero) = 0
  <2>1. DOMAIN zero = Wallets /\ \A w \in Wallets : zero[w] = 0
    OBVIOUS
  <2> HIDE DEF zero
  <2>2. SumFunctionOnSet(zero, Wallets) = 0
    BY <1>1, <2>1, SumZero
  <2>3. QED
    BY <2>1, <2>2, Zenon DEF SumFunction
<1> HIDE DEF zero
<1>4. SumFunction(FreshWallets) = SumFunction(zero) + Supply - zero[Vault]
  BY <1>1, <1>2, SumExcept
<1>5. QED
  BY <1>1, <1>2, <1>3, <1>4

\* The wallets together never hold more than the supply and what was unlocked:
\* what a registration gives out the vault has lost, because the counter it
\* writes over the vault's wallet is never above that wallet.
THEOREM SupplyIsCapped == Spec => []NothingBeyondSupplyAndUnlocks
<1>1. Init => NothingBeyondSupplyAndUnlocks
  BY FreshSupply, VaultAssumption
  DEF Init, FreshEngine, NothingBeyondSupplyAndUnlocks, InCirculation
<1>arith. /\ \A x, y \in Int : \A t, u \in Nat :
                y <= x /\ 2 * x <= 2 * t + u => 2 * y <= 2 * t + u
          /\ \A x \in Int : \A t, u, a, v \in Nat :
                2 * x <= 2 * t + u /\ v >= u + 2 * a => 2 * (x + a) <= 2 * t + v
  OBVIOUS
<1>2. TypeOK /\ WalletCoversCounter /\ NothingBeyondSupplyAndUnlocks /\ [Next]_vars
        => NothingBeyondSupplyAndUnlocks'
  <2> SUFFICES ASSUME TypeOK, WalletCoversCounter, NothingBeyondSupplyAndUnlocks,
                      [Next]_vars
               PROVE  NothingBeyondSupplyAndUnlocks'
    OBVIOUS
  <2>1. Supply \in Nat /\ total_unlocked_reserve \in Nat
    BY VaultAssumption DEF TypeOK
  <2>2. 2 * InCirculation <= 2 * Supply + total_unlocked_reserve
    BY DEF NothingBeyondSupplyAndUnlocks
  <2>3. SUFFICES 2 * InCirculation' <= 2 * Supply + total_unlocked_reserve'
    BY DEF NothingBeyondSupplyAndUnlocks
  <2>4. ASSUME NEW w \in Wallets, Granted(w)
        PROVE  2 * InCirculation' <= 2 * Supply + total_unlocked_reserve'
    <3>1. InCirculation \in Int /\ InCirculation' \in Int /\ InCirculation' <= InCirculation
      BY <2>4, GrantCreatesNothing
    <3>2. total_unlocked_reserve' = total_unlocked_reserve
      BY <2>4 DEF Granted
    <3>3. QED
      BY <2>1, <2>2, <3>1, <3>2, <1>arith, Zenon
  <2>5. ASSUME NEW from \in Wallets, NEW to \in Wallets, NEW a \in Nat,
               Transferred(from, to, a)
        PROVE  2 * InCirculation' <= 2 * Supply + total_unlocked_reserve'
    BY <2>1, <2>2, <2>5, TransferConserves DEF Transferred
  <2>6. ASSUME NEW a \in Nat, NEW target \in Wallets, Unlocked(a, target)
        PROVE  2 * InCirculation' <= 2 * Supply + total_unlocked_reserve'
    <3>1. total_unlocked_reserve' \in Nat
      BY TypeStep DEF TypeOK
    <3>2. InCirculation \in Int /\ InCirculation' = InCirculation + a
      BY <2>6, UnlockAdds
    <3>3. total_unlocked_reserve' >= total_unlocked_reserve + 2 * a
      BY <2>6 DEF Unlocked
    <3>4. QED
      BY <2>1, <2>2, <3>1, <3>2, <3>3, <1>arith, Zenon
  <2>7. CASE Reset
    BY <2>1, <2>7, FreshSupply DEF Reset, InCirculation
  <2>8. CASE UNCHANGED <<wallets, admin_vault_balance, total_unlocked_reserve>>
    BY <2>2, <2>8 DEF InCirculation
  <2>9. QED
    BY <2>4, <2>5, <2>6, <2>7, <2>8, BalanceSteps
<1>3. QED
  BY <1>1, <1>2, TypeCorrect, CounterIsCovered, PTL DEF Spec

=============================================================================
