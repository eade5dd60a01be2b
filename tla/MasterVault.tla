----------------------------- MODULE MasterVault -----------------------------
(***************************************************************************)
(* The 51/49 token ledger of the Python back end: the in-memory ledger     *)
(* (server/crypto/master_vault_ledger.py), the administrator's command     *)
(* engine that writes into it (server/services/admin_control.py) and the   *)
(* REST handlers in front of both (server/routers/token_api.py).           *)
(*                                                                         *)
(* The handlers are coroutines without an await between their first read   *)
(* and their last write, so on the event loop each one is a single step.   *)
(* Amounts of a request are floats: they are counted here in half tokens,  *)
(* which is enough to tell a float from the int() the ledger takes of it.  *)
(* Hashes, timestamps, receipts, log lines, broadcasts and the list of     *)
(* administrative actions are left out.                                    *)
(***************************************************************************)
EXTENDS Integers, Sequences, FiniteSets, Functions

CONSTANTS
  Users,          \* wallet addresses of the public
  Vault,          \* ADMIN_MASTER_VAULT_ADDRESS
  Devices,        \* hardware ids
  Nonces,         \* nonces a client may put on a transfer
  Supply,         \* TOTAL_SUPPLY
  Reserve,        \* LOCKED_ADMIN_RESERVE, 51%
  PublicCap,      \* MAX_PUBLIC_DISTRIBUTION, 49%
  Reward,         \* DEVICE_REGISTRATION_REWARD
  HalfAmounts,    \* amounts a request may name, in half tokens (Field gt=0)
  None,           \* "no device" and "no wallet"
  MaxTransactions,\* bound on the length of the transaction list
  MaxUnlocked     \* bound on what is unlocked from the reserve, half tokens

Wallets == Users \cup {Vault}

ASSUME VaultAssumption ==
  /\ Vault \notin Users
  /\ None \notin Wallets \cup Devices
  /\ IsFiniteSet(Devices) /\ IsFiniteSet(Users)
  /\ Reserve \in Nat /\ PublicCap \in Nat /\ Supply = Reserve + PublicCap
  /\ Reward \in Nat \ {0}
  /\ HalfAmounts \subseteq Nat \ {0}
  /\ MaxTransactions \in Nat /\ MaxUnlocked \in Nat

VARIABLES
  admin_vault_balance, total_public_distributed, wallets,
  registered_devices,      \* device -> the wallet it was registered with
  device_wallet_map,       \* wallet -> the device it is linked to
  is_issuance_paused, admin_manual_override,
  transactions,            \* the hash-chained list, without its hashes
  seen_nonces,             \* _wallet_seen_nonces of the REST layer
  is_globally_paused, total_unlocked_reserve,   \* AdminControlEngine
  vault_row                \* the MasterVault row of the SQL database

ledgerVars == <<admin_vault_balance, total_public_distributed, wallets,
                registered_devices, device_wallet_map, transactions>>
switchVars == <<is_issuance_paused, admin_manual_override>>
adminVars  == <<is_globally_paused, total_unlocked_reserve, vault_row>>
vars == <<ledgerVars, switchVars, seen_nonces, adminVars>>

Tx == [type : {"GENESIS_MINT"}, to : {Vault}, amount : {Supply}]
      \cup [type : {"DEVICE_REGISTRATION"}, device : Devices, to : Wallets]
      \cup [type : {"TRANSFER"}, from : Wallets, to : Wallets, amount : Nat \ {0}]

\* int(amount): a request's amount truncated to whole tokens.
Whole(h) == h \div 2

FreshWallets == [w \in Wallets |-> IF w = Vault THEN Supply ELSE 0]
GenesisChain == <<[type |-> "GENESIS_MINT", to |-> Vault, amount |-> Supply]>>

\* What a new engine holds: everything in the vault, nobody registered.
FreshEngine ==
  /\ admin_vault_balance = Supply
  /\ total_public_distributed = 0
  /\ wallets = FreshWallets
  /\ registered_devices = [d \in Devices |-> None]
  /\ device_wallet_map = [w \in Wallets |-> None]
  /\ is_issuance_paused = FALSE
  /\ admin_manual_override = FALSE
  /\ transactions = GenesisChain
  /\ seen_nonces = [w \in Wallets |-> {}]
  /\ is_globally_paused = FALSE
  /\ total_unlocked_reserve = 0

\* _seed_master_vault_if_empty: the SQL row counts only the locked reserve.
SeededRow == [admin_balance |-> 2 * Reserve, unlocked |-> 0, is_paused |-> FALSE]

Init == FreshEngine /\ vault_row = SeededRow

-----------------------------------------------------------------------------
(* register_device, behind POST /device/register. *)

\* Mutant: a deduplication that looks at only one of the two maps.
ClaimedByWalletOnly(d, w) == device_wallet_map[w] # None

AlreadyClaimed(d, w) == registered_devices[d] # None \/ device_wallet_map[w] # None

\* Mutant: a grant given under the override is not counted.
UncountedUnderOverride ==
  total_public_distributed + (IF admin_manual_override THEN 0 ELSE Reward)

next_distribution_total == total_public_distributed + Reward

CapExceeded == next_distribution_total > PublicCap

\* Past the duplicate checks: the cap refuses, and the refusal itself pauses.
RegistrationHitsCap(d, w) ==
  /\ ~AlreadyClaimed(d, w)
  /\ CapExceeded
  /\ ~admin_manual_override
  /\ is_issuance_paused' = TRUE
  /\ UNCHANGED <<ledgerVars, admin_manual_override, seen_nonces, adminVars>>

MayIssue ==
  \/ admin_manual_override
  \/ /\ ~CapExceeded
     /\ ~is_issuance_paused
     /\ admin_vault_balance - Reward >= Reserve

\* The vault's wallet is overwritten with the counter, not decremented, and only
\* then is the grant added: nothing keeps w from being the vault itself.
RegisterDevice(d, w) ==
  /\ Len(transactions) < MaxTransactions
  /\ ~AlreadyClaimed(d, w)
  /\ MayIssue
  /\ admin_vault_balance' = admin_vault_balance - Reward
  /\ total_public_distributed' = next_distribution_total
  /\ wallets' = [[wallets EXCEPT ![Vault] = admin_vault_balance - Reward]
                          EXCEPT ![w] = @ + Reward]
  /\ registered_devices' = [registered_devices EXCEPT ![d] = w]
  /\ device_wallet_map' = [device_wallet_map EXCEPT ![w] = d]
  /\ transactions' = Append(transactions,
        [type |-> "DEVICE_REGISTRATION", device |-> d, to |-> w])
  /\ is_issuance_paused' =
        (is_issuance_paused \/ next_distribution_total >= PublicCap)
  /\ UNCHANGED <<admin_manual_override, seen_nonces, adminVars>>

-----------------------------------------------------------------------------
(* POST /token/transfer: the nonce is taken before anything is checked. *)

\* Mutant: the reserve is tested before the amount is taken off.
ReserveTestedTooEarly(from, amount) ==
  from = Vault /\ wallets[from] < Reserve /\ ~admin_manual_override

ReserveViolated(from, amount) ==
  from = Vault /\ wallets[from] - amount < Reserve /\ ~admin_manual_override

\* Mutants: no balance check; no check that a whole token is moved.
RefusedWithoutBalanceCheck(from, h) ==
  Whole(h) = 0 \/ ReserveViolated(from, Whole(h))
RefusedWithoutAmountCheck(from, h) ==
  2 * wallets[from] < h \/ ReserveViolated(from, Whole(h))

TransferRefused(from, h) ==
  \/ 2 * wallets[from] < h              \* the router's check, on the float
  \/ Whole(h) = 0                       \* the engine's checks, on the int
  \/ ReserveViolated(from, Whole(h))

ConsumeNonce(from, n) ==
  /\ n \notin seen_nonces[from]
  /\ seen_nonces' = [seen_nonces EXCEPT ![from] = @ \cup {n}]

TransferFails(from, h, n) ==
  /\ ConsumeNonce(from, n)
  /\ TransferRefused(from, h)
  /\ UNCHANGED <<ledgerVars, switchVars, adminVars>>

\* Mutant: the receiver is credited from the balance read before the debit.
MovedFromStaleRead(from, to, amount) ==
  [[wallets EXCEPT ![from] = @ - amount] EXCEPT ![to] = wallets[to] + amount]

\* Both writes in turn, so that a transfer to oneself changes no balance.
Moved(from, to, amount) ==
  [[wallets EXCEPT ![from] = @ - amount] EXCEPT ![to] = @ + amount]

\* Mutant: the counter is refreshed before the wallets are written.
CounterBeforeTransfer(to, amount) == wallets[Vault]

\* What the counter is set to by a transfer out of the vault.
CounterAfterTransfer(to, amount) == Moved(Vault, to, amount)[Vault]

TransferSettles(from, to, h, n) ==
  LET amount == Whole(h) IN
  /\ Len(transactions) < MaxTransactions
  /\ ConsumeNonce(from, n)
  /\ ~TransferRefused(from, h)
  /\ wallets' = Moved(from, to, amount)
  /\ IF from = Vault
     THEN /\ admin_vault_balance' = CounterAfterTransfer(to, amount)
          /\ total_public_distributed' = total_public_distributed + amount
     ELSE UNCHANGED <<admin_vault_balance, total_public_distributed>>
  /\ transactions' = Append(transactions,
        [type |-> "TRANSFER", from |-> from, to |-> to, amount |-> amount])
  /\ UNCHANGED <<registered_devices, device_wallet_map, switchVars, adminVars>>

-----------------------------------------------------------------------------
(* The administrator: set_admin_manual_override, unlock_reserve_pool,      *)
(* set_global_pause.  The SQL write comes after the write to memory and    *)
(* its failure is logged and forgotten, so each may or may not take place. *)

SetManualOverride(enabled, unpause) ==
  /\ admin_manual_override' = enabled
  /\ is_issuance_paused' = (is_issuance_paused /\ ~unpause)
  /\ UNCHANGED <<ledgerVars, seen_nonces, adminVars>>

\* The counter is debited; the vault's own wallet is not.
UnlockReservePool(h, target, committed) ==
  /\ total_unlocked_reserve + h <= MaxUnlocked
  /\ vault_row.unlocked + h <= MaxUnlocked
  /\ h <= 2 * admin_vault_balance
  /\ admin_vault_balance' = admin_vault_balance - Whole(h)
  /\ total_unlocked_reserve' = total_unlocked_reserve + h
  /\ wallets' = [wallets EXCEPT ![target] = @ + Whole(h)]
  /\ vault_row' = IF committed
                  THEN [vault_row EXCEPT !.admin_balance = @ - h, !.unlocked = @ + h]
                  ELSE vault_row
  /\ UNCHANGED <<total_public_distributed, registered_devices, device_wallet_map,
                 transactions, switchVars, seen_nonces, is_globally_paused>>

SetGlobalPause(paused, committed) ==
  /\ is_globally_paused' = paused
  /\ is_issuance_paused' = paused
  /\ vault_row' = IF committed THEN [vault_row EXCEPT !.is_paused = paused]
                               ELSE vault_row
  /\ UNCHANGED <<ledgerVars, admin_manual_override, seen_nonces,
                 total_unlocked_reserve>>

\* Nothing but the SQL row is persistent, and nothing is read back from it.
Restart ==
  /\ admin_vault_balance' = Supply
  /\ total_public_distributed' = 0
  /\ wallets' = FreshWallets
  /\ registered_devices' = [d \in Devices |-> None]
  /\ device_wallet_map' = [w \in Wallets |-> None]
  /\ is_issuance_paused' = FALSE
  /\ admin_manual_override' = FALSE
  /\ transactions' = GenesisChain
  /\ seen_nonces' = [w \in Wallets |-> {}]
  /\ is_globally_paused' = FALSE
  /\ total_unlocked_reserve' = 0
  /\ UNCHANGED vault_row

Next ==
  \/ \E d \in Devices, w \in Wallets : RegistrationHitsCap(d, w)
  \/ \E d \in Devices, w \in Wallets : RegisterDevice(d, w)
  \/ \E from \in Wallets, h \in HalfAmounts, n \in Nonces : TransferFails(from, h, n)
  \/ \E from, to \in Wallets, h \in HalfAmounts, n \in Nonces :
        TransferSettles(from, to, h, n)
  \/ \E enabled, unpause \in BOOLEAN : SetManualOverride(enabled, unpause)
  \/ \E h \in HalfAmounts, target \in Wallets, committed \in BOOLEAN :
        UnlockReservePool(h, target, committed)
  \/ \E paused, committed \in BOOLEAN : SetGlobalPause(paused, committed)
  \/ Restart

Spec == Init /\ [][Next]_vars

-----------------------------------------------------------------------------
(* Properties. *)

\* The type of every variable.
TypeOK ==
  /\ admin_vault_balance \in Int
  /\ total_public_distributed \in Nat
  /\ wallets \in [Wallets -> Int]
  /\ registered_devices \in [Devices -> Wallets \cup {None}]
  /\ device_wallet_map \in [Wallets -> Devices \cup {None}]
  /\ is_issuance_paused \in BOOLEAN
  /\ admin_manual_override \in BOOLEAN
  /\ transactions \in Seq(Tx)
  /\ seen_nonces \in [Wallets -> SUBSET Nonces]
  /\ is_globally_paused \in BOOLEAN
  /\ total_unlocked_reserve \in Nat
  /\ vault_row \in [admin_balance : Int, unlocked : Nat, is_paused : BOOLEAN]

\* The counter admin_vault_balance and the vault's own wallet are two copies
\* that different handlers write: the counter never exceeds the wallet, so a
\* registration, which overwrites the wallet with it, cannot create tokens.
WalletCoversCounter == wallets[Vault] >= admin_vault_balance

\* No sequence of registrations, transfers, unlocks and restarts drives a
\* public wallet below zero.
PublicNeverOverdrawn == \A u \in Users : wallets[u] >= 0

\* A device and a wallet claim each other: the two maps that deduplicate
\* registrations are inverse to each other, so one device never feeds two
\* wallets nor one wallet two devices.
ClaimsArePaired ==
  \A d \in Devices, w \in Wallets :
     registered_devices[d] = w <=> device_wallet_map[w] = d

Registered == {d \in Devices : registered_devices[d] # None}

\* Every grant ever given is inside the distribution counter that the 49% cap
\* is tested against.
GrantsAreCounted == total_public_distributed >= Reward * Cardinality(Registered)

InCirculation == SumFunction(wallets)

\* Registrations, transfers and the overwriting of the vault's wallet never
\* create tokens: all wallets together hold at most the supply and what the
\* administrator has unlocked.
NothingBeyondSupplyAndUnlocks ==
  2 * InCirculation <= 2 * Supply + total_unlocked_reserve

\* Whatever is unlocked, sent back or granted, only the manual override lets a
\* step take the vault's wallet from above the 51% reserve to below it.
ReserveHeldUnlessOverride ==
  [][wallets[Vault] >= Reserve /\ wallets'[Vault] < Reserve
       => admin_manual_override]_vars

=============================================================================
