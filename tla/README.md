# Formal model of the 9898048483 token system and its smart-card stack

TLA+ models of the parts of this repository that move tokens and of the OpenSC
tree it carries for its hardware token, the TLC runs that check them and the
TLAPS proofs about them. Paths are relative to the repository root, and in the
OpenSC rows and notes to `opensc/src`.

## 1. Inventory

| Component | State it keeps | Operations that change it | What makes it hard |
|---|---|---|---|
| Master vault ledger (`server/crypto/master_vault_ledger.py`) | wallets, `admin_vault_balance`, `total_public_distributed`, two registration maps, pause and override flags, hash chain | `register_device`, `transfer`, `set_admin_manual_override` | two copies of the vault's balance, two deduplication maps, a cap and a reserve tested at different moments |
| Administrator engine (`server/services/admin_control.py`) | global pause, unlocked total; writes into the vault ledger and one SQL row | `unlock_reserve_pool`, `set_global_pause`, `adjust_reward_rate`, `freeze_wallet` | memory first, SQL after, SQL failure swallowed; a restart keeps only the SQL row |
| Token REST API (`server/routers/token_api.py`) | nonces seen per wallet | `/device/register`, `/token/transfer`, `/admin/unlock-reserve` | nonce consumed before the checks; float amounts |
| Hardware token detector (`server/crypto/hardwareTokenDetector.ts`) | cached reading and its age | `checkStatus`, `enforceAttached`, poll timer | stale cache, failing probe, removal at any moment |
| File-backed ledger (`server/services/tokenLedger.ts`) | balances and history in memory, two JSON files | `getBalance`, `transfer`, `transferWithHardwareAuth`, `mint`, `saveState`, `loadState` | crash between or inside the two writes, swallowed write errors, reads that write |
| HTLC engine (`server/services/htlc_atomic_swap.py`) | contracts | lock, claim, refund | clock against claim and refund, two legs of one swap |
| Atomic swap engine (`server/services/atomic_swaps.py`) | swaps | initiate, redeem, refund | a failing call that changes the status; both calls open at the expiry |
| Micro-ledger (`server/crypto/micro_ledger_engine.py`) | SQLite accounts, blocks, transactions, checkpoints | block, rollback, snapshot | rollback and snapshots of different branches |
| Nonce validator, mempool (`server/crypto/nonce_validator.py`, `server/network/mempool.py`) | nonces, pending set, fee queue | track, commit, add, evict | a commit that re-validates, eviction at capacity |
| Validator staking (`server/services/validator_staking.py`) | stakes, statuses, unbonding queue | bond, slash, unbond, claim | status transitions that undo each other |
| State channels (`server/services/state_channels.py`, `ephemeral_state_channels.py`) | channel records | update, close, dispute, challenge | no status guards |
| Governance (`server/services/timelock_governance.py`) | proposals | sign, veto, execute | veto and execution race |
| Escrow, P2P fiat gateway, IBC relay | records per deal or packet | see `PROJECT.json` | timeouts and external rails |
| OpenSC PKCS#11 slots and sessions (`pkcs11/slot.c`, `pkcs11-session.c`, `pkcs11-global.c`, `misc.c`) | slot and session lists, login of each slot, PINs kept for replay, each listener's view of the readers, the global lock | initialise, finalise, detect, token, session and login functions, the wait for an event | cards that go or are exchanged between two calls; a thread that waits without the lock; early returns that keep it |
| OpenSC card access (`libopensc/card.c`, `apdu.c`, `reader-pcsc.c`, `pkcs15-sec.c`, `pkcs15-pin.c`, `pkcs11/framework-pkcs15.c`) | lock count and transaction, cached PIN, the login's share of the lock; on the card: selected key, environment, command chain, PIN status and tries | lock, unlock, select, set environment, send a chain, verify, change PIN, log in and out, unbind | several processes on one card; resets, failing commands, a PIN changed elsewhere |
| OpenSC symmetric streams (`libopensc/card-myeid.c`, `pkcs11/mechanism.c`) | operation of each session; the driver's rest and held-back block; the card's chaining | init, update, final, one-call, size query | block boundaries, padding, one pair of buffers for all sessions, a part sent twice |
| OpenSC: other card drivers, minidriver, personalisation, PKCS#15 decoding, secure messaging, tools | see `PROJECT.json` | | not modelled, reasons there |
| Node gateway (`server.ts`), clients, simulators | see `PROJECT.json` | | not modelled, reasons there |

The vault ledger, the administrator engine and the REST API share memory: the
engine writes straight into the ledger's fields. The file-backed ledger calls
the detector synchronously before it lets an administrator spend and each time
it reads an administrator's balance. The two swap engines are independent; a
swap session is a pair of contracts that only the clients relate. In OpenSC an
application calls the PKCS#11 functions under one global lock; they reach the
card through the PKCS#15 layer, whose operations lock the card, and the PC/SC
service arbitrates between processes. The three OpenSC models share no
variables: each takes from the layer below what its own hazards depend on (which
card is in a reader; who has the transaction; what the card chains).

## 2. Modules

| Module | Models | Notes |
|---|---|---|
| `MasterVault` | ledger, administrator engine, REST handlers | one action per handler outcome |
| `FiniteInduction` | | lemmas only: sums over finite sets and functions, induction over a finite set and over naturals by sets of counterexamples |
| `MasterVaultProofs` | | seven theorems |
| `HardwareToken` | detector | extended by `TokenLedger` |
| `TokenLedger` | file-backed ledger with its writes, crashes, starts | |
| `TokenLedgerProofs` | | five theorems |
| `HashTimeLock` | nothing in the code: the abstract promise of a hash time lock | |
| `HtlcAtomicSwap` | the newer swap engine | implements `HashTimeLock` |
| `SwapSession` | two clients swapping over the engine | extends `HtlcAtomicSwap` |
| `AtomicSwaps` | the older swap engine | implements `HashTimeLock` |
| `SwapProofs` | both engines and the session | six theorems |
| `MicroLedger` | the SQLite ledger: blocks, rollbacks, snapshots | |
| `MicroLedgerProofs` | | six theorems |
| `PcscReaders` | what a listener of the PC/SC service sees of cards that come and go | |
| `Pkcs11Slots` | slots, tokens, detection, closing of sessions, as operators on the library's state | extends `PcscReaders` |
| `Pkcs11` | the functions an application calls, and the waiting thread | extends `Pkcs11Slots` |
| `Pkcs11Proofs` | | six theorems |
| `CardAccess` | several processes with one card: lock, transport, use of a key, PIN cache | |
| `CardAccessProofs` | | four theorems |
| `SymmetricStreams` | encryption and decryption in parts by the MyEID driver | |
| `SymmetricStreamsProofs` | | three theorems |
| `MCMasterVault`, `MCTokenLedger`, `MCMicroLedger`, `MCPkcs11`, `MCCardAccess`, `MCSymmetricStreams` | | the TLC instances |

### Correspondence and abstraction

*MasterVault.* The handlers are `async def` without an `await` between their
first read and last write, so each is one step on the event loop. Amounts are
in half tokens, because the request carries a float and the ledger truncates
it: `Whole(h)` is `int()`. `RegisterDevice` and `RegistrationHitsCap` are the
two outcomes of a registration that change something; the other refusals change
nothing and are left out. The transfer is two actions because a refused one
still consumes its nonce. `UnlockReservePool` and `SetGlobalPause` take a flag
that says whether the SQL write succeeded. `Restart` rebuilds the in-memory
state and keeps the SQL row. Any wallet may register, the vault's own included.

*TokenLedger.* A handler is synchronous; what it does to memory is one step, and
every `saveState` it calls is queued in `saves` as two writes, which are steps
of their own (`WriteLedger`, `WriteTransactions`), so that `Crash` and
`WriteFails` can happen before, between and inside them. The next handler waits
for the queue to empty, as Node's blocking writes make it. A reading of the
token is a choice from `CheckStatus`: the physical state, `FALSE` for a failed
probe, or the cached answer while it is fresh. Four history variables record
failed writes, files of different saves and lost files; no step reads them and
the properties use them to name the excuses the code really has.

*Swaps.* A hash lock is named by the one secret that opens it. The clock is an
integer. Methods hold the engine's lock throughout, so each is one step, and a
call that raises is left out unless it changes state (`RedeemTooLate`).

*MicroLedger.* A block is one SQL transaction on a working copy, `work`. The
model takes its transactions one at a time, so that a refusal, a duplicate hash
or the end of the process (`Crash`) can fall after any of them; `CommitBlock`
writes accounts, block and rows at once and `ForkConflict` is the failing insert
at a height that is taken. `execute_state_transition` builds a block of one
transaction and is one step, because an end of the process inside it leaves the
database as it was. A state root stands for the accounts it hashes. `blind`
records that a rollback has left accounts that belong to no block of the chain;
`ChainReplays` excludes those histories and `RollbackRestores` is about them.

*Pkcs11.* A reader is an event counter, odd while a card is inside, so that a
value names one insertion of one card. A slot's `p11card` is the counter at which
the card was connected. The operators of `Pkcs11Slots` take the library's state
and return the next one, as the C functions they are named after change the
global lists, so a call that detects cards, drops some and then opens a session
chains them in one action: it runs under the global lock. `lock` is "stuck" after
one of the early returns that keep it, and no call is possible then.
`C_WaitForSlotEvent` is the exception: `BeginWait`, `Watch`, `Wake`,
`CheckFinalize` and the two `Relock` actions are its parts between which anything
may happen. Where the thread reads a context that `C_Finalize` has released, its
place is "undefined" and nothing more is said of it. `SlotFindChanged` detects,
reports the first slot with an event and forgets that event; the thread goes on
waiting when it reports none.

*CardAccess.* One action is one command that reaches the card, or one taking or
giving of a lock. The card is a record that the commands change as the
driver relies on (external): selecting a key loses the environment, and a chain is
signed by its last command. `lock` has the count of every process and the one
owner of the transaction. `Reset` makes handles stale and clears the card's
status; `TransmitFails` may strike any command. A user's PIN entry is `VerifyPin`;
a verification from the cache is `Revalidate`. The counter of uses of a cached
PIN is left out because it is set to 0 by each success and so decides nothing.

*SymmetricStreams.* A byte is its stream and its position; a block under cipher
block chaining carries the blocks before it, so a text is right only if every
block was chained in order. `fate` is a history variable: "crossed" once something
else used the driver or the card in the middle, "short" after a part that
completed no block while something was kept. It never guards a step; a crossed
stream's own record is no longer kept, because the properties say nothing of it.
A buffer is as large as the size the driver reports; the driver's own test of
room compares a number with itself, and is left out.

## 3. Runs

| Run | Result | Bounds | Distinct states |
|---|---|---|---|
| `MasterVault` | pass | 2 users and the vault, 2 devices, 1 nonce per wallet, supply 10 = 6 + 4, reward 3, amounts of 0.5 and 1.5 tokens, 6 list entries, 1.5 tokens unlocked | about 740,000 |
| `TokenLedger` | pass | 2 users, one of them sending with the administrator's email, 1 seeded administrator, bonus 1, stake 2, history cap 2, 1 crash or failed write | about 590,000 |
| `TokenLedgerDetached` | violation | 1 user, 1 administrator | |
| `SwapSession` | pass | durations 12 and 6, clock to 30 | about 9,400 |
| `AtomicSwaps` | pass | 2 swaps, 2 secrets, durations 0, 2, 3, clock to 6 | about 10,000 |
| `MicroLedger` | pass | 2 addresses, supply 1, 2 hashes, amounts 1 and -1, balances within 2, 2 heights, 2 transactions a block, snapshots at heights 0 and 1 | about 111,000 |
| `MicroLedgerRollback` | violation | same, amount 1, snapshots at every height | |
| `Pkcs11` | pass | 1 reader with 2 slots, a card with one PIN and a card no framework binds, 4 card events, 2 sessions, 2 initialisations (the second in atomic mode), 1 detection retry (3 in the code) | about 308,000 |
| `CardAccess` | pass | 2 processes, one with `lock_login`; 2 keys, one under a PIN nobody verifies; 2 PINs, 2 tries, 2 commands a signature, 1 PIN change, 2 resets, 1 lock retry (5 in the code), 1 login lock | about 706,000 |
| `CardAccessLogout` | violation | same | |
| `SymmetricStreams` | pass | an encryption and a decryption, blocks of 3 bytes (16), 6 bytes a stream, parts of 1, 2, 4 and 6 bytes, all pad bytes | about 586,000 |
| `SymmetricStreamsShort` | violation | same | |

Why the bounds are enough. With a reward of 3 and a cap of 4 the first grant
fits and the second goes over the cap, so the cap, the override and the pause
all act; the reserve of 6 is crossed by one grant, by one unlock and by one
transfer; two devices and three wallets give every pattern of duplicate
registration; one nonce per wallet lets each wallet settle one transfer and
makes any second one a replay. In `TokenLedger` a bonus of 1 covers one amount
and not the other, a stake of 2 is reached from either side, a cap of 2 cuts
the history at once, and a single failure can fall at each of the points of a
save. In the sessions the clock runs past both expiries with room for a late
funding (`LateFunding`, which the passing run sets to FALSE, lets the participant
fund without looking at the clock). In `MicroLedger` two transactions of 1 in a block of a supply of 1 are
a double spend, a negative one overdraws, a snapshot of height 1 can outlive the
block it was taken of, and a rollback can go below, to and above the tip. In
`Pkcs11` four events are two cards, or one exchanged between two looks; two
sessions make the first close keep the login and the second end it; the first
initialisation shows the non-atomic mode and its kept lock, the second the replay.
One retry is used up by one change, which shows what the spent counter does. In
`CardAccess` two commands can be torn apart by another process, two resets
outlast one retry, and two tries tell a single wrong verification from one that
repeats. Blocks of 3 bytes have every position of a cut (1, 2, 4 bytes: below,
short of and past a boundary; 6: two whole blocks), and the rest 0, 1, 2 kept.

What each passing run shows, beyond its type:

* `MasterVault`: the two copies of the vault's balance, the two deduplication maps
  and the counters agree through SQL failures, unlocks, pauses and restarts.
* `TokenLedger`: what a crash between two file writes can and cannot cost; the
  stake moves only with the token in its port; a removal is noticed.
* `SwapSession`, `AtomicSwaps`: nobody gives without getting; each implements
  `HashTimeLock`.
* `MicroLedger`: a block is all or nothing, and the chain can be replayed.
* `Pkcs11`: no session and no login outlives its card on any path by which its
  loss is noticed; atomic mode replays the PIN of the user now logged in only; the
  waiting thread returns.
* `CardAccess`: a signature is never made with another process's key or data; a
  stale cached PIN costs one try per change; no error path leaves the card locked
  for ever.
* `SymmetricStreams`: parts that complete a block give what one call gives.

The four violation runs each record a disagreement between the code and a
sentence of the repository; `PROJECT.json` "findings" quotes both.

### Disagreements that have no run

Met while reading and modelling, each visible in the cited lines:

* `transfer` reads no pause flag, although `admin_control.py:247` says the circuit
  breaker halts all public transfers (`master_vault_ledger.py:274`).
* The HTLC engine compares no time locks, although its header says asymmetric
  timeouts prevent race conditions: with `LateFunding` set, `BobNeverLoses` fails.
* `pin_cache_counter` (opensc.conf(5): uses of a cached PIN before it is asked for
  again) is never reached, since each successful verification stores the PIN anew
  and sets the counter to 0 (`pkcs15-pin.c:786`, `:824`).
* `C_SessionCancel` does nothing for CKF_ENCRYPT, marked unused, although the
  module has encryption operations (`pkcs11-session.c:210`).
* `C_Sign` in atomic mode adds the data to the operation before it replays the
  login; if the replay fails the operation stays, and a repeated `C_Sign` signs
  the data twice over (`pkcs11-object.c:736`).
* A size query of `C_Decrypt` with AES asks the driver for the end of a stream
  that holds nothing and gets an error (`mechanism.c:1524`, `card-myeid.c:1990`).
* `C_Login` by the SO and `C_SetPIN` on a slot whose card no framework binds return
  with the global lock held (`pkcs11-session.c:388`, `:528`). The `Pkcs11` run
  contains that stop, which is why it checks no deadlock.
* A card exchanged between two looks of a listener is no event to it, and
  `C_InitToken`'s second detection leaves a card without a slot until the next
  event; `NoticedCardIsPresented` excludes both by name.

### Fairness

* `TokenLedger`: weak fairness of the two writes (a blocking write returns)
  and strong fairness of the poll. Requests enable and disable the poll again
  and again; Node's event loop runs due timers between requests, which is what
  strong fairness says. No fairness of probes: a probe may fail for ever, and
  the detached answer it then gives is what the property asks for.
* `SwapSession`: time passes, the participant claims while the secret is public
  and both parties take back what is owed. These are clients' interests, not
  code; nothing is assumed of the initiator's claim.
* `AtomicSwaps`: time passes and the initiator keeps asking for its refund.

* `Pkcs11`: the waiting thread is scheduled and gets a lock that is free. Nothing
  is assumed of cards or of other calls.
* `CardAccess`: an operation that has begun goes on, as a C function does; nothing
  is assumed of requests, of resets or of the card's answers.

Deadlock is checked in the vault, ledger, micro-ledger, card access and stream
runs; the swap runs end when the clock reaches its bound and every contract is
settled, and the PKCS#11 run when the global lock was left held.

## 4. Proofs

Every safety invariant, action property and refinement that a passing run checks
is also a theorem, for every value of the constants that the module's named
assumption admits. The bounds of the runs are constants too, so a theorem covers
every bound. The assumptions are types of the constants and these facts:

| Assumption | Why the code justifies it |
|---|---|
| `VaultAssumption`: the supply is the reserve and the public cap; the vault is no user; finitely many users and devices | `TOTAL_SUPPLY` and its two shares are constants of the module; users and devices are keys of a dictionary |
| `MicroLedgerAssumption`: finitely many addresses, the genesis address among them | rows of a table, the first of which genesis writes |
| `TokenLedgerAssumption`: the seeded administrators' keys are not public wallets | two fixed keys, written by the start |
| `FileAssumption`: a file that cannot be read is not a ledger and not a history | `JSON.parse` throws or returns |
| `SessionAssumption`: two parties, two contracts, the first leg twice as long | `htlc_atomic_swap.py:14`: T_initiator = 2 × T_participant |
| `SymmetricStreamsAssumption`: blocks have at least a byte | the block size is 16 |
| all: `None`, `NoAccount`, `NoCard`, `NoPin`, `NoBlock` and the like are none of the values they stand beside | null, `None`, an unset flag |

### `MasterVaultProofs`

* `TypeCorrect` by induction over the actions. Two lemmas keep the SQL row's
  type apart, because the flag's set would otherwise send the solver astray.
* `BalanceSteps` says once what any step does to wallets and counter: a grant, a
  transfer, an unlock, a reset or nothing. `CounterIsCovered`, `PublicIsSolvent`
  and `ReserveIsHeld` are then three short case splits over it. `WalletCoversCounter`
  and `PublicNeverOverdrawn` are inductive with the type invariant alone;
  `ReserveHeldUnlessOverride` needs no more than the type at the start of a step.
* `ClaimSteps` does the same for the registration maps; `ClaimsStayPaired` and
  `GrantsStayCounted` follow, the latter with the library's cardinality facts.
* `SupplyIsCapped`: the cap on the sum of all wallets is inductive only with
  `WalletCoversCounter`, because a registration writes the counter over the
  vault's wallet and would create tokens if the wallet held less.

Sums over wallets are taken with the community modules' folds. `FiniteInduction`
proves what the proofs need of them (a sum changed at one place, at two, and
compared place by place) from the library's induction over subsets, used on a set
of counterexamples instead of on a predicate.

### `TokenLedgerProofs`

The inductive invariant is the type together with

* `QueueIsMemory`: writes alternate ledger and history, each history belongs to
  the ledger before it, and the last save of the queue is what memory holds.
  `AnswersAreSaved` is its case of an empty queue;
* `BonusSafe`: whatever history is in the file, now or when the next one is
  written, is covered by the ledger in the file and by every ledger that may
  follow. This is what makes ledger-first the right order: `BonusIsGivenOnce`
  says nothing of the queue, and a crash may stop it anywhere;
* `HistoryInv`: the sums over the history explain the balances in memory, in each
  save of the queue and in the two files, unless these belong to two saves.

What a handler leaves is one lemma per handler (`getBalance` opens accounts and
may itself save, so a settlement queues up to three saves). The recorded sums are
a recursive function over the history; the lemmas say what an entry put in front
and an entry cut off at the end change. `StakeNeedsToken` is an action property
and needs only the type: it is the handler's own reading of the token, not the
cached one, that guards an administrator's entry.

### `SwapProofs`

* `EngineImplements`: initial states map to initial states, and a lock, a claim,
  a refund and a tick map to `Hold`, `Pay`, `Return` and `Tick`. The invariant
  `Shown` (a preimage is recorded exactly in CLAIMED contracts, and is the one
  that opens them) is needed for what the engine has revealed.
* `SessionIsEngine`: every step of the session is a step of the engine.
* `BobIsSafe` assumes `~LateFunding`: the inductive invariant relates the expiries
  of the two legs once both exist, and the secret to the claim of the counter leg.
  `AliceIsSafe` has no such hypothesis, and a smaller invariant: the secret is out
  only if the counter leg was paid.
* `OlderImplements`: the same refinement for `AtomicSwaps`, taken into this module
  as the instance `Older`, for any number of swaps. `OlderSteps` reduces an engine's
  step to one swap's record, and a redemption that fails and marks the swap EXPIRED
  maps to a stutter. Its hypothesis is the conjunct of `SwapsAssumption` that an
  instance does not bring along.

### `MicroLedgerProofs`

* `TipIsHighest`: `Tip` is the greatest height that holds a block. A nonempty set
  of bounded heights has a greatest member by the pigeonhole principle, since
  induction on the height cannot be used.
* `TypeCorrect` by induction over the actions.
* `BlocksStayWhole`: `BlocksAreWhole` is inductive with the type; what recording a
  block and rolling back do to it are lemmas of their own.
* `NoReplay`: `NoReplayInChain` says nothing of the block at work, so it is
  strengthened with `WorkIsFresh`: the hashes at work are new and used once.
* `SupplyStays`: strengthened to every copy of the accounts (the table, the block
  at work, every snapshot and every state root), from any of which a rollback may
  take the next accounts.
* `ChainStaysReplayable`: strengthened with the shape of the chain (no gaps below
  the tip) and with the block at work (its accounts are those of the table changed
  by the transactions taken so far); and as long as no rollback was blind, the
  accounts are the tip's root.
* `NothingIsOverdrawn` is an action property about the block being recorded; the
  invariant is that the block at work has overdrawn nobody unless it carries a
  negative amount.

### `Pkcs11Proofs`

`IInv` is the type together with a soundness of the library's state alone, so that
it can be carried through the operators that a call chains: the slots of a reader
that have a card come first and share it; a card a slot has is one the driver has
seen; every listed session is counted by its slot; a login kept for replay that
outlives its session is of a card that is no longer inside, so replaying it fails.
There is one lemma per operator of `Pkcs11Slots` (closing, removal, the listener's
look, creating tokens and slots, detection, the pass over all readers, finding a
changed slot), each saying that the operator keeps the state sound and that the
result *follows* the argument: a slot whose card changes loses its sessions and
login. `Follows` is transitive, so a call's chain of operators gives the action
property `CardChangeEndsSessions` (`CardChangeEnds`) as well as the invariants
(`SessionsCounted`, `LoginHasCard`, `ReplaysOwnLogin`). The pass over the readers
is a recursive function; that each of its values is sound is an induction over the
readers, again by a set of counterexamples.

### `CardAccessProofs`

* The inductive invariant `IInv` is the type together with `LocksAreNested` (the
  lock count is the locks an operation has taken at its place plus those its logins
  keep, and the count is positive exactly for the owner of the transaction),
  `OperationsOK` (what an operation is at each place), `CardIsOurs` (between
  selecting a key and its signature the card's file, environment, chain and
  response are this process's) and `SignsWithOwnKey`. None of them is inductive
  alone: that nobody else changes the card in a transaction needs the count, and
  the count needs the places.
* `TypeCorrect`, `LocksNested` and `SignsOwn` are read off `IInv`.
* `CachedPinIsCheap` strengthens `CachedPinCostsOneTry` with `StaleIsUnpaid`: a
  process whose cache holds a PIN that is not the card's has at least one change of
  the PIN it has not yet paid for.

### `SymmetricStreamsProofs`

* Lemmas about the operators the model is built from. `CutJoin`: what follows whole
  blocks is cut as if nothing preceded it. `ChainedJoin` and `TextsJoin`: chaining
  and texts go on from call to call, in each mode and direction. `RestGoesOn`: the
  driver's arithmetic for what it keeps yields the bytes after the last whole block.
  They rest on division with remainder, which the solver does not know for a
  block size that is a constant, so the uniqueness of quotient and remainder is
  proved first and everything else cites it.
* `TypeCorrect`: the buffer stays below one block; `ShortIsRest` and the cut of the
  rest are why. `SizesHold` compares, call by call, what is reported with what is
  delivered; it needs only the type.
* `StreamsStayWhole`: the property says nothing of the driver and the card, so it is
  strengthened with `WholeInv`. Of an open stream that nothing befell, `InHand` says
  that the driver holds exactly the bytes after its last whole block and, of a
  decryption, the last text; that the card has this stream's environment and the
  chaining of all its blocks so far; and that what was handed out is the whole
  answer so far, or all but its last text. `UpdateGoesOn`, `EncryptionEnds` and
  `DecryptionEnds` say what a call does to it, `WithPinIs` that a call repeated after
  the PIN is the call, `OthersStay` that nothing another stream does is missed by
  `fate`.

### Only model-checked

The liveness properties (`RemovalIsNoticed`, `LegsAreSettled`, `EverySwapIsSettled`,
`NoticedCardIsPresented`, `CancelledWaitReturns`, `TransactionsEnd`): they need
fairness and ENABLED, which the prover does not handle. The four properties the
violation runs refute are of course no theorems.

## 5. Not modelled

Cryptography (hashes are injective names, signatures are not looked at, as the
modelled handlers do not verify them), the wording of answers, receipts and
logs, the rate limiter, the WebSocket feed, the Firestore mirror, the reads.
`freeze_wallet` and `adjust_reward_rate` change fields that no other operation
reads. The simulators and the user interfaces hold no protocol state worth
exploring.

Of OpenSC, by far the largest part of the tree: about forty card drivers, which
encode one card's commands each; the decoding of PKCS#15 files and its emulators;
the minidriver, a second client of the same library whose calling rules are not in
the repository; personalisation; secure messaging; the configuration parser and
the tools. In the modelled parts: readers that are plugged and unplugged, pin pads,
PUKs and session PINs, forked processes, user consent, the token information and
attributes, and digest, verification, wrapping and derivation. The interleavings
of two cards and two processes with `lock_login`, each waiting for the card the
other keeps, are not explored: `CardAccess` has one card. `Pkcs11` runs with one
reader; its modules take any number.

The share of the implementation that the map covers stays small for that
reason: the C sources are some 188,000 lines, most of them those drivers and
decoders, in which there is encoding and no interaction.

## 6. Plan

Done: the token system's core, the micro-ledger, OpenSC's slots and sessions, card
access and symmetric streams, and proofs of every safety property checked there.
In order of importance:

1. Readers that come and go in `PcscReaders`, with two readers in `Pkcs11`.
2. `ValidatorStaking`: stake is conserved between stakes, queue, claims and the
   slashed pool; a jailed validator stays out of the active set (expected to be
   violated at `validator_staking.py:243`).
3. `Mempool` composed with `NonceValidator`, `StateChannels` against an abstract
   channel that pays out at most once, `TimelockGovernance`; escrow, IBC relay and
   P2P gateway as time allows.
4. An abstract ledger that `MicroLedger` and `MasterVault` both implement, and the
   refinements as theorems.
