----------------------------- MODULE MicroLedger -----------------------------
(***************************************************************************)
(* The SQLite ledger of server/crypto/micro_ledger_engine.py: accounts,    *)
(* blocks, the transactions of the blocks and checkpoints of the accounts. *)
(*                                                                         *)
(* A block is applied inside one SQL transaction, transaction after        *)
(* transaction, on a working copy; the process may die at any point of it, *)
(* and then the database is as it was.  The database is a file here        *)
(* (db_path), used by one process at a time.                               *)
(*                                                                         *)
(* A state root stands for the accounts it is the hash of.  Account nonces *)
(* are counted by the code and never compared, block and parent hashes     *)
(* never compared either: all three are left out.                          *)
(***************************************************************************)
EXTENDS Integers, Sequences, FiniteSets, Functions

CONSTANTS
  Addresses,
  Genesis,      \* MASTER_VAULT_GENESIS_ADDRESS
  Supply,       \* TOTAL_SUPPLY_CAP_TOKEN9898
  TxHashes,
  Amounts,      \* amounts of a transaction: the code takes any float
  SnapshotHeights,  \* the heights at which the caller takes snapshots
  None,         \* no account, no block, no checkpoint, no block at work
  MaxHeight,    \* bound on the height of the chain
  MaxTxs,       \* bound on the transactions of a block
  MaxBalance    \* bound on the size of a balance

Heights == 1..MaxHeight

Accounts == [Addresses -> Int \cup {None}]

Tx == [tx_hash : TxHashes, sender : Addresses, recipient : Addresses,
       amount : Amounts]

Block == [state_root : Accounts, txs : Seq(Tx)]
Work  == [height : Heights, accounts : Accounts, txs : Seq(Tx)]

ASSUME MicroLedgerAssumption ==
  /\ IsFiniteSet(Addresses) /\ Genesis \in Addresses
  /\ Supply \in Nat /\ Amounts \subseteq Int
  /\ SnapshotHeights \subseteq 0..MaxHeight
  /\ None \notin Int \cup Accounts \cup Block \cup Work
  /\ MaxHeight \in Nat /\ MaxTxs \in Nat /\ MaxBalance \in Nat

VARIABLES
  accounts,       \* address -> balance, or None
  blocks,         \* height -> the block, or None
  transactions,   \* the rows of the transactions table
  checkpoints,    \* height -> the accounts saved for it, or None
  work,           \* the block at work, or None
  blind           \* history: a rollback has left accounts that are not those
                  \* of the block it went back to

chainVars == <<blocks, transactions, checkpoints, blind>>
vars == <<accounts, blocks, transactions, checkpoints, work, blind>>

Tip == IF \E h \in Heights : blocks[h] # None
       THEN CHOOSE h \in Heights : /\ blocks[h] # None
                                   /\ \A k \in Heights : blocks[k] # None => k <= h
       ELSE 0

GenesisAccounts == [a \in Addresses |-> IF a = Genesis THEN Supply ELSE None]

Init ==
  /\ accounts = GenesisAccounts
  /\ blocks = [h \in Heights |-> None]
  /\ transactions = {}
  /\ checkpoints = [h \in 0..MaxHeight |-> None]
  /\ work = None
  /\ blind = FALSE

-----------------------------------------------------------------------------
(* apply_block_atomic. *)

\* BEGIN TRANSACTION.  The caller names the height: the next one, or, in a
\* fork, one that is taken, which shows only when the block is recorded.
BeginBlock(h) ==
  /\ work = None
  /\ h <= Tip + 1
  /\ work' = [height |-> h, accounts |-> accounts, txs |-> <<>>]
  /\ UNCHANGED <<accounts, chainVars>>

\* Mutant: the funds are looked up outside the SQL transaction.
FundedBefore(tx) == accounts[tx.sender] # None /\ accounts[tx.sender] >= tx.amount

Funded(tx) ==
  work.accounts[tx.sender] # None /\ work.accounts[tx.sender] >= tx.amount

\* Mutant: the primary key looks at the block at work alone.
FreshInBlock(tx) == \A i \in DOMAIN work.txs : work.txs[i].tx_hash # tx.tx_hash

\* tx_hash is the primary key of the table.
Fresh(tx) ==
  /\ \A row \in transactions : row.tx.tx_hash # tx.tx_hash
  /\ \A i \in DOMAIN work.txs : work.txs[i].tx_hash # tx.tx_hash

Balance(accts, a) == IF accts[a] = None THEN 0 ELSE accts[a]

\* Mutant: the recipient's row is read before the sender's is written.
PaidFromStaleRow(accts, tx) ==
  [accts EXCEPT ![tx.sender] = @ - tx.amount,
                ![tx.recipient] = Balance(accts, tx.recipient) + tx.amount]

\* The recipient's row is read after the sender's is written, so a transaction
\* to oneself changes no balance.
Paid(accts, tx) ==
  LET debited == [accts EXCEPT ![tx.sender] = @ - tx.amount] IN
  [debited EXCEPT ![tx.recipient] = Balance(debited, tx.recipient) + tx.amount]

\* Bound, not code.
Small(accts) == \A a \in Addresses : Balance(accts, a) \in -MaxBalance..MaxBalance

ApplyTx(tx) ==
  /\ work # None
  /\ Len(work.txs) < MaxTxs
  /\ Funded(tx) /\ Fresh(tx)
  /\ Small(Paid(work.accounts, tx))
  /\ work' = [work EXCEPT !.accounts = Paid(@, tx), !.txs = Append(@, tx)]
  /\ UNCHANGED <<accounts, chainVars>>

\* Mutant: a refusal commits what was applied before it.
KeepApplied == accounts' = work.accounts

DropApplied == UNCHANGED accounts

\* INSUFFICIENT_FUNDS, or a hash that is in the table already.
RefuseTx(tx) ==
  /\ work # None
  /\ Len(work.txs) < MaxTxs
  /\ ~(Funded(tx) /\ Fresh(tx))
  /\ work' = None
  /\ DropApplied
  /\ UNCHANGED chainVars

Rows(txs, h) == {[tx |-> txs[i], block_height |-> h] : i \in DOMAIN txs}

\* COMMIT: the accounts, the block and its rows all at once.
Record(h, accts, txs) ==
  /\ accounts' = accts
  /\ blocks' = [blocks EXCEPT ![h] = [state_root |-> accts, txs |-> txs]]
  /\ transactions' = transactions \cup Rows(txs, h)
  /\ work' = None
  /\ UNCHANGED <<checkpoints, blind>>

CommitBlock ==
  /\ work # None
  /\ blocks[work.height] = None
  /\ Record(work.height, work.accounts, work.txs)

\* The height is taken: the insert fails and everything is rolled back.
ForkConflict ==
  /\ work # None
  /\ blocks[work.height] # None
  /\ work' = None
  /\ DropApplied
  /\ UNCHANGED chainVars

\* execute_state_transition: a block of one transaction at the next height, its
\* hash drawn afresh.  Without funds it stops before the block is begun; an end
\* of the process inside it leaves no trace, so the call is one step.
ExecuteStateTransition(tx) ==
  /\ work = None
  /\ Tip < MaxHeight
  /\ accounts[tx.sender] # None /\ accounts[tx.sender] >= tx.amount
  /\ \A row \in transactions : row.tx.tx_hash # tx.tx_hash
  /\ Small(Paid(accounts, tx))
  /\ Record(Tip + 1, Paid(accounts, tx), <<tx>>)

\* The process dies and comes back: the accounts table is not empty, so the
\* constructor seeds nothing.
Crash == work # None /\ work' = None /\ UNCHANGED <<accounts, chainVars>>

-----------------------------------------------------------------------------
(* rollback_to_height and create_snapshot. *)

RootAt(t) == IF t = 0 THEN GenesisAccounts ELSE blocks[t].state_root

\* Mutant: the transactions of the blocks that go are kept.
KeptAll(t) == transactions

Kept(t) == {row \in transactions : row.block_height <= t}

\* Mutant: what the checkpoint table returns is not looked at.
RestoredUnchecked(t) == checkpoints[t]

Restored(t) == IF checkpoints[t] = None THEN accounts ELSE checkpoints[t]

\* The accounts are put back only from a checkpoint of exactly this height, one
\* above the tip included, and checkpoints of blocks that went stay there.
RollbackToHeight(t) ==
  /\ work = None
  /\ blocks' = [h \in Heights |-> IF h > t THEN None ELSE blocks[h]]
  /\ transactions' = Kept(t)
  /\ accounts' = Restored(t)
  /\ blind' = (blind \/ Restored(t) # RootAt(IF t < Tip THEN t ELSE Tip))
  /\ UNCHANGED <<checkpoints, work>>

\* The caller takes a snapshot of the height the chain has.
CreateSnapshot ==
  /\ work = None
  /\ Tip \in SnapshotHeights
  /\ checkpoints' = [checkpoints EXCEPT ![Tip] = accounts]
  /\ UNCHANGED <<accounts, blocks, transactions, work, blind>>

Next ==
  \/ \E h \in Heights : BeginBlock(h)
  \/ \E tx \in Tx : ApplyTx(tx)
  \/ \E tx \in Tx : RefuseTx(tx)
  \/ CommitBlock
  \/ ForkConflict
  \/ \E tx \in Tx : ExecuteStateTransition(tx)
  \/ Crash
  \/ \E t \in 0..MaxHeight : RollbackToHeight(t)
  \/ CreateSnapshot

Spec == Init /\ [][Next]_vars

-----------------------------------------------------------------------------
(* Properties. *)

\* The type of every variable.
TypeOK ==
  /\ accounts \in Accounts
  /\ blocks \in [Heights -> Block \cup {None}]
  /\ transactions \subseteq [tx : Tx, block_height : Heights]
  /\ checkpoints \in [0..MaxHeight -> Accounts \cup {None}]
  /\ work \in Work \cup {None}
  /\ blind \in BOOLEAN

\* "Applies a batch of transactions atomically": the table holds the rows of
\* exactly the transactions of the blocks in the chain, through refusals, fork
\* conflicts, crashes and rollbacks.
BlocksAreWhole ==
  transactions = UNION {Rows(blocks[h].txs, h) : h \in {k \in Heights : blocks[k] # None}}

\* A transaction hash is applied in one place of the chain only.
NoReplayInChain ==
  \A r1, r2 \in transactions : r1.tx.tx_hash = r2.tx.tx_hash => r1 = r2

Total(accts) == SumFunction([a \in Addresses |-> Balance(accts, a)])

\* verify_supply_invariant: the accounts hold the genesis supply, whatever
\* blocks were applied, refused, rolled back and restored from checkpoints.
SupplyIsConserved == Total(accounts) = Supply

\* What a transaction brings an account, and what a list of them does.
Brings(tx, a) ==
  (IF tx.recipient = a THEN tx.amount ELSE 0) - (IF tx.sender = a THEN tx.amount ELSE 0)

NetOf(txs, a) == SumFunction([i \in DOMAIN txs |-> Brings(txs[i], a)])

\* The chain can be replayed: without a blind rollback, each block's state root
\* is the one before it changed by the block's own transactions and no others.
ChainReplays ==
  ~blind =>
    \A h \in 1..Tip : \A a \in Addresses :
       Balance(RootAt(h), a) = Balance(RootAt(h - 1), a) + NetOf(blocks[h].txs, a)

\* A block never overdraws an account unless it carries a negative amount.
NoDoubleSpendInBlock ==
  [][\A a \in Addresses :
       /\ Tip' > Tip
       /\ Balance(accounts, a) >= 0 /\ Balance(accounts', a) < 0
       => \E i \in DOMAIN blocks'[Tip'].txs : blocks'[Tip'].txs[i].amount < 0]_vars

\* "Rolls back ledger state upon micro-fork detection. Restores state from
\* nearest checkpoint" (line 182): after a rollback the accounts are those of the
\* block it went back to, if some checkpoint is there to start from.  The code does not
\* keep to it.
RollbackRestores ==
  [][\A t \in 0..MaxHeight :
       /\ t < Tip /\ Tip' = t
       /\ \E k \in 0..t : checkpoints[k] # None
       => accounts' = IF t = 0 THEN GenesisAccounts ELSE blocks'[t].state_root]_vars

=============================================================================
