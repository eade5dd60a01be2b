-------------------------- MODULE MicroLedgerProofs --------------------------
(***************************************************************************)
(* Proofs about MicroLedger for every set of addresses, hashes and         *)
(* amounts, every supply and every bound.                                  *)
(***************************************************************************)
EXTENDS MicroLedger, FiniteInduction, FiniteSetTheorems, TLAPS

\* A nonempty set of heights has a highest: otherwise the heights below one of
\* its members would go up by one into themselves and never hit 1.
LEMMA HighestHeight ==
  ASSUME NEW S \in SUBSET Heights, S # {}
  PROVE  \E h \in S : \A k \in S : k <= h
<1> SUFFICES ASSUME \A h \in S : \E k \in S : ~(k <= h) PROVE FALSE
  OBVIOUS
<1> DEFINE U == {h \in Heights : \E k \in S : h <= k}
           f == [h \in U |-> h + 1]
<1>1. MaxHeight \in Nat
  BY MicroLedgerAssumption
<1>2. 1 \in U
  <2>1. PICK h \in S : TRUE
    OBVIOUS
  <2>2. h \in 1..MaxHeight
    BY DEF Heights
  <2>3. 1 \in Heights /\ 1 <= h
    BY <1>1, <2>2 DEF Heights
  <2>4. QED
    BY <2>3
<1>3. f \in [U -> U \ {1}]
  <2>1. ASSUME NEW h \in U PROVE h + 1 \in U \ {1}
    <3>1. PICK k \in S : h <= k
      OBVIOUS
    <3>2. PICK l \in S : ~(l <= k)
      OBVIOUS
    <3>3. h \in 1..MaxHeight /\ k \in 1..MaxHeight /\ l \in 1..MaxHeight
      BY DEF Heights
    <3>4. h + 1 \in Heights /\ h + 1 <= l /\ h + 1 # 1
      BY <1>1, <3>1, <3>2, <3>3 DEF Heights
    <3>5. QED
      BY <3>4
  <2>2. QED
    BY <2>1
<1>4. IsFiniteSet(U) /\ Cardinality(U) \in Nat
  <2>1. IsFiniteSet(Heights)
    BY <1>1, FS_Interval DEF Heights
  <2>2. QED
    BY <2>1, FS_Subset, FS_CardinalityType
<1> HIDE DEF U
<1>5. IsFiniteSet(U \ {1}) /\ Cardinality(U \ {1}) < Cardinality(U)
  <2>1. IsFiniteSet(U \ {1})
    BY <1>4, FS_RemoveElement
  <2>2. Cardinality(U \ {1}) = Cardinality(U) - 1
    BY <1>2, <1>4, FS_RemoveElement, Zenon
  <2>3. QED
    BY <1>4, <2>1, <2>2
<1>6. \A x, y \in U : f[x] = f[y] => x = y
  <2>1. \A x \in U : x \in Int
    BY DEF U, Heights
  <2>2. QED
    BY <2>1
<1> HIDE DEF f
<1>7. QED
  BY <1>3, <1>4, <1>5, <1>6, FS_PigeonHole

\* Tip is the height of the chain, and no block lies above it.
LEMMA TipIsHighest ==
  /\ Tip \in 0..MaxHeight
  /\ \A h \in Heights : blocks[h] # None => h <= Tip
<1>1. CASE \E h \in Heights : blocks[h] # None
  <2> DEFINE S == {h \in Heights : blocks[h] # None}
  <2>1. \E h \in S : \A k \in S : k <= h
    BY <1>1, HighestHeight
  <2>2. Tip \in S /\ \A k \in S : k <= Tip
    BY <1>1, <2>1 DEF Tip
  <2>3. QED
    BY <2>2, MicroLedgerAssumption DEF Heights
<1>2. CASE ~ \E h \in Heights : blocks[h] # None
  BY <1>2, MicroLedgerAssumption DEF Tip
<1>3. QED
  BY <1>1, <1>2

-----------------------------------------------------------------------------
(* Types. *)

\* A payment by a funded sender leaves balances that are numbers.
LEMMA PaidType ==
  ASSUME NEW accts \in Accounts, NEW tx \in Tx, accts[tx.sender] # None
  PROVE  Paid(accts, tx) \in Accounts
<1> DEFINE debited == [accts EXCEPT ![tx.sender] = @ - tx.amount]
<1>1. tx.sender \in Addresses /\ tx.recipient \in Addresses /\ tx.amount \in Int
  BY MicroLedgerAssumption DEF Tx
<1>2. debited \in Accounts
  BY <1>1 DEF Accounts
<1>3. Balance(debited, tx.recipient) \in Int
  BY <1>1, <1>2 DEF Accounts, Balance
<1> HIDE DEF debited
<1>4. [debited EXCEPT ![tx.recipient] = Balance(debited, tx.recipient) + tx.amount]
        \in Accounts
  BY <1>1, <1>2, <1>3 DEF Accounts
<1>5. QED
  BY <1>4 DEF Paid, debited

\* The rows of a block are rows of the table.
LEMMA RowsType ==
  ASSUME NEW txs \in Seq(Tx), NEW h \in Heights
  PROVE  Rows(txs, h) \subseteq [tx : Tx, block_height : Heights]
BY DEF Rows

\* What recording a block does to the types.
LEMMA RecordType ==
  ASSUME TypeOK, NEW h \in Heights, NEW accts \in Accounts, NEW txs \in Seq(Tx),
         Record(h, accts, txs)
  PROVE  TypeOK'
<1>1. [state_root |-> accts, txs |-> txs] \in Block
  BY DEF Block
<1>2. QED
  BY <1>1, RowsType DEF TypeOK, Record

LEMMA TypeInit == Init => TypeOK
<1> SUFFICES ASSUME Init PROVE TypeOK
  OBVIOUS
<1>1. GenesisAccounts \in Accounts
  BY MicroLedgerAssumption DEF GenesisAccounts, Accounts
<1>2. QED
  BY <1>1 DEF Init, TypeOK

LEMMA TypeStep == TypeOK /\ [Next]_vars => TypeOK'
<1> SUFFICES ASSUME TypeOK, [Next]_vars PROVE TypeOK'
  OBVIOUS
<1>1. ASSUME NEW h \in Heights, BeginBlock(h) PROVE TypeOK'
  <2>1. [height |-> h, accounts |-> accounts, txs |-> <<>>] \in Work
    BY DEF TypeOK, Work
  <2>2. QED
    BY <1>1, <2>1 DEF BeginBlock, TypeOK, chainVars
<1>2. ASSUME NEW tx \in Tx, ApplyTx(tx) PROVE TypeOK'
  <2>1. work \in Work
    BY <1>2 DEF ApplyTx, TypeOK
  <2>2. Paid(work.accounts, tx) \in Accounts
    BY <1>2, <2>1, PaidType DEF ApplyTx, Funded, Work
  <2>3. Append(work.txs, tx) \in Seq(Tx)
    BY <2>1 DEF Work
  <2>4. work' = [work EXCEPT !.accounts = Paid(work.accounts, tx),
                             !.txs = Append(work.txs, tx)]
    BY <1>2 DEF ApplyTx
  <2>5. work' \in Work
    BY <2>1, <2>2, <2>3, <2>4 DEF Work
  <2>6. QED
    BY <1>2, <2>5 DEF ApplyTx, TypeOK, chainVars
<1>3. ASSUME NEW tx \in Tx, RefuseTx(tx) PROVE TypeOK'
  BY <1>3 DEF RefuseTx, DropApplied, TypeOK, chainVars
<1>4. CASE CommitBlock
  BY <1>4, RecordType DEF CommitBlock, TypeOK, Work
<1>5. CASE ForkConflict
  BY <1>5 DEF ForkConflict, DropApplied, TypeOK, chainVars
<1>6. ASSUME NEW tx \in Tx, ExecuteStateTransition(tx) PROVE TypeOK'
  <2>1. Tip + 1 \in Heights
    BY <1>6, TipIsHighest, MicroLedgerAssumption DEF ExecuteStateTransition, Heights
  <2>2. Paid(accounts, tx) \in Accounts
    BY <1>6, PaidType DEF ExecuteStateTransition, TypeOK
  <2>3. <<tx>> \in Seq(Tx)
    OBVIOUS
  <2>4. QED
    BY <1>6, <2>1, <2>2, <2>3, RecordType DEF ExecuteStateTransition
<1>7. CASE Crash
  BY <1>7 DEF Crash, TypeOK, chainVars
<1>8. ASSUME NEW t \in 0..MaxHeight, RollbackToHeight(t) PROVE TypeOK'
  <2>1. accounts' \in Accounts
    BY <1>8 DEF RollbackToHeight, Restored, TypeOK
  <2>2. blocks' \in [Heights -> Block \cup {None}]
    BY <1>8 DEF RollbackToHeight, TypeOK
  <2>3. transactions' \subseteq [tx : Tx, block_height : Heights]
    BY <1>8 DEF RollbackToHeight, Kept, TypeOK
  <2>4. blind' \in BOOLEAN
    BY <1>8 DEF RollbackToHeight
  <2>5. QED
    BY <1>8, <2>1, <2>2, <2>3, <2>4 DEF RollbackToHeight, TypeOK
<1>9. CASE CreateSnapshot
  BY <1>9 DEF CreateSnapshot, TypeOK
<1>10. CASE UNCHANGED vars
  BY <1>10 DEF vars, TypeOK
<1>11. QED
  BY <1>1, <1>2, <1>3, <1>4, <1>5, <1>6, <1>7, <1>8, <1>9, <1>10 DEF Next

\* Every variable keeps its type, for every set of addresses and amounts.
THEOREM TypeCorrect == Spec => []TypeOK
BY TypeInit, TypeStep, PTL DEF Spec

-----------------------------------------------------------------------------
(* The blocks of the chain and the rows of the table. *)

\* BlocksAreWhole, row by row.
LEMMA WholeByRow ==
  BlocksAreWhole <=>
    \A row : row \in transactions <=>
               \E h \in Heights : blocks[h] # None /\ row \in Rows(blocks[h].txs, h)
BY DEF BlocksAreWhole

\* Recording a block at a free height adds its rows and takes none away.
LEMMA RecordWhole ==
  ASSUME TypeOK, BlocksAreWhole, NEW h \in Heights, blocks[h] = None,
         NEW accts \in Accounts, NEW txs \in Seq(Tx), Record(h, accts, txs)
  PROVE  BlocksAreWhole'
<1> DEFINE b == [state_root |-> accts, txs |-> txs]
<1>1. b # None /\ b.txs = txs
  BY MicroLedgerAssumption DEF Block
<1>2. /\ blocks'[h] = b
      /\ \A k \in Heights : k # h => blocks'[k] = blocks[k]
  BY DEF Record, TypeOK
<1>3. transactions' = transactions \cup Rows(txs, h)
  BY DEF Record
<1> HIDE DEF b
<1>4. \A row : row \in transactions' <=>
                 \E k \in Heights : blocks'[k] # None /\ row \in Rows(blocks'[k].txs, k)
  <2> TAKE row
  <2>1. row \in transactions <=>
          \E k \in Heights : blocks[k] # None /\ row \in Rows(blocks[k].txs, k)
    BY WholeByRow
  <2>2. ASSUME row \in transactions'
        PROVE  \E k \in Heights : blocks'[k] # None /\ row \in Rows(blocks'[k].txs, k)
    <3>1. CASE row \in transactions
      <4>1. PICK k \in Heights : blocks[k] # None /\ row \in Rows(blocks[k].txs, k)
        BY <2>1, <3>1
      <4>2. blocks'[k] = blocks[k]
        BY <1>2, <4>1
      <4>3. QED
        BY <4>1, <4>2
    <3>2. CASE row \in Rows(txs, h)
      BY <1>1, <1>2, <3>2
    <3>3. QED
      BY <1>3, <2>2, <3>1, <3>2
  <2>3. ASSUME NEW k \in Heights, blocks'[k] # None, row \in Rows(blocks'[k].txs, k)
        PROVE  row \in transactions'
    BY <1>1, <1>2, <1>3, <2>1, <2>3
  <2>4. QED
    BY <2>2, <2>3
<1>5. QED
  BY <1>4 DEF BlocksAreWhole

\* A rollback takes away the blocks above the height and exactly their rows.
LEMMA RollbackWhole ==
  ASSUME TypeOK, BlocksAreWhole, NEW t \in 0..MaxHeight, RollbackToHeight(t)
  PROVE  BlocksAreWhole'
<1>1. \A k \in Heights : blocks'[k] = IF k > t THEN None ELSE blocks[k]
  BY DEF RollbackToHeight
<1>2. transactions' = {row \in transactions : row.block_height <= t}
  BY DEF RollbackToHeight, Kept
<1>3. ASSUME NEW k \in Heights, NEW row, row \in Rows(blocks[k].txs, k)
      PROVE  row.block_height = k
  BY <1>3 DEF Rows
<1>4. \A row : row \in transactions' <=>
                 \E k \in Heights : blocks'[k] # None /\ row \in Rows(blocks'[k].txs, k)
  <2> TAKE row
  <2>1. row \in transactions <=>
          \E k \in Heights : blocks[k] # None /\ row \in Rows(blocks[k].txs, k)
    BY WholeByRow
  <2>2. ASSUME row \in transactions'
        PROVE  \E k \in Heights : blocks'[k] # None /\ row \in Rows(blocks'[k].txs, k)
    <3>1. PICK k \in Heights : blocks[k] # None /\ row \in Rows(blocks[k].txs, k)
      BY <1>2, <2>1, <2>2
    <3>2. row.block_height = k /\ row.block_height <= t
      BY <1>2, <1>3, <2>2, <3>1
    <3>3. ~(k > t)
      BY <3>2, MicroLedgerAssumption DEF Heights
    <3>4. QED
      BY <1>1, <3>1, <3>3
  <2>3. ASSUME NEW k \in Heights, blocks'[k] # None, row \in Rows(blocks'[k].txs, k)
        PROVE  row \in transactions'
    <3>1. ~(k > t) /\ blocks'[k] = blocks[k]
      BY <1>1, <2>3
    <3>2. row \in transactions
      BY <2>1, <2>3, <3>1
    <3>3. row.block_height = k /\ k <= t
      BY <1>3, <2>3, <3>1, MicroLedgerAssumption DEF Heights
    <3>4. QED
      BY <1>2, <3>2, <3>3
  <2>4. QED
    BY <2>2, <2>3
<1>5. QED
  BY <1>4 DEF BlocksAreWhole

LEMMA WholeStep == TypeOK /\ BlocksAreWhole /\ [Next]_vars => BlocksAreWhole'
<1> SUFFICES ASSUME TypeOK, BlocksAreWhole, [Next]_vars PROVE BlocksAreWhole'
  OBVIOUS
<1>1. CASE UNCHANGED <<blocks, transactions>>
  BY <1>1 DEF BlocksAreWhole
<1>2. CASE CommitBlock
  BY <1>2, RecordWhole DEF CommitBlock, TypeOK, Work
<1>3. ASSUME NEW tx \in Tx, ExecuteStateTransition(tx) PROVE BlocksAreWhole'
  <2>1. Tip + 1 \in Heights /\ blocks[Tip + 1] = None
    BY <1>3, TipIsHighest, MicroLedgerAssumption DEF ExecuteStateTransition, Heights
  <2>2. Paid(accounts, tx) \in Accounts
    BY <1>3, PaidType DEF ExecuteStateTransition, TypeOK
  <2>3. <<tx>> \in Seq(Tx)
    OBVIOUS
  <2>4. QED
    BY <1>3, <2>1, <2>2, <2>3, RecordWhole DEF ExecuteStateTransition
<1>4. ASSUME NEW t \in 0..MaxHeight, RollbackToHeight(t) PROVE BlocksAreWhole'
  BY <1>4, RollbackWhole
<1>5. QED
  BY <1>1, <1>2, <1>3, <1>4
  DEF Next, vars, chainVars, BeginBlock, ApplyTx, RefuseTx, ForkConflict, Crash,
      CreateSnapshot

\* The rows of the table are those of the chain's blocks, through refusals, fork
\* conflicts, an end of the process in the middle of a block, and rollbacks.
THEOREM BlocksStayWhole == Spec => []BlocksAreWhole
<1>1. Init => BlocksAreWhole
  BY DEF Init, BlocksAreWhole
<1>2. QED
  BY <1>1, WholeStep, TypeCorrect, PTL DEF Spec

-----------------------------------------------------------------------------
(* No transaction hash twice. *)

\* The hashes of the block at work are new, and each of them is used once.
WorkIsFresh ==
  work # None =>
    \A i \in DOMAIN work.txs :
      /\ \A row \in transactions : row.tx.tx_hash # work.txs[i].tx_hash
      /\ \A j \in DOMAIN work.txs : work.txs[i].tx_hash = work.txs[j].tx_hash => i = j

ReplayInv == NoReplayInChain /\ WorkIsFresh

\* Recording a block whose hashes are new and used once repeats none.
LEMMA RecordNoReplay ==
  ASSUME TypeOK, NoReplayInChain, NEW h \in Heights, NEW accts \in Accounts,
         NEW txs \in Seq(Tx), Record(h, accts, txs),
         \A i \in DOMAIN txs :
           /\ \A row \in transactions : row.tx.tx_hash # txs[i].tx_hash
           /\ \A j \in DOMAIN txs : txs[i].tx_hash = txs[j].tx_hash => i = j
  PROVE  ReplayInv'
<1>1. work' = None /\ transactions' = transactions \cup Rows(txs, h)
  BY DEF Record
<1>2. ASSUME NEW r \in Rows(txs, h)
      PROVE  \E i \in DOMAIN txs : r = [tx |-> txs[i], block_height |-> h]
  BY DEF Rows
<1>3. ASSUME NEW r1 \in transactions', NEW r2 \in transactions',
             r1.tx.tx_hash = r2.tx.tx_hash
      PROVE  r1 = r2
  <2>1. CASE r1 \in transactions /\ r2 \in transactions
    BY <1>3, <2>1 DEF NoReplayInChain
  <2>2. CASE r1 \in Rows(txs, h) /\ r2 \in transactions
    BY <1>2, <1>3, <2>2
  <2>3. CASE r1 \in transactions /\ r2 \in Rows(txs, h)
    BY <1>2, <1>3, <2>3
  <2>4. CASE r1 \in Rows(txs, h) /\ r2 \in Rows(txs, h)
    BY <1>2, <1>3, <2>4
  <2>5. QED
    BY <1>1, <1>3, <2>1, <2>2, <2>3, <2>4
<1>4. QED
  BY <1>1, <1>3 DEF ReplayInv, NoReplayInChain, WorkIsFresh

\* A transaction that is taken keeps the hashes at work new.
LEMMA ApplyFresh ==
  ASSUME TypeOK, ReplayInv, NEW tx \in Tx, ApplyTx(tx)
  PROVE  ReplayInv'
<1>1. work \in Work /\ work # None
  BY DEF ApplyTx, TypeOK
<1> DEFINE n == Len(work.txs) + 1
           txs2 == Append(work.txs, tx)
<1>2. /\ n \in Nat
      /\ DOMAIN work.txs = 1..(n - 1) /\ DOMAIN txs2 = 1..n
      /\ txs2[n] = tx
      /\ \A i \in DOMAIN work.txs : txs2[i] = work.txs[i]
  BY <1>1 DEF Work
<1>3. work'.txs = txs2 /\ transactions' = transactions
  BY <1>1 DEF ApplyTx, Work, chainVars
<1>4. /\ \A row \in transactions : row.tx.tx_hash # tx.tx_hash
      /\ \A i \in DOMAIN work.txs : work.txs[i].tx_hash # tx.tx_hash
  BY DEF ApplyTx, Fresh
<1>5. /\ \A i \in DOMAIN work.txs :
             \A row \in transactions : row.tx.tx_hash # work.txs[i].tx_hash
      /\ \A i, j \in DOMAIN work.txs : work.txs[i].tx_hash = work.txs[j].tx_hash => i = j
  BY <1>1 DEF ReplayInv, WorkIsFresh
<1> HIDE DEF n, txs2
<1>6. \A i \in 1..n : i = n \/ i \in DOMAIN work.txs
  BY <1>2
<1>7. ASSUME NEW i \in DOMAIN txs2
      PROVE  /\ \A row \in transactions : row.tx.tx_hash # txs2[i].tx_hash
             /\ \A j \in DOMAIN txs2 : txs2[i].tx_hash = txs2[j].tx_hash => i = j
  BY <1>2, <1>4, <1>5, <1>6
<1>8. NoReplayInChain'
  BY <1>3 DEF ReplayInv, NoReplayInChain
<1>9. QED
  BY <1>3, <1>7, <1>8 DEF ReplayInv, WorkIsFresh

LEMMA ReplayStep == TypeOK /\ ReplayInv /\ [Next]_vars => ReplayInv'
<1> SUFFICES ASSUME TypeOK, ReplayInv, [Next]_vars PROVE ReplayInv'
  OBVIOUS
<1>1. CASE work' = None /\ transactions' \subseteq transactions
  BY <1>1 DEF ReplayInv, NoReplayInChain, WorkIsFresh
<1>2. ASSUME NEW h \in Heights, BeginBlock(h) PROVE ReplayInv'
  <2>1. work'.txs = <<>> /\ transactions' = transactions
    BY <1>2 DEF BeginBlock, chainVars
  <2>2. QED
    BY <2>1 DEF ReplayInv, NoReplayInChain, WorkIsFresh
<1>3. ASSUME NEW tx \in Tx, ApplyTx(tx) PROVE ReplayInv'
  BY <1>3, ApplyFresh
<1>4. CASE CommitBlock
  <2>1. work \in Work /\ work # None
    BY <1>4 DEF CommitBlock, TypeOK
  <2>2. QED
    BY <1>4, <2>1, RecordNoReplay DEF CommitBlock, Work, ReplayInv, WorkIsFresh
<1>5. ASSUME NEW tx \in Tx, ExecuteStateTransition(tx) PROVE ReplayInv'
  <2>1. Tip + 1 \in Heights /\ Paid(accounts, tx) \in Accounts
    BY <1>5, TipIsHighest, PaidType, MicroLedgerAssumption
    DEF ExecuteStateTransition, Heights, TypeOK
  <2>2. <<tx>> \in Seq(Tx) /\ DOMAIN <<tx>> = {1} /\ <<tx>>[1] = tx
    OBVIOUS
  <2>3. QED
    BY <1>5, <2>1, <2>2, RecordNoReplay DEF ExecuteStateTransition, ReplayInv
<1>6. ASSUME NEW t \in 0..MaxHeight, RollbackToHeight(t) PROVE ReplayInv'
  BY <1>1, <1>6 DEF RollbackToHeight, Kept
<1>7. CASE UNCHANGED <<work, transactions>>
  BY <1>7 DEF ReplayInv, NoReplayInChain, WorkIsFresh
<1>8. QED
  BY <1>1, <1>2, <1>3, <1>4, <1>5, <1>6, <1>7
  DEF Next, vars, chainVars, RefuseTx, ForkConflict, Crash, CreateSnapshot

\* No transaction hash is applied twice in the chain: the hash is looked up in the
\* table and in the block at work, and the block's rows appear all at once.
THEOREM NoReplay == Spec => []NoReplayInChain
<1>1. Init => ReplayInv
  BY DEF Init, ReplayInv, NoReplayInChain, WorkIsFresh
<1>2. ReplayInv => NoReplayInChain
  BY DEF ReplayInv
<1>3. QED
  BY <1>1, <1>2, ReplayStep, TypeCorrect, PTL DEF Spec

-----------------------------------------------------------------------------
(* The supply. *)

Balances(accts) == [a \in Addresses |-> Balance(accts, a)]

LEMMA BalancesType ==
  ASSUME NEW accts \in Accounts
  PROVE  Balances(accts) \in [Addresses -> Int]
BY DEF Balances, Balance, Accounts

LEMMA TotalIsSum ==
  ASSUME NEW accts
  PROVE  Total(accts) = SumFunction(Balances(accts))
BY DEF Total, Balances

\* A payment changes every balance by what the transaction brings the account,
\* sender and recipient being two accounts or one.
LEMMA PaidBalance ==
  ASSUME NEW accts \in Accounts, NEW tx \in Tx, accts[tx.sender] # None,
         NEW a \in Addresses
  PROVE  /\ Balance(Paid(accts, tx), a) = Balance(accts, a) + Brings(tx, a)
         /\ Balance(accts, a) \in Int /\ Brings(tx, a) \in Int
<1> DEFINE debited == [accts EXCEPT ![tx.sender] = @ - tx.amount]
<1>1. /\ tx.sender \in Addresses /\ tx.recipient \in Addresses /\ tx.amount \in Int
      /\ None \notin Int
  BY MicroLedgerAssumption DEF Tx
<1>2. accts[tx.sender] \in Int
  BY <1>1 DEF Accounts
<1>3. /\ debited \in Accounts
      /\ debited[tx.sender] = accts[tx.sender] - tx.amount
      /\ \A b \in Addresses : b # tx.sender => debited[b] = accts[b]
  BY <1>1, <1>2 DEF Accounts
<1>4. \A b \in Addresses : /\ Balance(accts, b) \in Int
                           /\ Balance(debited, b) =
                                Balance(accts, b) - (IF tx.sender = b THEN tx.amount ELSE 0)
  BY <1>1, <1>2, <1>3 DEF Balance, Accounts
<1>5. Balance(debited, tx.recipient) + tx.amount \in Int
  <2>1. Balance(debited, tx.recipient) \in Int
    BY <1>1, <1>3 DEF Balance, Accounts
  <2> HIDE DEF debited
  <2>2. QED
    BY <1>1, <2>1
<1>6. Paid(accts, tx) = [debited EXCEPT ![tx.recipient] =
                                           Balance(debited, tx.recipient) + tx.amount]
  BY DEF Paid
<1> HIDE DEF debited
<1>7. /\ Paid(accts, tx)[tx.recipient] = Balance(debited, tx.recipient) + tx.amount
      /\ \A b \in Addresses : b # tx.recipient => Paid(accts, tx)[b] = debited[b]
  BY <1>1, <1>3, <1>6 DEF Accounts
<1>8. Balance(Paid(accts, tx), a) =
        Balance(debited, a) + (IF tx.recipient = a THEN tx.amount ELSE 0)
  <2>1. CASE a = tx.recipient
    BY <1>1, <1>5, <1>7, <2>1 DEF Balance
  <2>2. CASE a # tx.recipient
    <3>1. Balance(Paid(accts, tx), a) = Balance(debited, a)
      BY <1>7, <2>2 DEF Balance
    <3>2. Balance(debited, a) \in Int
      BY <1>1, <1>4
    <3>3. QED
      BY <2>2, <3>1, <3>2
  <2>3. QED
    BY <2>1, <2>2
<1>9. QED
  BY <1>1, <1>4, <1>8 DEF Brings

\* So it leaves the total what it was.
LEMMA PaidTotal ==
  ASSUME NEW accts \in Accounts, NEW tx \in Tx, accts[tx.sender] # None
  PROVE  Total(Paid(accts, tx)) = Total(accts)
<1> DEFINE f == Balances(accts)
           s == tx.sender
           r == tx.recipient
           amount == tx.amount
           g == Shifted(f, s, r, amount)
<1>1. /\ s \in Addresses /\ r \in Addresses /\ amount \in Int
      /\ IsFiniteSet(Addresses)
  BY MicroLedgerAssumption DEF Tx
<1>2. f \in [Addresses -> Int]
  BY BalancesType
<1>3. \A a \in Addresses :
        Balances(Paid(accts, tx))[a] =
          f[a] + ((IF r = a THEN amount ELSE 0) - (IF s = a THEN amount ELSE 0))
  BY PaidBalance DEF Balances, Brings
<1> HIDE DEF f, s, r, amount
<1>4. Balances(Paid(accts, tx)) = g
  <2>1. \A a \in Addresses :
          g[a] = f[a] + ((IF r = a THEN amount ELSE 0) - (IF s = a THEN amount ELSE 0))
    BY <1>1, <1>2 DEF Shifted
  <2>2. g = [a \in Addresses |-> g[a]]
    BY <1>2 DEF Shifted
  <2>3. Balances(Paid(accts, tx)) = [a \in Addresses |-> Balances(Paid(accts, tx))[a]]
    BY DEF Balances
  <2> HIDE DEF g
  <2>4. \A a \in Addresses : g[a] = Balances(Paid(accts, tx))[a]
    BY <1>3, <2>1
  <2>5. QED
    BY <2>2, <2>3, <2>4
<1>5. SumFunction(g) = SumFunction(f)
  BY <1>1, <1>2, SumMoved
<1>6. Total(Paid(accts, tx)) = SumFunction(g) /\ Total(accts) = SumFunction(f)
  BY <1>4, TotalIsSum, Zenon DEF f
<1>7. QED
  BY <1>5, <1>6

LEMMA GenesisTotal == Total(GenesisAccounts) = Supply
<1> DEFINE zero == [a \in Addresses |-> 0]
<1>1. /\ zero \in [Addresses -> Int] /\ IsFiniteSet(Addresses) /\ Genesis \in Addresses
      /\ Supply \in Int /\ Supply # None
  BY MicroLedgerAssumption
<1>2. Balances(GenesisAccounts) = [zero EXCEPT ![Genesis] = Supply] /\ zero[Genesis] = 0
  BY <1>1 DEF Balances, Balance, GenesisAccounts
<1>3. SumFunction(zero) = 0
  <2>1. DOMAIN zero = Addresses /\ \A a \in Addresses : zero[a] = 0
    OBVIOUS
  <2> HIDE DEF zero
  <2>2. SumFunctionOnSet(zero, Addresses) = 0
    BY <1>1, <2>1, SumZero
  <2>3. QED
    BY <2>1, <2>2, Zenon DEF SumFunction
<1> HIDE DEF zero
<1>4. SumFunction([zero EXCEPT ![Genesis] = Supply]) = SumFunction(zero) + Supply - zero[Genesis]
  BY <1>1, SumExcept
<1>5. Total(GenesisAccounts) = SumFunction(Balances(GenesisAccounts))
  BY TotalIsSum
<1>6. QED
  BY <1>1, <1>2, <1>3, <1>4, <1>5

\* Every copy of the accounts holds the supply: the table, the block at work and
\* the checkpoints, from any of which the next accounts may come.
SupplyInv ==
  /\ SupplyIsConserved
  /\ work # None => Total(work.accounts) = Supply
  /\ \A k \in 0..MaxHeight : checkpoints[k] # None => Total(checkpoints[k]) = Supply

LEMMA SupplyStep == TypeOK /\ SupplyInv /\ [Next]_vars => SupplyInv'
<1> SUFFICES ASSUME TypeOK, SupplyInv, [Next]_vars PROVE SupplyInv'
  OBVIOUS
<1> USE DEF SupplyInv, SupplyIsConserved
<1>1. ASSUME NEW h \in Heights, BeginBlock(h) PROVE SupplyInv'
  <2>1. work'.accounts = accounts /\ UNCHANGED <<accounts, checkpoints>>
    BY <1>1 DEF BeginBlock, chainVars
  <2>2. QED
    BY <2>1
<1>2. ASSUME NEW tx \in Tx, ApplyTx(tx) PROVE SupplyInv'
  <2>1. work \in Work /\ work # None /\ work.accounts[tx.sender] # None
    BY <1>2 DEF ApplyTx, Funded, TypeOK
  <2>2. work'.accounts = Paid(work.accounts, tx) /\ UNCHANGED <<accounts, checkpoints>>
    BY <1>2, <2>1 DEF ApplyTx, Work, chainVars
  <2>3. Total(work'.accounts) = Supply
    BY <2>1, <2>2, PaidTotal DEF Work
  <2>4. QED
    BY <2>2, <2>3
<1>3. CASE CommitBlock
  BY <1>3 DEF CommitBlock, Record
<1>4. ASSUME NEW tx \in Tx, ExecuteStateTransition(tx) PROVE SupplyInv'
  <2>1. Total(Paid(accounts, tx)) = Supply
    BY <1>4, PaidTotal DEF ExecuteStateTransition, TypeOK
  <2>2. accounts' = Paid(accounts, tx) /\ work' = None /\ UNCHANGED checkpoints
    BY <1>4 DEF ExecuteStateTransition, Record
  <2>3. QED
    BY <2>1, <2>2
<1>5. ASSUME NEW t \in 0..MaxHeight, RollbackToHeight(t) PROVE SupplyInv'
  BY <1>5 DEF RollbackToHeight, Restored
<1>6. CASE CreateSnapshot
  BY <1>6 DEF CreateSnapshot, TypeOK
<1>7. CASE UNCHANGED <<accounts, checkpoints>> /\ (work' = None \/ UNCHANGED work)
  BY <1>7
<1>8. QED
  BY <1>1, <1>2, <1>3, <1>4, <1>5, <1>6, <1>7
  DEF Next, vars, chainVars, RefuseTx, DropApplied, ForkConflict, Crash

\* verify_supply_invariant never fails: whatever blocks are applied, refused,
\* rolled back and restored, and whatever the sign of their amounts, the
\* accounts add up to the genesis supply.
THEOREM SupplyStays == Spec => []SupplyIsConserved
<1>1. Init => SupplyInv
  BY GenesisTotal DEF Init, SupplyInv, SupplyIsConserved
<1>2. SupplyInv => SupplyIsConserved
  BY DEF SupplyInv
<1>3. QED
  BY <1>1, <1>2, SupplyStep, TypeCorrect, PTL DEF Spec

-----------------------------------------------------------------------------
(* The chain can be replayed. *)

\* What a list of transactions brings an account: nothing for the empty list, and
\* a whole number that grows by what each transaction added to it brings.
LEMMA NetOfNone == ASSUME NEW a PROVE NetOf(<<>>, a) = 0
<1> DEFINE f == [i \in DOMAIN <<>> |-> Brings(<<>>[i], a)]
<1>1. DOMAIN f = {} /\ NetOf(<<>>, a) = SumFunction(f)
  BY DEF NetOf
<1> HIDE DEF f
<1>2. SumFunction(f) = SumFunctionOnSet(f, {})
  BY <1>1, Zenon DEF SumFunction
<1>3. QED
  BY <1>1, <1>2, SumEmpty

LEMMA NetOfTxs ==
  ASSUME NEW txs \in Seq(Tx), NEW tx \in Tx, NEW a
  PROVE  /\ NetOf(txs, a) \in Int
         /\ NetOf(Append(txs, tx), a) = NetOf(txs, a) + Brings(tx, a)
<1> DEFINE f(s) == [i \in DOMAIN s |-> Brings(s[i], a)]
           n == Len(txs)
           more == Append(txs, tx)
<1>1. ASSUME NEW t \in Tx PROVE Brings(t, a) \in Int
  <2>1. t.amount \in Int
    BY MicroLedgerAssumption DEF Tx
  <2>2. QED
    BY <2>1 DEF Brings
<1>2. n \in Nat /\ DOMAIN txs = 1..n /\ \A i \in 1..n : txs[i] \in Tx
  OBVIOUS
<1>3. /\ DOMAIN more = 1..(n + 1) /\ more[n + 1] = tx
      /\ \A i \in 1..n : more[i] = txs[i]
  BY <1>2
<1>4. \A s : NetOf(s, a) = SumFunctionOnSet(f(s), DOMAIN s)
  <2>1. \A s : DOMAIN f(s) = DOMAIN s
    OBVIOUS
  <2>2. \A s : NetOf(s, a) = SumFunction(f(s))
    BY DEF NetOf
  <2> HIDE DEF f
  <2>3. QED
    BY <2>1, <2>2, Zenon DEF SumFunction
<1> HIDE DEF n, more
<1>5. IsFiniteSet(1..n) /\ IsFiniteSet(1..(n + 1)) /\ (1..(n + 1)) \ {n + 1} = 1..n
  BY <1>2, FS_Interval
<1>6. /\ \A i \in 1..n : f(txs)[i] \in Int /\ f(more)[i] = f(txs)[i]
      /\ f(more)[n + 1] = Brings(tx, a)
  BY <1>2, <1>3, <1>1
<1>7. \A i \in 1..(n + 1) : f(more)[i] \in Int
  <2>1. \A i \in 1..(n + 1) : i \in 1..n \/ i = n + 1
    BY <1>2
  <2> HIDE DEF f
  <2>2. QED
    BY <1>1, <1>6, <2>1
<1> HIDE DEF f
<1>8. SumFunctionOnSet(f(txs), 1..n) \in Int
  BY <1>5, <1>6, SumStep
<1>9. SumFunctionOnSet(f(more), 1..n) = SumFunctionOnSet(f(txs), 1..n)
  BY <1>5, <1>6, SumSame DEF SameOn
<1>10. SumFunctionOnSet(f(more), 1..(n + 1))
         = f(more)[n + 1] + SumFunctionOnSet(f(more), (1..(n + 1)) \ {n + 1})
  <2>1. n + 1 \in 1..(n + 1)
    BY <1>2
  <2>2. QED
    BY <1>5, <1>7, <2>1, SumStep
<1>11. NetOf(txs, a) = SumFunctionOnSet(f(txs), 1..n)
  BY <1>2, <1>4, Zenon
<1>12. NetOf(more, a) = SumFunctionOnSet(f(more), 1..(n + 1))
  BY <1>3, <1>4, Zenon
<1>13. NetOf(more, a) = Brings(tx, a) + SumFunctionOnSet(f(txs), 1..n)
  BY <1>5, <1>6, <1>9, <1>10, <1>12
<1>14. QED
  BY <1>1, <1>8, <1>11, <1>13 DEF more

\* The height of the chain, recognised.
TipIsHeight ==
  /\ Tip # 0 => blocks[Tip] # None
  /\ \A t \in 0..MaxHeight :
        /\ t # 0 => blocks[t] # None
        /\ \A h \in Heights : blocks[h] # None => h <= t
        => Tip = t

LEMMA TipIs == TipIsHeight
<1>1. Tip # 0 => Tip \in Heights /\ blocks[Tip] # None
  <2> DEFINE S == {h \in Heights : blocks[h] # None}
  <2>1. CASE \E h \in Heights : blocks[h] # None
    <3>1. \E h \in S : \A k \in S : k <= h
      BY <2>1, HighestHeight
    <3>2. Tip \in S
      BY <2>1, <3>1 DEF Tip
    <3>3. QED
      BY <3>2
  <2>2. CASE ~ \E h \in Heights : blocks[h] # None
    BY <2>2 DEF Tip
  <2>3. QED
    BY <2>1, <2>2
<1>2. ASSUME NEW t \in 0..MaxHeight, t # 0 => blocks[t] # None,
             \A h \in Heights : blocks[h] # None => h <= t
      PROVE  Tip = t
  <2>1. Tip <= t
    BY <1>1, <1>2, MicroLedgerAssumption
  <2>2. t <= Tip
    BY <1>2, TipIsHighest, MicroLedgerAssumption DEF Heights
  <2>3. QED
    BY <2>1, <2>2, TipIsHighest, MicroLedgerAssumption
<1>3. QED
  BY <1>1, <1>2 DEF TipIsHeight

LEMMA TipWillBe == TipIsHeight'
BY TipIs, PTL

\* The chain has no gaps; a block at work has reached what its transactions make
\* of the accounts, and continues the chain or collides with it; and as long as
\* no rollback was blind the accounts are those of the tip.
ChainInv ==
  /\ \A h \in 1..Tip : blocks[h] # None
  /\ work # None =>
       /\ work.height <= Tip + 1
       /\ \A a \in Addresses :
             Balance(work.accounts, a) = Balance(accounts, a) + NetOf(work.txs, a)
  /\ ~blind => accounts = RootAt(Tip)
  /\ ChainReplays

\* A block recorded on top of the chain is replayed by its own transactions.
LEMMA RecordChain ==
  ASSUME TypeOK, ChainInv, NEW accts \in Accounts, NEW txs \in Seq(Tx),
         NEW t \in 0..MaxHeight, t = Tip, t + 1 \in Heights,
         Record(t + 1, accts, txs), Tip' = t + 1,
         \A a \in Addresses : Balance(accts, a) = Balance(accounts, a) + NetOf(txs, a)
  PROVE  ChainInv'
<1> DEFINE b == [state_root |-> accts, txs |-> txs]
<1>1. t \in Nat /\ MaxHeight \in Nat
  BY MicroLedgerAssumption
<1>2. b # None /\ b.txs = txs /\ b.state_root = accts
  BY MicroLedgerAssumption DEF Block
<1>3. /\ blocks'[t + 1] = b
      /\ \A k \in Heights : k # t + 1 => blocks'[k] = blocks[k]
      /\ accounts' = accts /\ work' = None /\ blind' = blind
  BY DEF Record, TypeOK
<1> HIDE DEF b
<1>4. \A k \in 1..t : k \in Heights /\ k # t + 1 /\ blocks'[k] = blocks[k]
  BY <1>1, <1>3 DEF Heights
<1>5. \A h \in 1..(t + 1) : blocks'[h] # None
  <2>1. \A h \in 1..(t + 1) : h \in 1..t \/ h = t + 1
    BY <1>1
  <2>2. QED
    BY <1>2, <1>3, <1>4, <2>1 DEF ChainInv
<1>6. ASSUME NEW k \in 0..t PROVE RootAt(k)' = RootAt(k)
  <2>1. k = 0 \/ k \in 1..t
    BY <1>1
  <2>2. QED
    BY <1>4, <2>1 DEF RootAt
<1>7. RootAt(t + 1)' = accts
  <2>1. t + 1 # 0
    BY <1>1
  <2>2. QED
    BY <1>2, <1>3, <2>1 DEF RootAt
<1>8. ~blind => RootAt(t) = accounts
  BY DEF ChainInv
<1>9. ASSUME ~blind', NEW h \in 1..(t + 1), NEW a \in Addresses
      PROVE  Balance(RootAt(h)', a) = Balance(RootAt(h - 1)', a) + NetOf(blocks'[h].txs, a)
  <2>1. CASE h = t + 1
    <3>1. h - 1 = t /\ t \in 0..t
      BY <1>1, <2>1
    <3>2. RootAt(h - 1)' = accounts /\ RootAt(h)' = accts /\ blocks'[h].txs = txs
      BY <1>2, <1>3, <1>6, <1>7, <1>8, <1>9, <2>1, <3>1
    <3>3. QED
      BY <3>2
  <2>2. CASE h # t + 1
    <3>1. h \in 1..t /\ h \in 0..t /\ h - 1 \in 0..t
      BY <1>1, <2>2
    <3>2. Balance(RootAt(h), a) = Balance(RootAt(h - 1), a) + NetOf(blocks[h].txs, a)
      BY <1>3, <1>9, <3>1 DEF ChainInv, ChainReplays
    <3>3. RootAt(h)' = RootAt(h) /\ RootAt(h - 1)' = RootAt(h - 1) /\ blocks'[h] = blocks[h]
      BY <1>4, <1>6, <3>1
    <3>4. QED
      BY <3>2, <3>3
  <2>3. QED
    BY <2>1, <2>2
<1>10. ChainReplays'
  BY <1>9, Zenon DEF ChainReplays, Balance, NetOf, Brings
<1>11. (\A h \in 1..Tip : blocks[h] # None)'
  BY <1>5
<1>12. (accounts = RootAt(Tip))'
  BY <1>1, <1>2, <1>3 DEF RootAt
<1>13. QED
  BY <1>3, <1>10, <1>11, <1>12 DEF ChainInv

\* A rollback keeps the lower of the two heights, and unless it is blind the
\* accounts become those of the block there.
LEMMA RollbackChain ==
  ASSUME TypeOK, ChainInv, NEW t \in 0..MaxHeight, RollbackToHeight(t),
         NEW m \in 0..MaxHeight, m = (IF t < Tip THEN t ELSE Tip), Tip' = m
  PROVE  ChainInv'
<1>1. /\ MaxHeight \in Nat /\ Tip \in 0..MaxHeight /\ m <= t /\ m <= Tip
  BY TipIsHighest, MicroLedgerAssumption
<1>2. /\ \A k \in Heights : blocks'[k] = IF k > t THEN None ELSE blocks[k]
      /\ accounts' = Restored(t) /\ work' = None
      /\ blind' = (blind \/ Restored(t) # RootAt(m))
  BY DEF RollbackToHeight
<1>3. \A k \in 1..m : k \in Heights /\ k \in 1..Tip /\ blocks'[k] = blocks[k]
  BY <1>1, <1>2 DEF Heights
<1>4. ASSUME NEW k \in 0..m PROVE RootAt(k)' = RootAt(k)
  <2>1. k = 0 \/ k \in 1..m
    BY <1>1
  <2>2. QED
    BY <1>3, <2>1 DEF RootAt
<1>5. (\A h \in 1..Tip : blocks[h] # None)'
  BY <1>3 DEF ChainInv
<1>6. ASSUME ~blind' PROVE accounts' = RootAt(Tip)'
  <2>1. accounts' = RootAt(m)
    BY <1>2, <1>6
  <2>2. RootAt(Tip)' = RootAt(m)'
    BY DEF RootAt
  <2>3. QED
    BY <1>1, <1>4, <2>1, <2>2
<1>7. ASSUME ~blind', NEW h \in 1..m, NEW a \in Addresses
      PROVE  Balance(RootAt(h)', a) = Balance(RootAt(h - 1)', a) + NetOf(blocks'[h].txs, a)
  <2>1. h \in 1..Tip /\ h \in 0..m /\ h - 1 \in 0..m
    BY <1>1
  <2>2. Balance(RootAt(h), a) = Balance(RootAt(h - 1), a) + NetOf(blocks[h].txs, a)
    BY <1>2, <1>7, <2>1 DEF ChainInv, ChainReplays
  <2>3. RootAt(h)' = RootAt(h) /\ RootAt(h - 1)' = RootAt(h - 1) /\ blocks'[h] = blocks[h]
    BY <1>3, <1>4, <2>1
  <2>4. QED
    BY <2>2, <2>3
<1>8. ChainReplays'
  BY <1>7, Zenon DEF ChainReplays, Balance, NetOf, Brings
<1>9. QED
  BY <1>2, <1>5, <1>6, <1>8 DEF ChainInv

\* The height after a step that changes the blocks.
LEMMA TipStep ==
  ASSUME TypeOK, ChainInv
  PROVE  /\ \A h \in Heights : \A accts \in Accounts : \A txs \in Seq(Tx) :
               h = Tip + 1 /\ Record(h, accts, txs) => Tip' = h
         /\ \A t \in 0..MaxHeight :
               RollbackToHeight(t) => Tip' = IF t < Tip THEN t ELSE Tip
<1>1. /\ MaxHeight \in Nat /\ Tip \in 0..MaxHeight
      /\ \A h \in Heights : blocks[h] # None => h <= Tip
      /\ Tip # 0 => blocks[Tip] # None
  BY TipIsHighest, TipIs, MicroLedgerAssumption DEF TipIsHeight
<1>2. \A t \in 0..MaxHeight :
         /\ t # 0 => blocks'[t] # None
         /\ \A h \in Heights : blocks'[h] # None => h <= t
         => Tip' = t
  BY TipWillBe DEF TipIsHeight
<1>3. ASSUME NEW h \in Heights, NEW accts \in Accounts, NEW txs \in Seq(Tx),
             h = Tip + 1, Record(h, accts, txs)
      PROVE  Tip' = h
  <2>1. [state_root |-> accts, txs |-> txs] # None
    BY MicroLedgerAssumption DEF Block
  <2>2. blocks'[h] # None /\ \A k \in Heights : k # h => blocks'[k] = blocks[k]
    BY <1>3, <2>1 DEF Record, TypeOK
  <2>3. \A k \in Heights : blocks'[k] # None => k <= h
    BY <1>1, <1>3, <2>2 DEF Heights
  <2>4. h \in 0..MaxHeight
    BY <1>1 DEF Heights
  <2>5. QED
    BY <1>2, <2>2, <2>3, <2>4
<1>4. ASSUME NEW t \in 0..MaxHeight, RollbackToHeight(t)
      PROVE  Tip' = IF t < Tip THEN t ELSE Tip
  <2>1. \A k \in Heights : blocks'[k] = IF k > t THEN None ELSE blocks[k]
    BY <1>4 DEF RollbackToHeight
  <2>2. \A k \in 1..Tip : blocks[k] # None
    BY DEF ChainInv
  <2>3. CASE t < Tip
    <3>1. t # 0 => t \in Heights /\ t \in 1..Tip /\ blocks'[t] # None
      BY <1>1, <2>1, <2>2, <2>3 DEF Heights
    <3>2. \A k \in Heights : blocks'[k] # None => k <= t
      BY <1>1, <2>1 DEF Heights
    <3>3. QED
      BY <1>2, <2>3, <3>1, <3>2
  <2>4. CASE ~(t < Tip)
    <3>1. Tip # 0 => Tip \in Heights /\ blocks'[Tip] # None
      BY <1>1, <2>1, <2>4 DEF Heights
    <3>2. \A k \in Heights : blocks'[k] # None => k <= Tip
      BY <1>1, <2>1 DEF Heights
    <3>3. QED
      BY <1>1, <1>2, <2>4, <3>1, <3>2
  <2>5. QED
    BY <2>3, <2>4
<1>5. QED
  BY <1>3, <1>4

\* What a step that leaves the blocks alone keeps of it.
LEMMA ReplayKept ==
  ASSUME ChainReplays, UNCHANGED <<blocks, blind>>
  PROVE  ChainReplays' /\ Tip' = Tip /\ RootAt(Tip)' = RootAt(Tip)
<1>1. Tip' = Tip
  BY DEF Tip
<1>2. \A k : RootAt(k)' = RootAt(k)
  BY DEF RootAt
<1>3. RootAt(Tip)' = RootAt(Tip)
  BY <1>1 DEF RootAt
<1>4. ASSUME ~blind', NEW h \in 1..Tip, NEW a \in Addresses
      PROVE  Balance(RootAt(h)', a) = Balance(RootAt(h - 1)', a) + NetOf(blocks'[h].txs, a)
  <2>1. Balance(RootAt(h), a) = Balance(RootAt(h - 1), a) + NetOf(blocks[h].txs, a)
    BY <1>4 DEF ChainReplays
  <2>2. RootAt(h)' = RootAt(h) /\ RootAt(h - 1)' = RootAt(h - 1) /\ blocks'[h] = blocks[h]
    BY <1>2
  <2>3. QED
    BY <2>1, <2>2
<1>5. ChainReplays'
  BY <1>1, <1>4, Zenon DEF ChainReplays, Balance, NetOf, Brings
<1>6. QED
  BY <1>1, <1>3, <1>5

LEMMA ChainKept ==
  ASSUME ChainInv, UNCHANGED <<accounts, blocks, blind>>,
         work' # None =>
           /\ work'.height <= Tip + 1
           /\ \A a \in Addresses :
                 Balance(work'.accounts, a) = Balance(accounts, a) + NetOf(work'.txs, a)
  PROVE  ChainInv'
<1>1. ChainReplays' /\ Tip' = Tip /\ RootAt(Tip)' = RootAt(Tip)
  BY ReplayKept DEF ChainInv
<1>2. QED
  BY <1>1 DEF ChainInv

LEMMA ChainStep == TypeOK /\ ChainInv /\ [Next]_vars => ChainInv'
<1> SUFFICES ASSUME TypeOK, ChainInv, [Next]_vars PROVE ChainInv'
  OBVIOUS
<1>1. ASSUME NEW h \in Heights, BeginBlock(h) PROVE ChainInv'
  <2>1. /\ work'.accounts = accounts /\ work'.txs = <<>> /\ work'.height = h
        /\ h <= Tip + 1 /\ UNCHANGED <<accounts, blocks, blind>>
    BY <1>1 DEF BeginBlock, chainVars
  <2>2. \A a \in Addresses : Balance(accounts, a) \in Int
    BY DEF TypeOK, Accounts, Balance
  <2>3. \A a \in Addresses : NetOf(<<>>, a) = 0
    BY NetOfNone
  <2>4. QED
    BY <2>1, <2>2, <2>3, ChainKept
<1>2. ASSUME NEW tx \in Tx, ApplyTx(tx) PROVE ChainInv'
  <2>1. work \in Work /\ work # None /\ work.accounts[tx.sender] # None
    BY <1>2 DEF ApplyTx, Funded, TypeOK
  <2>2. /\ work'.accounts = Paid(work.accounts, tx) /\ work'.txs = Append(work.txs, tx)
        /\ work'.height = work.height /\ UNCHANGED <<accounts, blocks, blind>>
    BY <1>2, <2>1 DEF ApplyTx, Work, chainVars
  <2>3. work.height <= Tip + 1
    BY <2>1 DEF ChainInv
  <2>4. ASSUME NEW a \in Addresses
        PROVE  Balance(work'.accounts, a) = Balance(accounts, a) + NetOf(work'.txs, a)
    <3>1. Balance(work.accounts, a) = Balance(accounts, a) + NetOf(work.txs, a)
      BY <2>1 DEF ChainInv
    <3>2. /\ Balance(Paid(work.accounts, tx), a) = Balance(work.accounts, a) + Brings(tx, a)
          /\ Brings(tx, a) \in Int
      BY <2>1, PaidBalance DEF Work
    <3>3. /\ NetOf(Append(work.txs, tx), a) = NetOf(work.txs, a) + Brings(tx, a)
          /\ NetOf(work.txs, a) \in Int
      BY <2>1, NetOfTxs DEF Work
    <3>4. Balance(accounts, a) \in Int
      BY DEF TypeOK, Accounts, Balance
    <3>5. QED
      BY <2>2, <3>1, <3>2, <3>3, <3>4
  <2>5. QED
    BY <2>2, <2>3, <2>4, ChainKept
<1>3. CASE CommitBlock
  <2>1. work \in Work /\ work # None /\ blocks[work.height] = None
    BY <1>3 DEF CommitBlock, TypeOK
  <2>2. work.height \in Heights /\ work.accounts \in Accounts /\ work.txs \in Seq(Tx)
    BY <2>1 DEF Work
  <2>3. /\ \A h \in 1..Tip : blocks[h] # None
        /\ work.height <= Tip + 1
        /\ \A a \in Addresses :
              Balance(work.accounts, a) = Balance(accounts, a) + NetOf(work.txs, a)
    BY <2>1 DEF ChainInv
  <2>4. work.height = Tip + 1
    BY <2>1, <2>2, <2>3, TipIsHighest, MicroLedgerAssumption DEF Heights
  <2>5. Record(work.height, work.accounts, work.txs)
    BY <1>3 DEF CommitBlock
  <2>6. Tip' = work.height
    BY <2>2, <2>4, <2>5, TipStep
  <2>7. PICK t \in 0..MaxHeight : t = Tip
    BY TipIsHighest
  <2>8. t + 1 = work.height
    BY <2>4, <2>7
  <2>9. QED
    BY <2>2, <2>3, <2>5, <2>6, <2>7, <2>8, RecordChain
<1>4. ASSUME NEW tx \in Tx, ExecuteStateTransition(tx) PROVE ChainInv'
  <2>1. PICK t \in 0..MaxHeight : t = Tip
    BY TipIsHighest
  <2>2. t + 1 \in Heights /\ t + 1 = Tip + 1
    BY <1>4, <2>1, MicroLedgerAssumption DEF ExecuteStateTransition, Heights
  <2>3. Paid(accounts, tx) \in Accounts /\ <<tx>> \in Seq(Tx)
    BY <1>4, PaidType DEF ExecuteStateTransition, TypeOK
  <2>4. Record(t + 1, Paid(accounts, tx), <<tx>>)
    BY <1>4, <2>1 DEF ExecuteStateTransition
  <2>5. Tip' = t + 1
    BY <2>2, <2>3, <2>4, TipStep
  <2>6. ASSUME NEW a \in Addresses
        PROVE  Balance(Paid(accounts, tx), a) = Balance(accounts, a) + NetOf(<<tx>>, a)
    <3>1. /\ Balance(Paid(accounts, tx), a) = Balance(accounts, a) + Brings(tx, a)
          /\ Balance(accounts, a) \in Int /\ Brings(tx, a) \in Int
      BY <1>4, PaidBalance DEF ExecuteStateTransition, TypeOK
    <3>2. <<tx>> = Append(<<>>, tx) /\ <<>> \in Seq(Tx)
      OBVIOUS
    <3>3. NetOf(<<tx>>, a) = NetOf(<<>>, a) + Brings(tx, a)
      BY <3>2, NetOfTxs
    <3>4. QED
      BY <3>1, <3>3, NetOfNone
  <2>7. QED
    BY <2>1, <2>2, <2>3, <2>4, <2>5, <2>6, RecordChain
<1>5. ASSUME NEW t \in 0..MaxHeight, RollbackToHeight(t) PROVE ChainInv'
  <2>1. PICK m \in 0..MaxHeight : m = IF t < Tip THEN t ELSE Tip
    BY TipIsHighest
  <2>2. Tip' = m
    BY <1>5, <2>1, TipStep
  <2>3. QED
    BY <1>5, <2>1, <2>2, RollbackChain
<1>6. CASE UNCHANGED <<accounts, blocks, blind>> /\ (work' = None \/ UNCHANGED work)
  BY <1>6, ChainKept DEF ChainInv
<1>7. QED
  BY <1>1, <1>2, <1>3, <1>4, <1>5, <1>6
  DEF Next, vars, chainVars, RefuseTx, DropApplied, ForkConflict, Crash, CreateSnapshot

LEMMA ChainAlways == Spec => []ChainInv
<1>1. Init => ChainInv
  <2> SUFFICES ASSUME Init PROVE ChainInv
    OBVIOUS
  <2>1. \A h \in Heights : blocks[h] = None
    BY DEF Init
  <2>2. Tip = 0
    BY <2>1 DEF Tip
  <2>3. work = None /\ accounts = GenesisAccounts
    BY DEF Init
  <2>4. QED
    BY <2>2, <2>3 DEF ChainInv, ChainReplays, RootAt
<1>2. QED
  BY <1>1, ChainStep, TypeCorrect, PTL DEF Spec

\* The chain can be replayed from genesis: as long as every rollback could put
\* the accounts back, each block's state root is the one below it changed by the
\* block's own transactions, and the accounts are the root of the tip.
THEOREM ChainStaysReplayable == Spec => []ChainReplays
<1>1. ChainInv => ChainReplays
  BY DEF ChainInv
<1>2. QED
  BY <1>1, ChainAlways, PTL

-----------------------------------------------------------------------------
(* No account is overdrawn. *)

\* A funded payment of an amount that is not negative overdraws nobody.
LEMMA PaidSolvent ==
  ASSUME NEW accts \in Accounts, NEW tx \in Tx, accts[tx.sender] # None,
         accts[tx.sender] >= tx.amount, tx.amount >= 0,
         NEW a \in Addresses, Balance(accts, a) >= 0
  PROVE  Balance(Paid(accts, tx), a) >= 0
<1>1. /\ Balance(Paid(accts, tx), a) = Balance(accts, a) + Brings(tx, a)
      /\ Balance(accts, a) \in Int
  BY PaidBalance
<1>2. tx.amount \in Int /\ tx.sender \in Addresses
  BY MicroLedgerAssumption DEF Tx
<1>3. Balance(accts, tx.sender) >= tx.amount
  BY DEF Balance
<1>4. CASE tx.sender = a
  <2>1. Brings(tx, a) \in {0, -tx.amount}
    BY <1>2, <1>4 DEF Brings
  <2>2. Balance(accts, a) >= tx.amount
    BY <1>3, <1>4
  <2>3. QED
    BY <1>1, <1>2, <2>1, <2>2
<1>5. CASE tx.sender # a
  <2>1. Brings(tx, a) \in {0, tx.amount}
    BY <1>2, <1>5 DEF Brings
  <2>2. QED
    BY <1>1, <1>2, <2>1
<1>6. QED
  BY <1>4, <1>5

NoneNegative(txs) == \A i \in DOMAIN txs : txs[i].amount >= 0

Solvent(accts) == \A a \in Addresses : Balance(accounts, a) >= 0 => Balance(accts, a) >= 0

\* The block at work has overdrawn nobody unless it carries a negative amount.
WorkSolvent == work # None /\ NoneNegative(work.txs) => Solvent(work.accounts)

LEMMA SolventStep == TypeOK /\ WorkSolvent /\ [Next]_vars => WorkSolvent'
<1> SUFFICES ASSUME TypeOK, WorkSolvent, [Next]_vars PROVE WorkSolvent'
  OBVIOUS
<1>1. ASSUME NEW h \in Heights, BeginBlock(h) PROVE WorkSolvent'
  <2>1. work'.accounts = accounts /\ accounts' = accounts
    BY <1>1 DEF BeginBlock
  <2>2. QED
    BY <2>1 DEF WorkSolvent, Solvent, Balance
<1>2. ASSUME NEW tx \in Tx, ApplyTx(tx) PROVE WorkSolvent'
  <2>1. /\ work \in Work /\ work # None /\ work.accounts[tx.sender] # None
        /\ work.accounts[tx.sender] >= tx.amount
    BY <1>2 DEF ApplyTx, Funded, TypeOK
  <2>2. /\ work'.accounts = Paid(work.accounts, tx) /\ work'.txs = Append(work.txs, tx)
        /\ accounts' = accounts
    BY <1>2, <2>1 DEF ApplyTx, Work
  <2>3. ASSUME NoneNegative(work'.txs) PROVE NoneNegative(work.txs) /\ tx.amount >= 0
    <3>1. /\ DOMAIN work'.txs = 1..(Len(work.txs) + 1) /\ Len(work.txs) \in Nat
          /\ DOMAIN work.txs = 1..Len(work.txs)
          /\ work'.txs[Len(work.txs) + 1] = tx
          /\ \A i \in DOMAIN work.txs : work'.txs[i] = work.txs[i]
      BY <2>1, <2>2 DEF Work
    <3>2. /\ Len(work.txs) + 1 \in DOMAIN work'.txs
          /\ \A i \in DOMAIN work.txs : i \in DOMAIN work'.txs
      BY <3>1
    <3>3. QED
      BY <2>3, <3>1, <3>2 DEF NoneNegative
  <2>4. ASSUME NoneNegative(work'.txs), NEW a \in Addresses, Balance(accounts, a) >= 0
        PROVE  Balance(work'.accounts, a) >= 0
    <3>1. Balance(work.accounts, a) >= 0 /\ tx.amount >= 0
      BY <2>1, <2>3, <2>4 DEF WorkSolvent, Solvent
    <3>2. QED
      BY <2>1, <2>2, <3>1, PaidSolvent DEF Work
  <2>5. NoneNegative(work'.txs) =>
          \A a \in Addresses : Balance(accounts', a) >= 0 => Balance(work'.accounts, a) >= 0
    BY <2>2, <2>4
  <2>6. QED
    BY <2>5, Zenon DEF WorkSolvent, Solvent, NoneNegative, Balance
<1>3. CASE work' = None
  BY <1>3 DEF WorkSolvent
<1>4. CASE UNCHANGED <<work, accounts>>
  BY <1>4 DEF WorkSolvent, Solvent, Balance, NoneNegative
<1>5. QED
  BY <1>1, <1>2, <1>3, <1>4
  DEF Next, vars, chainVars, RefuseTx, CommitBlock, Record, ForkConflict, Crash,
      ExecuteStateTransition, RollbackToHeight, CreateSnapshot

\* What a recorded block did to the balances.
LEMMA RecordSolvent ==
  ASSUME TypeOK, ChainInv, NEW h \in Heights, h = Tip + 1,
         NEW accts \in Accounts, NEW txs \in Seq(Tx), Record(h, accts, txs),
         NoneNegative(txs) => Solvent(accts),
         NEW a \in Addresses, Balance(accounts, a) >= 0, Balance(accounts', a) < 0
  PROVE  \E i \in DOMAIN blocks'[Tip'].txs : blocks'[Tip'].txs[i].amount < 0
<1>1. Tip' = h
  BY TipStep
<1>2. blocks'[h] = [state_root |-> accts, txs |-> txs] /\ accounts' = accts
  BY DEF Record, TypeOK
<1>3. blocks'[Tip'].txs = txs
  BY <1>1, <1>2
<1>4. Balance(accts, a) < 0 /\ Balance(accts, a) \in Int
  BY <1>2 DEF Accounts, Balance
<1>5. ~NoneNegative(txs)
  BY <1>4 DEF Solvent
<1>6. PICK i \in DOMAIN txs : ~(txs[i].amount >= 0)
  BY <1>5 DEF NoneNegative
<1>7. txs[i].amount \in Int
  <2>1. txs[i] \in Tx
    OBVIOUS
  <2>2. \A tx \in Tx : tx.amount \in Int
    BY MicroLedgerAssumption DEF Tx
  <2>3. QED
    BY <2>1, <2>2
<1>8. QED
  BY <1>3, <1>6, <1>7

\* A block never overdraws an account unless it carries a negative amount: each
\* of its payments is tested against what the ones before it have left.
THEOREM NothingIsOverdrawn == Spec => NoDoubleSpendInBlock
<1> DEFINE Overdraws(a) ==
      /\ Tip' > Tip
      /\ Balance(accounts, a) >= 0 /\ Balance(accounts', a) < 0
      => \E i \in DOMAIN blocks'[Tip'].txs : blocks'[Tip'].txs[i].amount < 0
<1>1. TypeOK /\ ChainInv /\ WorkSolvent /\ [Next]_vars
        => [\A a \in Addresses : Overdraws(a)]_vars
  <2> SUFFICES ASSUME TypeOK, ChainInv, WorkSolvent, [Next]_vars, NEW a \in Addresses,
                      Tip' > Tip, Balance(accounts, a) >= 0, Balance(accounts', a) < 0
               PROVE  \E i \in DOMAIN blocks'[Tip'].txs : blocks'[Tip'].txs[i].amount < 0
    OBVIOUS
  <2>1. Tip \in 0..MaxHeight
    BY TipIsHighest
  <2>2. CASE CommitBlock
    <3>1. work \in Work /\ work # None /\ blocks[work.height] = None
      BY <2>2 DEF CommitBlock, TypeOK
    <3>2. work.height \in Heights /\ work.accounts \in Accounts /\ work.txs \in Seq(Tx)
      BY <3>1 DEF Work
    <3>3. work.height <= Tip + 1 /\ \A h \in 1..Tip : blocks[h] # None
      BY <3>1 DEF ChainInv
    <3>4. work.height = Tip + 1
      BY <2>1, <3>1, <3>2, <3>3, MicroLedgerAssumption DEF Heights
    <3>5. NoneNegative(work.txs) => Solvent(work.accounts)
      BY <3>1 DEF WorkSolvent
    <3>6. Record(work.height, work.accounts, work.txs)
      BY <2>2 DEF CommitBlock
    <3>7. QED
      BY <3>2, <3>4, <3>5, <3>6, RecordSolvent
  <2>3. ASSUME NEW tx \in Tx, ExecuteStateTransition(tx)
        PROVE  \E i \in DOMAIN blocks'[Tip'].txs : blocks'[Tip'].txs[i].amount < 0
    <3>1. Tip + 1 \in Heights
      BY <2>1, <2>3, MicroLedgerAssumption DEF ExecuteStateTransition, Heights
    <3>2. Paid(accounts, tx) \in Accounts /\ <<tx>> \in Seq(Tx)
      BY <2>3, PaidType DEF ExecuteStateTransition, TypeOK
    <3>3. NoneNegative(<<tx>>) => tx.amount >= 0
      BY DEF NoneNegative
    <3>4. NoneNegative(<<tx>>) => Solvent(Paid(accounts, tx))
      BY <2>3, <3>3, PaidSolvent DEF ExecuteStateTransition, TypeOK, Solvent
    <3>5. Record(Tip + 1, Paid(accounts, tx), <<tx>>)
      BY <2>3 DEF ExecuteStateTransition
    <3>6. QED
      BY <3>1, <3>2, <3>4, <3>5, RecordSolvent
  <2>4. ASSUME NEW t \in 0..MaxHeight, RollbackToHeight(t) PROVE FALSE
    <3>1. Tip' = IF t < Tip THEN t ELSE Tip
      BY <2>4, TipStep
    <3>2. QED
      BY <2>1, <3>1
  <2>5. CASE UNCHANGED blocks
    <3>1. Tip' = Tip
      BY <2>5 DEF Tip
    <3>2. QED
      BY <2>1, <3>1
  <2>6. QED
    BY <2>2, <2>3, <2>4, <2>5
    DEF Next, vars, chainVars, BeginBlock, ApplyTx, RefuseTx, ForkConflict, Crash,
        CreateSnapshot
<1>2. Init => WorkSolvent
  BY DEF Init, WorkSolvent
<1>3. QED
  BY <1>1, <1>2, SolventStep, TypeCorrect, ChainAlways, PTL
  DEF Spec, NoDoubleSpendInBlock

=============================================================================
