----------------------------- MODULE TokenLedger -----------------------------
(***************************************************************************)
(* The file-backed ledger of the Node gateway                              *)
(* (server/services/tokenLedger.ts) with the hardware token it asks before *)
(* the administrators' 51% stake may move, and the handlers of server.ts   *)
(* that call it.                                                           *)
(*                                                                         *)
(* A handler runs to its end before the next one starts; what it changes   *)
(* in memory is one step here, with the hardware readings it took as       *)
(* choices (a token pulled or plugged in the middle shows as a probe that  *)
(* answered "no").  Each saveState it calls is a snapshot in "saves", and  *)
(* the two writeFileSync of a snapshot are steps of their own, so that the *)
(* process can die, or the disk refuse, between and inside them.           *)
(***************************************************************************)
EXTENDS HardwareToken, Integers, Sequences, TLC

CONSTANTS
  Users,        \* wallet ids of the public
  AdminEmailed, \* those among them whose transfers carry ADMIN_EMAIL
  Admins,       \* the seeded keys: ADMIN_EMAIL and 'operator_alpha'
  Bonus,        \* NEW_USER_WELCOME_BONUS
  Stake,        \* ADMIN_STAKE_51
  Amounts,      \* amounts of a transfer (the handlers refuse those <= 0)
  MintAmounts,  \* amounts of a mint, of either sign (0 is replaced by 50)
  HistoryCap,   \* 200: what a transfer keeps of the history
  NoAccount, NoFile, Torn,
  MaxTx,        \* bound on the length of the history
  MaxBalance,   \* bound on the size of a balance
  MaxFailures   \* bound on the number of crashes and failed writes

ASSUME TokenLedgerAssumption ==
  /\ AdminEmailed \subseteq Users /\ Users \cap Admins = {}
  /\ Bonus \in Nat /\ Stake \in Nat
  /\ Amounts \subseteq Nat \ {0} /\ MintAmounts \subseteq Int \ {0}
  /\ NoAccount \notin Int
  /\ HistoryCap \in Nat \ {0} /\ MaxTx \in Nat
  /\ MaxBalance \in Nat /\ MaxFailures \in Nat

VARIABLES
  running,        \* the server process is up
  ledgers,        \* wallet id -> balance, or NoAccount
  transactions,   \* newest first
  saves,          \* the writes the current handler has yet to do
  ledgerFile, txFile,
  failures,       \* counts crashes and failed writes, for their bound
  \* history variables, which no step reads:
  unsaved,        \* a write has failed since the last complete save
  split,          \* the files are not the two halves of one save
  disturbed,      \* a start read split files, or the history was cut to the cap
  ledgerLost      \* a start found ledgers.json unreadable

memory == <<ledgers, transactions>>
disk   == <<ledgerFile, txFile>>
ghosts == <<unsaved, split, disturbed, ledgerLost>>
vars   == <<tokenVars, running, memory, saves, disk, failures, ghosts>>

Ids == Users \cup Admins

Balances == [Ids -> Int \cup {NoAccount}]

TxRecord == [type : {"genesis", "mint"}, to : Ids, amount : Int]
            \cup [type : {"transfer", "shielded"}, from : Ids, to : Ids, amount : Int]

\* A file that is missing, or is not JSON, is neither a ledger nor a history.
ASSUME FileAssumption ==
  \A mark \in {NoFile, Torn} : mark \notin Balances /\ mark \notin Seq(TxRecord)

\* What a handler works on and saveState writes.
Contents == [led |-> ledgers, txs |-> transactions]

-----------------------------------------------------------------------------
(* getBalance, on the pair of ledger and history it works on. *)

\* isMasterAdmin; only the sender of a transfer is looked up with an email.
IsMasterAdmin(id, withEmail) == id \in Admins \/ (withEmail /\ id \in AdminEmailed)

Without(st, id) == st.led[id] = NoAccount

\* Mutant: a welcome bonus that the history does not show.
OpenedUnrecorded(st, id, admin, v) ==
  IF ~admin /\ Without(st, id) THEN [st EXCEPT !.led[id] = Bonus] ELSE st

\* The state getBalance leaves behind when the token reading is v: the
\* administrator's record is topped up to the stake, an unknown user gets an
\* account with the welcome bonus.
Opened(st, id, admin, v) ==
  IF admin
  THEN IF v /\ (Without(st, id) \/ st.led[id] < Stake)
       THEN [st EXCEPT !.led[id] = Stake]
       ELSE st
  ELSE IF Without(st, id)
       THEN [led |-> [st.led EXCEPT ![id] = Bonus],
             txs |-> <<[type |-> "genesis", to |-> id, amount |-> Bonus]>> \o st.txs]
       ELSE st

\* The balance it returns.
GetBalance(st, id, admin, v) ==
  IF admin /\ ~v THEN 0 ELSE Opened(st, id, admin, v).led[id]

\* Mutant: the history is written before the ledger.
HistoryFirst(st) ==
  <<[file |-> "transactions", data |-> st.txs], [file |-> "ledgers", data |-> st.led]>>

\* saveState: two writes, in this order.
SaveState(st) ==
  <<[file |-> "ledgers", data |-> st.led], [file |-> "transactions", data |-> st.txs]>>

\* Mutant: getBalance leaves the new account in memory.
SaveNever(old, new) == <<>>

\* getBalance saves only when it changed something.
SaveIfNew(old, new) == IF new = old THEN <<>> ELSE SaveState(new)

Bounded(st) ==
  /\ Len(st.txs) <= MaxTx
  /\ \A id \in Ids : ~Without(st, id) => st.led[id] \in -MaxBalance..MaxBalance

\* The end of a handler: memory becomes st, and queue waits to be written.
Finish(st, queue) ==
  /\ Bounded(st)
  /\ ledgers' = st.led /\ transactions' = st.txs
  /\ saves' = queue
  /\ UNCHANGED <<physical, running, disk, failures, unsaved, split, ledgerLost>>

Ready == running /\ saves = <<>>

-----------------------------------------------------------------------------
(* The handlers. *)

\* POST /api/tokens/balance.  For an administrator getBalanceInfo answers from
\* the token alone and leaves the ledger as it is.
ReadBalance(id) ==
  \E v \in CheckStatus(FALSE) :
    LET st == IF id \in Admins THEN Contents ELSE Opened(Contents, id, FALSE, v) IN
    /\ Ready
    /\ Settle(v)
    /\ Finish(st, SaveIfNew(Contents, st))
    /\ UNCHANGED disturbed

\* Mutant: the sovereign transfer trusts the cached reading.
EnforceCached == CheckStatus(FALSE)

\* enforceAttached asks the hardware, never the cache.
EnforceAttached == CheckStatus(TRUE)

Funded(st, id, admin, v, amount) == GetBalance(st, id, admin, v) >= amount

\* The rest of transfer once the sender may spend: v1 and v2 are the readings
\* taken for the sender's and for the receiver's balance.
Settlement(s, r, amount, type, v1, v2) ==
  LET admin == IsMasterAdmin(s, TRUE)
      s1 == Opened(Contents, s, admin, v1)
      s2 == Opened(s1, r, IsMasterAdmin(r, FALSE), v2)
      newSender == GetBalance(Contents, s, admin, v1) - amount
      newReceiver == GetBalance(s1, r, IsMasterAdmin(r, FALSE), v2) + amount
      history == <<[type |-> type, from |-> s, to |-> r, amount |-> amount]>> \o s2.txs
      s3 == [led |-> [s2.led EXCEPT ![s] = newSender, ![r] = newReceiver],
             txs |-> SubSeq(history, 1, IF Len(history) > HistoryCap
                                        THEN HistoryCap ELSE Len(history))]
  IN IF Funded(Contents, s, admin, v1, amount)
     THEN /\ Finish(s3, SaveIfNew(Contents, s1) \o SaveIfNew(s1, s2) \o SaveState(s3))
          /\ disturbed' = (disturbed \/ Len(history) > HistoryCap)
     ELSE /\ Finish(s1, SaveIfNew(Contents, s1))      \* "Insufficient balance"
          /\ UNCHANGED disturbed

\* POST /api/tokens/transfer by anybody but an administrator.
Transfer(s, r, amount) ==
  /\ Ready
  /\ s # r
  /\ ~IsMasterAdmin(s, TRUE)
  /\ \E v \in CheckStatus(FALSE) :
        Settle(v) /\ Settlement(s, r, amount, "transfer", v, v)

\* The same by an administrator: halted without the token, and refused with
\* HARDWARE_AUTH_REQUIRED when the token is there.
AdminTransferRefused ==
  /\ Ready
  /\ \E v \in EnforceAttached : Settle(v)
  /\ UNCHANGED <<physical, running, memory, saves, disk, failures, ghosts>>

\* POST /api/v1/vault/hardware-transfer: the token first, whoever the sender is.
\* The bridge to the token's chip takes seconds, so every later reading is new.
HardwareTransfer(s, r, amount) ==
  /\ Ready
  /\ s # r
  /\ TRUE \in EnforceAttached
  /\ \E v1, v2 \in BOOLEAN :
        /\ (r \in Admins \/ v2 = v1)
        /\ Settle(v2)
        /\ Settlement(s, r, amount, "shielded", v1, v2)

HardwareTransferHalted ==
  /\ Ready
  /\ FALSE \in EnforceAttached
  /\ Settle(FALSE)
  /\ UNCHANGED <<physical, running, memory, saves, disk, failures, ghosts>>

\* POST /api/tokens/mint and the two APK builds, which mint for operator_alpha.
Mint(id, amount) ==
  \E v \in IF id \in Admins THEN CheckStatus(FALSE) ELSE {attached} :
    LET admin == IsMasterAdmin(id, FALSE)
        s1 == Opened(Contents, id, admin, v)
        s2 == [led |-> [s1.led EXCEPT ![id] = GetBalance(Contents, id, admin, v) + amount],
               txs |-> <<[type |-> "mint", to |-> id, amount |-> amount]>> \o s1.txs]
    IN /\ Ready
       /\ IF id \in Admins THEN Settle(v) ELSE UNCHANGED <<attached, fresh>>
       /\ Finish(s2, SaveIfNew(Contents, s1) \o SaveState(s2))
       /\ UNCHANGED disturbed

-----------------------------------------------------------------------------
(* The writes of saveState, crashes and starts. *)

Half == Head(saves)

\* How many writes the saveState at work has left.
HalvesLeft == IF Len(saves) % 2 = 0 THEN 2 ELSE 1

WriteLedger ==
  /\ saves # <<>>
  /\ Half.file = "ledgers"
  /\ ledgerFile' = Half.data
  /\ saves' = Tail(saves)
  /\ split' = TRUE
  /\ UNCHANGED <<tokenVars, running, memory, txFile, failures, unsaved, disturbed, ledgerLost>>

WriteTransactions ==
  /\ saves # <<>>
  /\ Half.file = "transactions"
  /\ txFile' = Half.data
  /\ saves' = Tail(saves)
  /\ split' = FALSE
  /\ unsaved' = FALSE
  /\ UNCHANGED <<tokenVars, running, memory, ledgerFile, failures, disturbed, ledgerLost>>

\* A write that stops half way leaves a file that is not JSON.
TearHalf(torn) ==
  /\ ledgerFile' = IF torn /\ Half.file = "ledgers" THEN Torn ELSE ledgerFile
  /\ txFile' = IF torn /\ Half.file = "transactions" THEN Torn ELSE txFile
  /\ split' = (split \/ torn)

\* The exception is logged; what is left of this saveState is skipped.
WriteFails(torn) ==
  /\ saves # <<>>
  /\ failures < MaxFailures /\ failures' = failures + 1
  /\ TearHalf(torn)
  /\ saves' = SubSeq(saves, HalvesLeft + 1, Len(saves))
  /\ unsaved' = TRUE
  /\ UNCHANGED <<tokenVars, running, memory, disturbed, ledgerLost>>

\* The process dies; in the middle of a write the file may be left torn.
Crash(torn) ==
  /\ running
  /\ failures < MaxFailures /\ failures' = failures + 1
  /\ IF saves = <<>> THEN ~torn /\ UNCHANGED <<disk, split>> ELSE TearHalf(torn)
  /\ running' = FALSE
  /\ attached' = FALSE /\ fresh' = FALSE
  /\ ledgers' = [id \in Ids |-> NoAccount] /\ transactions' = <<>>
  /\ saves' = <<>>
  /\ UNCHANGED <<physical, unsaved, disturbed, ledgerLost>>

Readable(file) == file \notin {NoFile, Torn}

\* Mutant: only the administrators' records survive a start.
SeededAdminsOnly(led) == [id \in Admins |-> Stake]

\* The administrators' records are put back at the stake.
Seeded(led) ==
  [id \in Ids |-> IF id \in Admins /\ (led[id] = NoAccount \/ led[id] < Stake)
                  THEN Stake ELSE led[id]]

\* A new process: the detector's first probe, then loadState, which takes an
\* unreadable file for an empty one, and its saveState.
Start ==
  LET led == IF Readable(ledgerFile) THEN ledgerFile ELSE [id \in Ids |-> NoAccount]
      txs == IF Readable(txFile) THEN txFile ELSE <<>>
      loaded == [led |-> Seeded(led), txs |-> txs]
  IN /\ ~running
     /\ running' = TRUE
     /\ \E v \in CheckStatus(TRUE) : Settle(v)
     /\ ledgers' = loaded.led /\ transactions' = loaded.txs
     /\ saves' = SaveState(loaded)
     /\ unsaved' = FALSE
     /\ disturbed' = (disturbed \/ split)
     /\ ledgerLost' = (ledgerLost \/ ledgerFile = Torn)
     /\ UNCHANGED <<physical, disk, failures, split>>

Init ==
  /\ physical \in BOOLEAN /\ attached = FALSE /\ fresh = FALSE
  /\ running = FALSE
  /\ ledgers = [id \in Ids |-> NoAccount] /\ transactions = <<>>
  /\ saves = <<>>
  /\ ledgerFile = NoFile /\ txFile = NoFile
  /\ failures = 0
  /\ unsaved = FALSE /\ split = FALSE /\ disturbed = FALSE /\ ledgerLost = FALSE

\* The port and the clock, at any time; between two handlers is enough, for no
\* write looks at them.
TokenStep ==
  /\ saves = <<>>
  /\ Plug \/ Unplug \/ Age
  /\ UNCHANGED <<running, memory, saves, disk, failures, ghosts>>

Poll == /\ Ready
        /\ PollToken
        /\ UNCHANGED <<running, memory, saves, disk, failures, ghosts>>

Next ==
  \/ \E id \in Ids : ReadBalance(id)
  \/ \E s, r \in Ids, amount \in Amounts : Transfer(s, r, amount)
  \/ AdminTransferRefused
  \/ \E s, r \in Ids, amount \in Amounts : HardwareTransfer(s, r, amount)
  \/ HardwareTransferHalted
  \/ \E id \in Ids, amount \in MintAmounts : Mint(id, amount)
  \/ WriteLedger
  \/ WriteTransactions
  \/ \E torn \in BOOLEAN : WriteFails(torn)
  \/ \E torn \in BOOLEAN : Crash(torn)
  \/ Start
  \/ TokenStep
  \/ Poll

Spec == Init /\ [][Next]_vars

\* A handler's writes return; Node runs a timer that is due before it takes the
\* next request again and again, however many requests there are.
Fairness == /\ WF_vars(WriteLedger \/ WriteTransactions)
            /\ SF_vars(Poll)

LiveSpec == Spec /\ Fairness

-----------------------------------------------------------------------------
(* Properties. *)

\* The type of every variable.
TypeOK ==
  /\ physical \in BOOLEAN /\ attached \in BOOLEAN /\ fresh \in BOOLEAN
  /\ running \in BOOLEAN
  /\ ledgers \in Balances
  /\ transactions \in Seq(TxRecord)
  /\ saves \in Seq([file : {"ledgers"}, data : Balances]
                   \cup [file : {"transactions"}, data : Seq(TxRecord)])
  /\ ledgerFile \in Balances \cup {NoFile, Torn}
  /\ txFile \in Seq(TxRecord) \cup {NoFile, Torn}
  /\ failures \in 0..MaxFailures
  /\ unsaved \in BOOLEAN /\ split \in BOOLEAN
  /\ disturbed \in BOOLEAN /\ ledgerLost \in BOOLEAN

\* What a handler answered is on the disk: between handlers both files hold
\* what memory holds, unless a write has failed since.
SavedWhenAnswered ==
  Ready /\ ~unsaved => ledgerFile = ledgers /\ txFile = transactions

\* The order of the two writes matters: a crash between them never makes a
\* start hand out a welcome bonus the history already shows, as long as the
\* ledger file can be read.
OneWelcomeBonus ==
  ~ledgerLost =>
    \A i, j \in DOMAIN transactions :
       /\ transactions[i].type = "genesis" /\ transactions[j].type = "genesis"
       /\ transactions[i].to = transactions[j].to
       => i = j

CreditTo(id, tx) == IF tx.to = id THEN tx.amount ELSE 0
DebitOf(id, tx) ==
  IF tx.type \in {"transfer", "shielded"} /\ tx.from = id THEN tx.amount ELSE 0

\* What the transactions txs brought the wallet id, less what they took from it.
Net(txs, id) ==
  LET after[i \in 0 .. Len(txs)] ==
        IF i = 0 THEN 0
        ELSE after[i - 1] + CreditTo(id, txs[i]) - DebitOf(id, txs[i])
  IN  after[Len(txs)]

\* The history explains the ledger: an ordinary wallet's balance is the sum of
\* what the recorded transactions brought and took, as long as the history is
\* whole and no start has read files of two different saves.
LedgerMatchesHistory ==
  running /\ ~disturbed =>
    \A id \in Users \ AdminEmailed :
       Net(transactions, id) = IF ledgers[id] = NoAccount THEN 0 ELSE ledgers[id]

\* "INSTANT TRANSFER STOP" (tokenLedger.ts:246): a transfer out of an
\* administrator's wallet is recorded only while the token is in its port.
AdminSpendsOnlyAttached ==
  [][/\ running /\ running' /\ transactions' # transactions
     /\ Head(transactions').type \in {"transfer", "shielded"}
     /\ IsMasterAdmin(Head(transactions').from, TRUE)
     => physical]_vars

\* "Cold Hardware Isolation": a token that stays out of its port stops being
\* reported as attached.
RemovalIsNoticed == ~physical ~> (~attached \/ physical)

\* enforceAttached's message says that without the token "all sovereign transfers
\* and stake operations are permanently halted": no step should lower an
\* administrator's balance while the token is seen as detached.  The code does
\* not keep to it.
DetachedStakeUntouched ==
  [][running /\ running' /\ ~physical /\ ~attached
       => \A id \in Admins : ledgers'[id] >= ledgers[id]]_vars

=============================================================================
