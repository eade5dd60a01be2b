-------------------------- MODULE TokenLedgerProofs --------------------------
(***************************************************************************)
(* Proofs about TokenLedger for every set of wallets, every bonus, stake,  *)
(* amount and history cap, and every number of crashes and failed writes.  *)
(***************************************************************************)
EXTENDS TokenLedger, FiniteInduction, TLAPS

\* What one writeFileSync writes, and what a handler works on.
Writes == [file : {"ledgers"}, data : Balances]
          \cup [file : {"transactions"}, data : Seq(TxRecord)]
States == [led : Balances, txs : Seq(TxRecord)]

LedgerWrites(q)  == {k \in DOMAIN q : q[k].file = "ledgers"}
HistoryWrites(q) == {k \in DOMAIN q : q[k].file = "transactions"}

-----------------------------------------------------------------------------
(* The welcome bonus: whom a history shows to have had it, and who has an    *)
(* account in a ledger.                                                      *)

Accounts(led) == {id \in Ids : led[id] # NoAccount}
Welcomed(txs) == {txs[i].to : i \in {j \in DOMAIN txs : txs[j].type = "genesis"}}
OneEach(txs) ==
  \A i, j \in DOMAIN txs :
     /\ txs[i].type = "genesis" /\ txs[j].type = "genesis"
     /\ txs[i].to = txs[j].to
     => i = j

\* Nobody was welcomed twice, and whoever was welcomed has an account.
Sane(st) == OneEach(st.txs) /\ Welcomed(st.txs) \subseteq Accounts(st.led)

\* st may follow old: no account is closed, and no bonus is paid twice.
Grown(old, st) ==
  Accounts(old.led) \subseteq Accounts(st.led) /\ (Sane(old) => Sane(st))

\* Each history that q writes is sane, and covered by the ledgers that are in
\* the file when it is written and afterwards.
Covered(q, led) ==
  \A j \in HistoryWrites(q) :
     /\ OneEach(q[j].data)
     /\ Welcomed(q[j].data) \subseteq Accounts(led)
     /\ \A k \in LedgerWrites(q) :
           j <= k + 1 => Welcomed(q[j].data) \subseteq Accounts(q[k].data)

\* The order in which saveState writes: ... ledgers, transactions, and the
\* history last.
Alternate(q) ==
  \A k \in DOMAIN q :
     q[k].file = IF (Len(q) - k) % 2 = 0 THEN "transactions" ELSE "ledgers"

\* What a handler that took old to st leaves to be written.
Wrote(q, old, st) ==
  /\ q \in Seq(Writes) /\ Len(q) % 2 = 0
  /\ Alternate(q)
  /\ IF q = <<>>
     THEN st = old
     ELSE q[Len(q) - 1].data = st.led /\ q[Len(q)].data = st.txs
  /\ Grown(old, st)
  /\ Sane(old) => Covered(q, st.led)
  /\ \A k \in LedgerWrites(q) : Accounts(old.led) \subseteq Accounts(q[k].data)

-----------------------------------------------------------------------------
(* Queues of writes. *)

\* A save at the end of a queue.
LEMMA AppendSave ==
  ASSUME NEW q \in Seq(Writes), NEW st \in States
  PROVE  /\ q \o SaveState(st) \in Seq(Writes)
         /\ Len(q \o SaveState(st)) = Len(q) + 2
         /\ \A k \in 1 .. Len(q) : (q \o SaveState(st))[k] = q[k]
         /\ (q \o SaveState(st))[Len(q) + 1] = [file |-> "ledgers", data |-> st.led]
         /\ (q \o SaveState(st))[Len(q) + 2] = [file |-> "transactions", data |-> st.txs]
<1> DEFINE a == [file |-> "ledgers", data |-> st.led]
           b == [file |-> "transactions", data |-> st.txs]
<1>1. a \in Writes /\ b \in Writes
  BY DEF Writes, States
<1>2. SaveState(st) = <<a, b>>
  BY DEF SaveState
<1> HIDE DEF a, b
<1>3. /\ q \o <<a, b>> \in Seq(Writes)
      /\ Len(q \o <<a, b>>) = Len(q) + 2
      /\ \A k \in 1 .. Len(q) : (q \o <<a, b>>)[k] = q[k]
      /\ (q \o <<a, b>>)[Len(q) + 1] = a
      /\ (q \o <<a, b>>)[Len(q) + 2] = b
  BY <1>1
<1>4. QED
  BY <1>2, <1>3 DEF a, b

LEMMA WroteNothing ==
  ASSUME NEW st \in States
  PROVE  Wrote(<<>>, st, st)
BY DEF Wrote, Alternate, Grown, Covered, LedgerWrites, HistoryWrites

\* A save of what grew out of the last one.
LEMMA WroteNext ==
  ASSUME NEW old \in States, NEW s \in States, NEW st \in States,
         NEW q, Wrote(q, old, s), Grown(s, st)
  PROVE  Wrote(q \o SaveState(st), old, st)
<1> DEFINE r == q \o SaveState(st)
<1>1. q \in Seq(Writes) /\ Len(q) % 2 = 0 /\ Alternate(q)
  BY DEF Wrote
<1>2. /\ r \in Seq(Writes)
      /\ Len(r) = Len(q) + 2
      /\ \A k \in 1 .. Len(q) : r[k] = q[k]
      /\ r[Len(q) + 1] = [file |-> "ledgers", data |-> st.led]
      /\ r[Len(q) + 2] = [file |-> "transactions", data |-> st.txs]
  BY <1>1, AppendSave
<1> HIDE DEF r
<1>3. Len(q) \in Nat /\ DOMAIN q = 1 .. Len(q) /\ DOMAIN r = 1 .. Len(q) + 2
  BY <1>1, <1>2
<1>4. Len(r) % 2 = 0
  BY <1>1, <1>2, <1>3
<1>5. Alternate(r)
  <2> SUFFICES ASSUME NEW k \in 1 .. Len(q) + 2
               PROVE  r[k].file = IF (Len(q) + 2 - k) % 2 = 0
                                  THEN "transactions" ELSE "ledgers"
    BY <1>2, <1>3 DEF Alternate
  <2>1. CASE k = Len(q) + 1
    BY <2>1, <1>2, <1>3
  <2>2. CASE k = Len(q) + 2
    BY <2>2, <1>2, <1>3
  <2>3. CASE k \in 1 .. Len(q)
    <3>1. q[k].file = IF (Len(q) - k) % 2 = 0 THEN "transactions" ELSE "ledgers"
      BY <1>1, <1>3, <2>3 DEF Alternate
    <3>2. (Len(q) + 2 - k) % 2 = (Len(q) - k) % 2
      BY <1>3, <2>3
    <3>3. QED
      BY <3>1, <3>2, <1>2, <2>3
  <2>4. QED
    BY <1>3, <2>1, <2>2, <2>3
<1>6. r # <<>> /\ r[Len(r) - 1].data = st.led /\ r[Len(r)].data = st.txs
  BY <1>2, <1>3
<1>7. LedgerWrites(r) = LedgerWrites(q) \cup {Len(q) + 1}
  BY <1>2, <1>3 DEF LedgerWrites
<1>8. HistoryWrites(r) = HistoryWrites(q) \cup {Len(q) + 2}
  BY <1>2, <1>3 DEF HistoryWrites
<1>9. Accounts(old.led) \subseteq Accounts(s.led) /\ Accounts(s.led) \subseteq Accounts(st.led)
  BY DEF Wrote, Grown
<1>10. Grown(old, st)
  BY <1>9 DEF Wrote, Grown
<1>11. ASSUME NEW k \in LedgerWrites(r)
       PROVE  Accounts(old.led) \subseteq Accounts(r[k].data)
  BY <1>2, <1>3, <1>7, <1>9 DEF Wrote, LedgerWrites
<1>12. ASSUME Sane(old) PROVE Covered(r, st.led)
  <2>1. Sane(st) /\ Covered(q, s.led)
    BY <1>10, <1>12 DEF Wrote, Grown
  <2>2. ASSUME NEW j \in HistoryWrites(r)
        PROVE  /\ OneEach(r[j].data)
               /\ Welcomed(r[j].data) \subseteq Accounts(st.led)
               /\ \A k \in LedgerWrites(r) :
                    j <= k + 1 => Welcomed(r[j].data) \subseteq Accounts(r[k].data)
    <3>1. CASE j \in HistoryWrites(q)
      <4>1. j \in 1 .. Len(q) /\ r[j] = q[j]
        BY <3>1, <1>2, <1>3 DEF HistoryWrites
      <4>2. OneEach(q[j].data) /\ Welcomed(q[j].data) \subseteq Accounts(st.led)
        BY <3>1, <2>1, <1>9 DEF Covered
      <4>3. ASSUME NEW k \in LedgerWrites(r), j <= k + 1
            PROVE  Welcomed(q[j].data) \subseteq Accounts(r[k].data)
        <5>1. CASE k = Len(q) + 1
          BY <5>1, <4>2, <1>2
        <5>2. CASE k \in LedgerWrites(q)
          <6>1. r[k] = q[k]
            BY <5>2, <1>2, <1>3 DEF LedgerWrites
          <6>2. QED
            BY <6>1, <5>2, <4>3, <3>1, <2>1 DEF Covered
        <5>3. QED
          BY <5>1, <5>2, <1>7
      <4>4. QED
        BY <4>1, <4>2, <4>3
    <3>2. CASE j = Len(q) + 2
      <4>1. r[j].data = st.txs
        BY <3>2, <1>2
      <4>2. ASSUME NEW k \in LedgerWrites(r), j <= k + 1
            PROVE  r[k].data = st.led
        <5>1. k = Len(q) + 1
          BY <4>2, <3>2, <1>3, <1>7 DEF LedgerWrites
        <5>2. QED
          BY <5>1, <1>2
      <4>3. QED
        BY <4>1, <4>2, <2>1 DEF Sane
    <3>3. QED
      BY <3>1, <3>2, <1>8
  <2>3. QED
    BY <2>2 DEF Covered
<1>13. QED
  BY <1>2, <1>4, <1>5, <1>6, <1>10, <1>11, <1>12 DEF Wrote, r

LEMMA WroteIfNew ==
  ASSUME NEW old \in States, NEW s \in States, NEW st \in States,
         NEW q, Wrote(q, old, s), Grown(s, st)
  PROVE  Wrote(q \o SaveIfNew(s, st), old, st)
<1>1. CASE s = st
  <2>1. q \o <<>> = q
    BY DEF Wrote
  <2>2. QED
    BY <1>1, <2>1 DEF SaveIfNew
<1>2. CASE s # st
  BY <1>2, WroteNext DEF SaveIfNew
<1>3. QED
  BY <1>1, <1>2

-----------------------------------------------------------------------------
(* The sum over a history. *)

Entry(id, tx) == CreditTo(id, tx) - DebitOf(id, tx)

\* The sums after the first n transactions, as Net defines them.
Sums(n, txs, id, f) ==
  f = [i \in 0 .. n |->
         IF i = 0 THEN 0 ELSE f[i - 1] + CreditTo(id, txs[i]) - DebitOf(id, txs[i])]

LEMMA SumsExist ==
  ASSUME NEW txs, NEW id, NEW n \in Nat
  PROVE  \E f : Sums(n, txs, id, f)
<1> DEFINE step(x, i) == x + CreditTo(id, txs[i]) - DebitOf(id, txs[i])
           S == {m \in Nat : \E f : Sums(m, txs, id, f)}
<1>1. 0 \in S
  <2> DEFINE f == [i \in 0 .. 0 |-> 0]
  <2>1. f = [i \in 0 .. 0 |-> IF i = 0 THEN 0 ELSE step(f[i - 1], i)]
    <3>1. \A i \in 0 .. 0 : i = 0
      OBVIOUS
    <3> HIDE DEF step
    <3>2. QED
      BY <3>1
  <2>2. QED
    BY <2>1 DEF Sums
<1>2. ASSUME NEW m \in Nat, m \in S PROVE m + 1 \in S
  <2>1. PICK f : Sums(m, txs, id, f)
    BY <1>2
  <2> DEFINE g == [i \in 0 .. m + 1 |-> IF i = m + 1 THEN step(f[m], i) ELSE f[i]]
  <2>2. \A i \in 0 .. m : f[i] = IF i = 0 THEN 0 ELSE step(f[i - 1], i)
    BY <2>1 DEF Sums
  <2> HIDE DEF step
  <2>3. \A i \in 0 .. m + 1 : g[i] = IF i = 0 THEN 0 ELSE step(g[i - 1], i)
    <3> SUFFICES ASSUME NEW i \in 0 .. m + 1
                 PROVE  g[i] = IF i = 0 THEN 0 ELSE step(g[i - 1], i)
      OBVIOUS
    <3>1. CASE i = 0
      <4>1. 0 \in 0 .. m /\ i # m + 1
        BY <3>1
      <4>2. g[i] = f[0] /\ f[0] = 0
        BY <2>2, <3>1, <4>1
      <4>3. QED
        BY <3>1, <4>2, Zenon
    <3>2. CASE i # 0 /\ i # m + 1
      <4>1. i \in 0 .. m /\ i - 1 \in 0 .. m
        BY <3>2
      <4>2. g[i] = f[i] /\ g[i - 1] = f[i - 1]
        BY <3>2, <4>1
      <4>3. f[i] = step(f[i - 1], i)
        BY <2>2, <3>2, <4>1
      <4>4. QED
        BY <3>2, <4>2, <4>3, Zenon
    <3>3. CASE i = m + 1
      <4>1. i # 0 /\ i - 1 = m /\ m \in 0 .. m + 1 /\ m # m + 1
        BY <3>3
      <4>2. g[i] = step(f[m], i) /\ g[i - 1] = f[m]
        BY <3>3, <4>1
      <4>3. QED
        BY <4>1, <4>2, Zenon
    <3>4. QED
      BY <3>1, <3>2, <3>3
  <2>4. g = [i \in 0 .. m + 1 |-> g[i]]
    OBVIOUS
  <2> HIDE DEF g
  <2>5. Sums(m + 1, txs, id, g)
    BY <2>3, <2>4, Zenon DEF Sums, step
  <2>6. QED
    BY <2>5
<1> HIDE DEF S
<1>3. n \in S
  <2>1. \A i \in 0 .. n - 1 : i \in S => i + 1 \in S
    BY <1>2
  <2>2. 0 \in Nat /\ n \in 0 .. n
    OBVIOUS
  <2>3. QED
    BY <1>1, <2>1, <2>2, IntervalInduction
<1>4. QED
  BY <1>3 DEF S

\* An entry of a typed history is a number, and so are the sums.
LEMMA EntryIsInt ==
  ASSUME NEW tx \in TxRecord, NEW id
  PROVE  /\ CreditTo(id, tx) \in Int /\ DebitOf(id, tx) \in Int /\ Entry(id, tx) \in Int
BY DEF TxRecord, CreditTo, DebitOf, Entry

LEMMA SumsAreInts ==
  ASSUME NEW txs \in Seq(TxRecord), NEW id, NEW f, Sums(Len(txs), txs, id, f)
  PROVE  /\ f[0] = 0
         /\ \A i \in 1 .. Len(txs) : f[i] = f[i - 1] + Entry(id, txs[i])
         /\ \A i \in 0 .. Len(txs) : f[i] \in Int
<1> DEFINE n == Len(txs)
           S == {i \in 0 .. n : f[i] \in Int}
<1>1. n \in Nat /\ \A i \in 1 .. n : txs[i] \in TxRecord
  OBVIOUS
<1>2. \A i \in 0 .. n : f[i] =
        IF i = 0 THEN 0 ELSE f[i - 1] + CreditTo(id, txs[i]) - DebitOf(id, txs[i])
  BY DEF Sums
<1> HIDE DEF n
<1>3. f[0] = 0
  BY <1>1, <1>2
<1>4. ASSUME NEW i \in 0 .. n - 1, f[i] \in Int
      PROVE  f[i + 1] = f[i] + Entry(id, txs[i + 1]) /\ f[i + 1] \in Int
  <2>1. i + 1 \in 1 .. n /\ i + 1 \in 0 .. n /\ i + 1 # 0 /\ (i + 1) - 1 = i
    BY <1>1
  <2>2. f[i + 1] = f[i] + CreditTo(id, txs[i + 1]) - DebitOf(id, txs[i + 1])
    BY <1>2, <2>1
  <2>3. txs[i + 1] \in TxRecord
    BY <1>1, <2>1
  <2>4. CreditTo(id, txs[i + 1]) \in Int /\ DebitOf(id, txs[i + 1]) \in Int
    BY <2>3, EntryIsInt
  <2>5. QED
    BY <1>4, <2>2, <2>4 DEF Entry
<1>5. \A i \in 0 .. n : i \in S
  <2>1. 0 \in S
    BY <1>1, <1>3
  <2>2. \A i \in 0 .. n - 1 : i \in S => i + 1 \in S
    BY <1>1, <1>4
  <2> HIDE DEF S
  <2>3. 0 \in Nat
    OBVIOUS
  <2>4. QED
    BY <1>1, <2>1, <2>2, <2>3, IntervalInduction
<1>6. ASSUME NEW i \in 1 .. n PROVE f[i] = f[i - 1] + Entry(id, txs[i])
  <2>1. i - 1 \in 0 .. n - 1 /\ i - 1 \in 0 .. n /\ (i - 1) + 1 = i
    BY <1>1
  <2>2. f[i - 1] \in Int
    BY <1>5, <2>1
  <2>3. f[(i - 1) + 1] = f[i - 1] + Entry(id, txs[(i - 1) + 1])
    BY <1>4, <2>1, <2>2
  <2>4. QED
    BY <2>1, <2>3
<1>7. QED
  BY <1>3, <1>5, <1>6 DEF n

LEMMA NetIsSum ==
  ASSUME NEW txs \in Seq(TxRecord), NEW id
  PROVE  \E f : Sums(Len(txs), txs, id, f) /\ Net(txs, id) = f[Len(txs)]
<1> DEFINE f == CHOOSE g : Sums(Len(txs), txs, id, g)
<1>1. Net(txs, id) = f[Len(txs)]
  BY Zenon DEF Net, Sums
<1>2. Len(txs) \in Nat
  OBVIOUS
<1>3. Sums(Len(txs), txs, id, f)
  BY <1>2, SumsExist, Zenon
<1>4. QED
  BY <1>1, <1>3

LEMMA NetOfNothing == \A id : Net(<<>>, id) = 0
<1> TAKE id
<1>1. <<>> \in Seq(TxRecord) /\ Len(<<>>) = 0
  OBVIOUS
<1>2. PICK f : Sums(0, <<>>, id, f) /\ Net(<<>>, id) = f[0]
  BY <1>1, NetIsSum
<1>3. f[0] = 0
  BY <1>2 DEF Sums
<1>4. QED
  BY <1>2, <1>3

\* A new entry counts once, whatever is behind it.
LEMMA NetOfNewest ==
  ASSUME NEW txs \in Seq(TxRecord), NEW tx \in TxRecord, NEW id
  PROVE  /\ Net(<<tx>> \o txs, id) = Net(txs, id) + Entry(id, tx)
         /\ Net(txs, id) \in Int /\ Net(<<tx>> \o txs, id) \in Int
<1> DEFINE longer == <<tx>> \o txs
           n == Len(txs)
<1>1. /\ n \in Nat
      /\ longer \in Seq(TxRecord) /\ Len(longer) = n + 1
      /\ longer[1] = tx
      /\ \A i \in 1 .. n : longer[i + 1] = txs[i]
  OBVIOUS
<1>2. PICK f : Sums(n, txs, id, f) /\ Net(txs, id) = f[n]
  BY NetIsSum
<1> HIDE DEF longer
<1>3. PICK g : Sums(Len(longer), longer, id, g) /\ Net(longer, id) = g[Len(longer)]
  BY <1>1, NetIsSum
<1>4. /\ f[0] = 0 /\ \A i \in 0 .. n : f[i] \in Int
      /\ \A i \in 1 .. n : f[i] = f[i - 1] + Entry(id, txs[i])
  BY <1>2, SumsAreInts
<1>5. /\ g[0] = 0 /\ \A i \in 0 .. n + 1 : g[i] \in Int
      /\ \A i \in 1 .. n + 1 : g[i] = g[i - 1] + Entry(id, longer[i])
  BY <1>1, <1>3, SumsAreInts
<1> HIDE DEF n
<1> DEFINE e == Entry(id, tx)
           S == {i \in 0 .. n : g[i + 1] = f[i] + e}
<1>6. e \in Int /\ \A i \in 1 .. n : Entry(id, txs[i]) \in Int
  <2>1. \A i \in 1 .. n : txs[i] \in TxRecord
    BY DEF n
  <2>2. QED
    BY <2>1, EntryIsInt
<1>7. 0 \in S
  <2>1. 1 \in 1 .. n + 1 /\ 1 - 1 = 0 /\ 0 + 1 = 1 /\ 0 \in 0 .. n
    BY <1>1
  <2>2. g[1] = g[0] + e
    BY <1>1, <1>5, <2>1
  <2> HIDE DEF e
  <2>3. QED
    BY <1>4, <1>5, <1>6, <2>1, <2>2
<1>8. ASSUME NEW i \in 0 .. n - 1, i \in S PROVE i + 1 \in S
  <2>1. i + 1 \in 1 .. n /\ (i + 1) - 1 = i /\ i \in 0 .. n /\ i + 1 \in 0 .. n
    BY <1>1
  <2>2. f[i + 1] = f[i] + Entry(id, txs[i + 1])
    BY <1>4, <2>1
  <2>3. (i + 1) + 1 \in 1 .. n + 1 /\ ((i + 1) + 1) - 1 = i + 1
    BY <1>1, <2>1
  <2>4. g[(i + 1) + 1] = g[i + 1] + Entry(id, longer[(i + 1) + 1])
    BY <1>5, <2>3
  <2>5. longer[(i + 1) + 1] = txs[i + 1]
    BY <1>1, <2>1
  <2>6. g[i + 1] = f[i] + e
    BY <1>8
  <2> HIDE DEF e
  <2>7. f[i] \in Int /\ Entry(id, txs[i + 1]) \in Int
    BY <1>4, <1>6, <2>1
  <2>8. g[(i + 1) + 1] = f[i + 1] + e
    BY <1>6, <2>2, <2>4, <2>5, <2>6, <2>7
  <2>9. QED
    BY <2>1, <2>8
<1>9. n \in S
  <2> HIDE DEF S
  <2>1. 0 \in Nat /\ n \in 0 .. n
    BY <1>1
  <2>2. QED
    BY <1>1, <1>7, <1>8, <2>1, IntervalInduction
<1>10. Net(longer, id) = Net(txs, id) + e
  BY <1>1, <1>2, <1>3, <1>9 DEF n
<1>11. Net(txs, id) \in Int /\ Net(longer, id) \in Int
  <2>1. n \in 0 .. n /\ n + 1 \in 0 .. n + 1
    BY <1>1
  <2>2. QED
    BY <1>1, <1>2, <1>3, <1>4, <1>5, <2>1 DEF n
<1>12. QED
  BY <1>10, <1>11 DEF longer

-----------------------------------------------------------------------------
(* getBalance. *)

\* The records of what getBalance does to the ledger and the history.
LEMMA OpenedShape ==
  ASSUME NEW st \in States, NEW id \in Ids, NEW admin \in BOOLEAN, NEW v \in BOOLEAN
  PROVE  /\ Opened(st, id, admin, v) \in States
         /\ Accounts(st.led) \subseteq Accounts(Opened(st, id, admin, v).led)
         /\ \/ Opened(st, id, admin, v).txs = st.txs
            \/ /\ ~admin /\ Without(st, id)
               /\ id \in Accounts(Opened(st, id, admin, v).led)
               /\ Opened(st, id, admin, v).txs
                    = <<[type |-> "genesis", to |-> id, amount |-> Bonus]>> \o st.txs
         /\ (admin => v) => Opened(st, id, admin, v).led[id] \in Int
<1> DEFINE tx == [type |-> "genesis", to |-> id, amount |-> Bonus]
           o == Opened(st, id, admin, v)
<1>1. st.led \in Balances /\ st.txs \in Seq(TxRecord) /\ st = [led |-> st.led, txs |-> st.txs]
  BY DEF States
<1>2. ASSUME NEW n \in Int
      PROVE  /\ [st.led EXCEPT ![id] = n] \in Balances
             /\ [st.led EXCEPT ![id] = n][id] = n
             /\ Accounts(st.led) \subseteq Accounts([st.led EXCEPT ![id] = n])
             /\ id \in Accounts([st.led EXCEPT ![id] = n])
  BY <1>1, TokenLedgerAssumption DEF Balances, Accounts
<1>3. CASE admin /\ v /\ (Without(st, id) \/ st.led[id] < Stake)
  <2>1. o = [st EXCEPT !.led[id] = Stake]
    BY <1>3 DEF Opened
  <2>2. o = [led |-> [st.led EXCEPT ![id] = Stake], txs |-> st.txs]
    BY <2>1, <1>1
  <2> HIDE DEF o
  <2>3. o.led = [st.led EXCEPT ![id] = Stake] /\ o.txs = st.txs /\ o \in States
    BY <2>2, <1>1, <1>2, TokenLedgerAssumption DEF States
  <2>4. QED
    BY <2>3, <1>2, TokenLedgerAssumption DEF o
<1>4. CASE ~admin /\ Without(st, id)
  <2>1. tx \in TxRecord
    BY TokenLedgerAssumption DEF TxRecord
  <2>2. <<tx>> \o st.txs \in Seq(TxRecord)
    BY <2>1, <1>1
  <2>3. o = [led |-> [st.led EXCEPT ![id] = Bonus], txs |-> <<tx>> \o st.txs]
    BY <1>4 DEF Opened
  <2> HIDE DEF o, tx
  <2>4. QED
    BY <2>2, <2>3, <1>2, <1>4, TokenLedgerAssumption DEF States, o, tx
<1>5. CASE ~(admin /\ v /\ (Without(st, id) \/ st.led[id] < Stake)) /\ ~(~admin /\ Without(st, id))
  <2>1. o = st
    BY <1>5 DEF Opened
  <2>2. (admin => v) => st.led[id] \in Int
    BY <1>1, <1>5 DEF Balances, Without
  <2>3. QED
    BY <2>1, <2>2
<1>6. QED
  BY <1>3, <1>4, <1>5

\* The balance it returns is a number.
LEMMA BalanceIsInt ==
  ASSUME NEW st \in States, NEW id \in Ids, NEW admin \in BOOLEAN, NEW v \in BOOLEAN
  PROVE  GetBalance(st, id, admin, v) \in Int
<1>1. CASE admin /\ ~v
  BY <1>1 DEF GetBalance
<1>2. CASE admin => v
  BY <1>2, OpenedShape DEF GetBalance
<1>3. QED
  BY <1>1, <1>2

\* A genesis entry for a wallet that had no account.
LEMMA OpenedGrows ==
  ASSUME NEW st \in States, NEW id \in Ids, NEW admin \in BOOLEAN, NEW v \in BOOLEAN
  PROVE  Grown(st, Opened(st, id, admin, v))
<1> DEFINE o == Opened(st, id, admin, v)
           tx == [type |-> "genesis", to |-> id, amount |-> Bonus]
<1>1. Accounts(st.led) \subseteq Accounts(o.led)
  BY OpenedShape
<1>2. ASSUME Sane(st) PROVE Sane(o)
  <2>1. CASE o.txs = st.txs
    BY <2>1, <1>1, <1>2 DEF Sane
  <2>2. CASE Without(st, id) /\ id \in Accounts(o.led) /\ o.txs = <<tx>> \o st.txs
    <3> DEFINE n == Len(st.txs)
    <3>1. /\ st.txs \in Seq(TxRecord)
          /\ n \in Nat /\ DOMAIN st.txs = 1 .. n
      BY DEF States
    <3>2. id \notin Welcomed(st.txs)
      BY <2>2, <1>2 DEF Sane, Accounts, Without
    <3> HIDE DEF o
    <3>3. /\ DOMAIN o.txs = 1 .. n + 1
          /\ o.txs[1] = tx
          /\ \A i \in 2 .. n + 1 : i - 1 \in 1 .. n /\ o.txs[i] = st.txs[i - 1]
      <4> HIDE DEF tx
      <4>1. QED
        BY <2>2, <3>1
    <3> HIDE DEF n
    <3>4. \A i \in 2 .. n + 1 : o.txs[i].type = "genesis" => o.txs[i].to \in Welcomed(st.txs)
      BY <3>1, <3>3 DEF Welcomed
    <3>5. \A i \in 2 .. n + 1 : o.txs[i].type = "genesis" => o.txs[i].to # id
      BY <3>2, <3>4
    <3>6. Welcomed(o.txs) \subseteq Accounts(o.led)
      <4>1. ASSUME NEW i \in 1 .. n + 1, o.txs[i].type = "genesis"
            PROVE  o.txs[i].to \in Accounts(o.led)
        <5>1. CASE i = 1
          BY <5>1, <3>3, <2>2
        <5>2. CASE i \in 2 .. n + 1
          BY <5>2, <4>1, <3>4, <1>1, <1>2 DEF Sane
        <5>3. QED
          BY <5>1, <5>2, <3>1
      <4>2. QED
        BY <4>1, <3>3 DEF Welcomed
    <3>7. OneEach(o.txs)
      <4>1. ASSUME NEW i \in 1 .. n + 1, NEW j \in 1 .. n + 1,
                   o.txs[i].type = "genesis", o.txs[j].type = "genesis",
                   o.txs[i].to = o.txs[j].to
            PROVE  i = j
        <5>1. CASE i \in 2 .. n + 1 /\ j \in 2 .. n + 1
          <6>1. i - 1 = j - 1
            BY <5>1, <4>1, <3>1, <3>3, <1>2 DEF Sane, OneEach
          <6>2. QED
            BY <6>1
        <5>2. CASE i = 1 \/ j = 1
          <6>1. o.txs[1].to = id
            BY <3>3
          <6>2. QED
            BY <6>1, <5>2, <4>1, <3>5, <3>1
        <5>3. QED
          BY <5>1, <5>2, <3>1
      <4>2. QED
        BY <4>1, <3>3 DEF OneEach
    <3>8. QED
      BY <3>6, <3>7 DEF Sane
  <2>3. QED
    BY <2>1, <2>2, OpenedShape
<1>3. QED
  BY <1>1, <1>2 DEF Grown

\* What mint and transfer do after that: two balances are overwritten, and a
\* history that begins with something else than a genesis entry may be cut.
LEMMA RecordedGrows ==
  ASSUME NEW st \in States, NEW led \in Balances, NEW txs \in Seq(TxRecord),
         Accounts(st.led) \subseteq Accounts(led),
         Len(txs) > 0 => txs[1].type # "genesis",
         Len(txs) <= Len(st.txs) + 1,
         \A i \in 2 .. Len(txs) : txs[i] = st.txs[i - 1]
  PROVE  /\ [led |-> led, txs |-> txs] \in States
         /\ Grown(st, [led |-> led, txs |-> txs])
<1>1. [led |-> led, txs |-> txs] \in States
  BY DEF States
<1>2. ASSUME Sane(st) PROVE OneEach(txs) /\ Welcomed(txs) \subseteq Accounts(led)
  <2>1. /\ st.txs \in Seq(TxRecord) /\ Len(st.txs) \in Nat
        /\ DOMAIN st.txs = 1 .. Len(st.txs)
        /\ Len(txs) \in Nat /\ DOMAIN txs = 1 .. Len(txs)
    BY DEF States
  <2>2. \A i \in DOMAIN txs : txs[i].type = "genesis" =>
           /\ i - 1 \in DOMAIN st.txs
           /\ txs[i] = st.txs[i - 1]
    BY <2>1
  <2>3. Welcomed(txs) \subseteq Welcomed(st.txs)
    BY <2>2 DEF Welcomed
  <2>4. ASSUME NEW i \in DOMAIN txs, NEW j \in DOMAIN txs,
               txs[i].type = "genesis", txs[j].type = "genesis",
               txs[i].to = txs[j].to
        PROVE  i = j
    <3>1. i - 1 = j - 1
      BY <2>2, <2>4, <1>2 DEF Sane, OneEach
    <3>2. QED
      BY <3>1, <2>1
  <2>5. QED
    BY <2>3, <2>4, <1>2 DEF Sane, OneEach
<1>3. QED
  BY <1>1, <1>2 DEF Grown, Sane

-----------------------------------------------------------------------------
(* The history explains the ledger. *)

Ordinary == Users \ AdminEmailed

\* What LedgerMatchesHistory counts as a wallet's balance.
Held(led, id) == IF led[id] = NoAccount THEN 0 ELSE led[id]

Matches(led, txs) == \A id \in Ordinary : Net(txs, id) = Held(led, id)

\* Every save in the queue writes a ledger and the history that explains it.
AllMatch(q) == \A k \in LedgerWrites(q) : Matches(q[k].data, q[k + 1].data)

LEMMA OrdinaryAreNot ==
  ASSUME NEW id \in Ordinary
  PROVE  id \in Ids /\ id \notin Admins /\ \A e \in BOOLEAN : ~IsMasterAdmin(id, e)
BY TokenLedgerAssumption DEF Ordinary, Ids, IsMasterAdmin

\* getBalance opens an account with the bonus that its genesis entry shows.
LEMMA OpenedMatches ==
  ASSUME NEW st \in States, NEW id \in Ids, NEW admin \in BOOLEAN, NEW v \in BOOLEAN,
         admin => id \notin Ordinary, Matches(st.led, st.txs)
  PROVE  Matches(Opened(st, id, admin, v).led, Opened(st, id, admin, v).txs)
<1> DEFINE o == Opened(st, id, admin, v)
           tx == [type |-> "genesis", to |-> id, amount |-> Bonus]
<1>1. st.led \in Balances /\ st.txs \in Seq(TxRecord) /\ st = [led |-> st.led, txs |-> st.txs]
  BY DEF States
<1>2. CASE admin /\ v /\ (Without(st, id) \/ st.led[id] < Stake)
  <2>1. o = [st EXCEPT !.led[id] = Stake]
    BY <1>2 DEF Opened
  <2>2. o = [led |-> [st.led EXCEPT ![id] = Stake], txs |-> st.txs]
    BY <2>1, <1>1
  <2>3. \A x \in Ordinary : [st.led EXCEPT ![id] = Stake][x] = st.led[x]
    BY <1>1, <1>2, OrdinaryAreNot DEF Balances
  <2> HIDE DEF o
  <2>4. QED
    BY <2>2, <2>3 DEF Matches, Held, o
<1>3. CASE ~admin /\ Without(st, id)
  <2>1. tx \in TxRecord
    BY TokenLedgerAssumption DEF TxRecord
  <2>2. o = [led |-> [st.led EXCEPT ![id] = Bonus], txs |-> <<tx>> \o st.txs]
    BY <1>3 DEF Opened
  <2>3. \A x : Entry(x, tx) = IF x = id THEN Bonus ELSE 0
    BY TokenLedgerAssumption DEF Entry, CreditTo, DebitOf
  <2> DEFINE led == [st.led EXCEPT ![id] = Bonus]
  <2>4. /\ led[id] = Bonus /\ Bonus \in Int /\ Bonus # NoAccount
        /\ \A x \in Ids : x # id => led[x] = st.led[x]
    BY <1>1, TokenLedgerAssumption DEF Balances
  <2> HIDE DEF led, o, tx
  <2>5. ASSUME NEW x \in Ordinary
        PROVE  Net(<<tx>> \o st.txs, x) = Held(led, x)
    <3>1. Net(<<tx>> \o st.txs, x) = Net(st.txs, x) + Entry(x, tx) /\ Net(st.txs, x) \in Int
      BY <1>1, <2>1, NetOfNewest
    <3>2. Net(st.txs, x) = Held(st.led, x) /\ x \in Ids
      BY OrdinaryAreNot DEF Matches
    <3>3. CASE x = id
      <4>1. Net(st.txs, x) = 0
        BY <1>3, <3>2, <3>3 DEF Held, Without
      <4>2. QED
        BY <2>3, <2>4, <3>1, <3>3, <4>1 DEF Held
    <3>4. CASE x # id
      <4>1. Held(led, x) = Held(st.led, x)
        BY <2>4, <3>2, <3>4 DEF Held
      <4>2. QED
        BY <2>3, <3>1, <3>2, <3>4, <4>1
    <3>5. QED
      BY <3>3, <3>4
  <2>6. o.led = led /\ o.txs = <<tx>> \o st.txs
    BY <2>2 DEF led
  <2>7. QED
    BY <2>5, <2>6 DEF Matches, o
<1>4. CASE ~(admin /\ v /\ (Without(st, id) \/ st.led[id] < Stake)) /\ ~(~admin /\ Without(st, id))
  <2>1. o = st
    BY <1>4 DEF Opened
  <2>2. QED
    BY <2>1
<1>5. QED
  BY <1>2, <1>3, <1>4

\* For a wallet that is no administrator's, getBalance returns the opened balance.
LEMMA OpenedBalance ==
  ASSUME NEW st \in States, NEW id \in Ids, NEW admin \in BOOLEAN, NEW v \in BOOLEAN
  PROVE  /\ ~admin => /\ GetBalance(st, id, admin, v) = Opened(st, id, admin, v).led[id]
                       /\ Opened(st, id, admin, v).led[id] \in Int
         /\ \A x \in Ids : x # id => Opened(st, id, admin, v).led[x] = st.led[x]
<1>1. st.led \in Balances /\ st = [led |-> st.led, txs |-> st.txs]
  BY DEF States
<1>2. ~admin => GetBalance(st, id, admin, v) = Opened(st, id, admin, v).led[id]
  BY DEF GetBalance
<1>3. ~admin => Opened(st, id, admin, v).led[id] \in Int
  BY OpenedShape
<1>4. ASSUME NEW x \in Ids, x # id
      PROVE  Opened(st, id, admin, v).led[x] = st.led[x]
  <2>1. \A n : [st.led EXCEPT ![id] = n][x] = st.led[x]
    BY <1>1, <1>4 DEF Balances
  <2>2. [st EXCEPT !.led[id] = Stake] = [led |-> [st.led EXCEPT ![id] = Stake], txs |-> st.txs]
    BY <1>1
  <2>3. \/ Opened(st, id, admin, v) = st
        \/ Opened(st, id, admin, v) = [st EXCEPT !.led[id] = Stake]
        \/ Opened(st, id, admin, v).led = [st.led EXCEPT ![id] = Bonus]
    BY DEF Opened
  <2>4. [st EXCEPT !.led[id] = Stake].led = [st.led EXCEPT ![id] = Stake]
    BY <2>2
  <2>5. QED
    BY <2>1, <2>3, <2>4, Zenon
<1>5. QED
  BY <1>2, <1>3, <1>4

LEMMA MatchNext ==
  ASSUME NEW q \in Seq(Writes), NEW st \in States, AllMatch(q), Alternate(q),
         Len(q) % 2 = 0, Matches(st.led, st.txs)
  PROVE  AllMatch(q \o SaveState(st))
<1> DEFINE r == q \o SaveState(st)
<1>1. /\ r \in Seq(Writes)
      /\ Len(r) = Len(q) + 2
      /\ \A k \in 1 .. Len(q) : r[k] = q[k]
      /\ r[Len(q) + 1] = [file |-> "ledgers", data |-> st.led]
      /\ r[Len(q) + 2] = [file |-> "transactions", data |-> st.txs]
  BY AppendSave
<1> HIDE DEF r
<1>2. Len(q) \in Nat /\ DOMAIN q = 1 .. Len(q) /\ DOMAIN r = 1 .. Len(q) + 2
  BY <1>1
<1>3. ASSUME NEW k \in LedgerWrites(r)
      PROVE  Matches(r[k].data, r[k + 1].data)
  <2>1. CASE k = Len(q) + 1
    <3>1. k + 1 = Len(q) + 2
      BY <1>2, <2>1
    <3>2. r[k].data = st.led /\ r[k + 1].data = st.txs
      BY <1>1, <2>1, <3>1
    <3>3. QED
      BY <3>2
  <2>2. CASE k = Len(q) + 2
    BY <1>1, <1>3, <2>2 DEF LedgerWrites
  <2>3. CASE k \in 1 .. Len(q)
    <3>1. k \in LedgerWrites(q) /\ r[k] = q[k]
      BY <1>1, <1>2, <1>3, <2>3 DEF LedgerWrites
    <3>2. k # Len(q)
      <4>1. (Len(q) - Len(q)) % 2 = 0
        BY <1>2
      <4>2. k = Len(q) => q[k].file = "transactions"
        BY <4>1, <1>2, <2>3 DEF Alternate
      <4>3. QED
        BY <4>2, <3>1 DEF LedgerWrites
    <3>3. r[k + 1] = q[k + 1]
      <4>1. \A n \in Nat : \A i \in 1 .. n : i # n => i + 1 \in 1 .. n
        OBVIOUS
      <4>2. k + 1 \in 1 .. Len(q)
        BY <4>1, <1>2, <2>3, <3>2, Zenon
      <4>3. QED
        BY <4>2, <1>1, Zenon
    <3>4. QED
      BY <3>1, <3>3 DEF AllMatch
  <2>4. QED
    BY <1>2, <1>3, <2>1, <2>2, <2>3 DEF LedgerWrites
<1>4. QED
  BY <1>3 DEF AllMatch, r

LEMMA MatchIfNew ==
  ASSUME NEW q \in Seq(Writes), NEW s \in States, NEW st \in States, AllMatch(q),
         Alternate(q), Len(q) % 2 = 0, Matches(st.led, st.txs)
  PROVE  AllMatch(q \o SaveIfNew(s, st))
<1>1. CASE s = st
  <2>1. q \o <<>> = q
    OBVIOUS
  <2>2. QED
    BY <1>1, <2>1 DEF SaveIfNew
<1>2. CASE s # st
  BY <1>2, MatchNext DEF SaveIfNew
<1>3. QED
  BY <1>1, <1>2

\* A transfer moves the amount from the sender to the receiver; what it takes an
\* administrator's balance to be is of no account here.
LEMMA TransferMatches ==
  ASSUME NEW led \in Balances, NEW txs \in Seq(TxRecord), Matches(led, txs),
         NEW s \in Ids, NEW r \in Ids, s # r, NEW amount \in Int,
         NEW type \in {"transfer", "shielded"}, NEW a \in Int, NEW b \in Int,
         s \in Ordinary => a = led[s] /\ led[s] \in Int,
         r \in Ordinary => b = led[r] /\ led[r] \in Int
  PROVE  Matches([led EXCEPT ![s] = a - amount, ![r] = b + amount],
                 <<[type |-> type, from |-> s, to |-> r, amount |-> amount]>> \o txs)
<1> DEFINE tx == [type |-> type, from |-> s, to |-> r, amount |-> amount]
           new == [led EXCEPT ![s] = a - amount, ![r] = b + amount]
<1>1. tx \in TxRecord
  BY DEF TxRecord
<1>2. \A x : Entry(x, tx) = IF x = r THEN amount ELSE IF x = s THEN -amount ELSE 0
  BY DEF Entry, CreditTo, DebitOf
<1>3. /\ new[s] = a - amount /\ new[r] = b + amount
      /\ \A x \in Ids : x # s /\ x # r => new[x] = led[x]
  BY DEF Balances
<1> HIDE DEF tx, new
<1>4. ASSUME NEW x \in Ordinary
      PROVE  Net(<<tx>> \o txs, x) = Held(new, x)
  <2>1. Net(<<tx>> \o txs, x) = Net(txs, x) + Entry(x, tx) /\ Net(txs, x) \in Int
    BY <1>1, NetOfNewest
  <2>2. Net(txs, x) = Held(led, x) /\ x \in Ids
    BY OrdinaryAreNot DEF Matches
  <2>3. NoAccount \notin Int
    BY TokenLedgerAssumption
  <2>4. CASE x = r
    <3>1. Net(txs, x) = b /\ b + amount \in Int
      BY <2>2, <2>3, <2>4 DEF Held
    <3>2. Held(new, x) = b + amount
      BY <1>3, <2>3, <2>4, <3>1 DEF Held
    <3>3. QED
      BY <1>2, <2>1, <2>4, <3>1, <3>2
  <2>5. CASE x = s
    <3>1. Net(txs, x) = a /\ a - amount \in Int
      BY <2>2, <2>3, <2>5 DEF Held
    <3>2. Held(new, x) = a - amount
      BY <1>3, <2>3, <2>5, <3>1 DEF Held
    <3>3. QED
      BY <1>2, <2>1, <2>5, <3>1, <3>2
  <2>6. CASE x # r /\ x # s
    <3>1. Held(new, x) = Held(led, x)
      BY <1>3, <2>2, <2>6 DEF Held
    <3>2. QED
      BY <1>2, <2>1, <2>2, <2>6, <3>1
  <2>7. QED
    BY <2>4, <2>5, <2>6
<1>5. QED
  BY <1>4 DEF Matches, tx, new

LEMMA MintMatches ==
  ASSUME NEW led \in Balances, NEW txs \in Seq(TxRecord), Matches(led, txs),
         NEW id \in Ids, NEW amount \in Int, NEW a \in Int,
         id \in Ordinary => a = led[id] /\ led[id] \in Int
  PROVE  Matches([led EXCEPT ![id] = a + amount],
                 <<[type |-> "mint", to |-> id, amount |-> amount]>> \o txs)
<1> DEFINE tx == [type |-> "mint", to |-> id, amount |-> amount]
           new == [led EXCEPT ![id] = a + amount]
<1>1. tx \in TxRecord
  BY DEF TxRecord
<1>2. \A x : Entry(x, tx) = IF x = id THEN amount ELSE 0
  BY DEF Entry, CreditTo, DebitOf
<1>3. new[id] = a + amount /\ \A x \in Ids : x # id => new[x] = led[x]
  BY DEF Balances
<1> HIDE DEF tx, new
<1>4. ASSUME NEW x \in Ordinary
      PROVE  Net(<<tx>> \o txs, x) = Held(new, x)
  <2>1. Net(<<tx>> \o txs, x) = Net(txs, x) + Entry(x, tx) /\ Net(txs, x) \in Int
    BY <1>1, NetOfNewest
  <2>2. Net(txs, x) = Held(led, x) /\ x \in Ids
    BY OrdinaryAreNot DEF Matches
  <2>3. NoAccount \notin Int
    BY TokenLedgerAssumption
  <2>4. CASE x = id
    <3>1. Net(txs, x) = a /\ a + amount \in Int
      BY <2>2, <2>3, <2>4 DEF Held
    <3>2. Held(new, x) = a + amount
      BY <1>3, <2>3, <2>4, <3>1 DEF Held
    <3>3. QED
      BY <1>2, <2>1, <2>4, <3>1, <3>2
  <2>5. CASE x # id
    <3>1. Held(new, x) = Held(led, x)
      BY <1>3, <2>2, <2>5 DEF Held
    <3>2. QED
      BY <1>2, <2>1, <2>2, <2>5, <3>1
  <2>6. QED
    BY <2>4, <2>5
<1>5. QED
  BY <1>4 DEF Matches, tx, new

LEMMA FirstMatch ==
  ASSUME NEW s \in States, NEW st \in States, Matches(st.led, st.txs)
  PROVE  AllMatch(SaveIfNew(s, st))
<1> DEFINE none == <<>>
<1>1. /\ none \in Seq(Writes) /\ Len(none) = 0
      /\ AllMatch(none) /\ Alternate(none)
  BY DEF AllMatch, Alternate, LedgerWrites
<1>2. 0 % 2 = 0
  OBVIOUS
<1>3. none \o SaveIfNew(s, st) = SaveIfNew(s, st)
  BY DEF SaveIfNew, SaveState
<1> HIDE DEF none
<1>4. QED
  BY <1>1, <1>2, <1>3, MatchIfNew

-----------------------------------------------------------------------------
(* The handlers. *)

\* A handler takes memory to st and leaves q to be written.
Handled(st, q) ==
  /\ Ready
  /\ st \in States /\ Wrote(q, Contents, st)
  /\ Matches(ledgers, transactions) /\ ~disturbed' =>
       Matches(st.led, st.txs) /\ AllMatch(q)
  /\ ledgers' = st.led /\ transactions' = st.txs /\ saves' = q
  /\ UNCHANGED <<running, disk, failures, unsaved, split, ledgerLost>>

LEMMA ContentsTyped == TypeOK => Contents \in States
BY DEF TypeOK, Contents, States

LEMMA ReadingsTyped == TypeOK => \A f \in BOOLEAN : CheckStatus(f) \subseteq BOOLEAN
BY DEF TypeOK, CheckStatus, ProbeResults

LEMMA MasterIsBoolean == \A id \in Ids, e \in BOOLEAN : IsMasterAdmin(id, e) \in BOOLEAN
BY DEF IsMasterAdmin

LEMMA ReadBalanceHandled ==
  ASSUME TypeOK, NEW id \in Ids, ReadBalance(id)
  PROVE  \E st, q : Handled(st, q)
<1> DEFINE St(v) == IF id \in Admins THEN Contents ELSE Opened(Contents, id, FALSE, v)
<1>1. PICK v \in CheckStatus(FALSE) :
         /\ Ready
         /\ Finish(St(v), SaveIfNew(Contents, St(v)))
         /\ UNCHANGED disturbed
  BY DEF ReadBalance
<1>2. Contents \in States /\ v \in BOOLEAN
  BY ContentsTyped, ReadingsTyped
<1>3. St(v) \in States /\ Grown(Contents, St(v))
  <2>1. Grown(Contents, Contents)
    BY DEF Grown
  <2>2. QED
    BY <1>2, <2>1, OpenedShape, OpenedGrows
<1> HIDE DEF St
<1>4. Wrote(<<>> \o SaveIfNew(Contents, St(v)), Contents, St(v))
  BY <1>2, <1>3, WroteNothing, WroteIfNew
<1>5. <<>> \o SaveIfNew(Contents, St(v)) = SaveIfNew(Contents, St(v))
  BY DEF SaveIfNew, SaveState
<1>6. ASSUME Matches(ledgers, transactions)
      PROVE  Matches(St(v).led, St(v).txs) /\ AllMatch(SaveIfNew(Contents, St(v)))
  <2>1. Matches(Contents.led, Contents.txs)
    BY <1>6 DEF Contents
  <2>2. Matches(St(v).led, St(v).txs)
    BY <1>2, <2>1, OpenedMatches DEF St
  <2>3. QED
    BY <1>2, <1>3, <1>5, <2>2, FirstMatch
<1>7. Handled(St(v), SaveIfNew(Contents, St(v)))
  BY <1>1, <1>3, <1>4, <1>5, <1>6 DEF Handled, Finish
<1>8. QED
  BY <1>7

\* The history that a transfer leaves.
LEMMA CutHistory ==
  ASSUME NEW txs \in Seq(TxRecord), NEW tx \in TxRecord
  PROVE  LET history == <<tx>> \o txs
             cut == SubSeq(history, 1, IF Len(history) > HistoryCap
                                       THEN HistoryCap ELSE Len(history))
         IN  /\ cut \in Seq(TxRecord)
             /\ Len(history) = Len(txs) + 1
             /\ Len(cut) \in 1 .. Len(txs) + 1
             /\ cut[1] = tx
             /\ \A i \in 2 .. Len(cut) : cut[i] = txs[i - 1]
             /\ Len(history) <= HistoryCap => cut = <<tx>> \o txs
<1> DEFINE history == <<tx>> \o txs
           n == IF Len(history) > HistoryCap THEN HistoryCap ELSE Len(history)
<1>1. /\ history \in Seq(TxRecord)
      /\ Len(history) = Len(txs) + 1
      /\ history[1] = tx
      /\ \A i \in 2 .. Len(txs) + 1 : history[i] = txs[i - 1]
      /\ Len(txs) \in Nat
  OBVIOUS
<1>2. history = <<tx>> \o txs
  OBVIOUS
<1> HIDE DEF history
<1>3. n \in 1 .. Len(history) /\ (Len(history) <= HistoryCap => n = Len(history))
  BY <1>1, TokenLedgerAssumption
<1> HIDE DEF n
<1>4. /\ SubSeq(history, 1, n) \in Seq(TxRecord)
      /\ Len(SubSeq(history, 1, n)) = n
      /\ \A i \in 1 .. n : SubSeq(history, 1, n)[i] = history[i]
      /\ n = Len(history) => SubSeq(history, 1, n) = history
  BY <1>1, <1>3
<1>5. /\ SubSeq(history, 1, n) \in Seq(TxRecord)
      /\ Len(SubSeq(history, 1, n)) \in 1 .. Len(txs) + 1
      /\ SubSeq(history, 1, n)[1] = tx
      /\ \A i \in 2 .. Len(SubSeq(history, 1, n)) : SubSeq(history, 1, n)[i] = txs[i - 1]
      /\ Len(history) <= HistoryCap => SubSeq(history, 1, n) = <<tx>> \o txs
  BY <1>1, <1>2, <1>3, <1>4
<1>6. QED
  BY <1>1, <1>5 DEF history, n

\* A ledger in which known numbers overwrite balances.
LEMMA Overwritten ==
  ASSUME NEW led \in Balances, NEW id \in Ids, NEW n \in Int
  PROVE  /\ [led EXCEPT ![id] = n] \in Balances
         /\ Accounts(led) \subseteq Accounts([led EXCEPT ![id] = n])
BY TokenLedgerAssumption DEF Balances, Accounts

\* A settlement saves the sender's and the receiver's accounts as it opens them,
\* and then the transfer.
LEMMA SettlementHandled ==
  ASSUME TypeOK, Ready, NEW s \in Ids, NEW r \in Ids, s # r, NEW amount \in Amounts,
         NEW type \in {"transfer", "shielded"},
         NEW v1 \in BOOLEAN, NEW v2 \in BOOLEAN,
         Settlement(s, r, amount, type, v1, v2)
  PROVE  \E st, q : Handled(st, q)
<1> DEFINE admin == IsMasterAdmin(s, TRUE)
           rAdmin == IsMasterAdmin(r, FALSE)
           s1 == Opened(Contents, s, admin, v1)
           s2 == Opened(s1, r, rAdmin, v2)
           newSender == GetBalance(Contents, s, admin, v1) - amount
           newReceiver == GetBalance(s1, r, rAdmin, v2) + amount
           tx == [type |-> type, from |-> s, to |-> r, amount |-> amount]
           history == <<tx>> \o s2.txs
           cut == SubSeq(history, 1, IF Len(history) > HistoryCap
                                     THEN HistoryCap ELSE Len(history))
           led == [s2.led EXCEPT ![s] = newSender, ![r] = newReceiver]
           s3 == [led |-> led, txs |-> cut]
           q1 == SaveIfNew(Contents, s1)
           q2 == q1 \o SaveIfNew(s1, s2)
           q3 == q2 \o SaveState(s3)
<1>1. \/ Finish(s3, q3) /\ disturbed' = (disturbed \/ Len(history) > HistoryCap)
      \/ Finish(s1, q1)
  BY DEF Settlement
<1>2. Contents \in States /\ admin \in BOOLEAN /\ rAdmin \in BOOLEAN
  BY ContentsTyped, MasterIsBoolean
<1>3. s1 \in States /\ Grown(Contents, s1)
  BY <1>2, OpenedShape, OpenedGrows
<1>4. s2 \in States /\ Grown(s1, s2)
  <2> HIDE DEF s1, admin, rAdmin
  <2>1. QED
    BY <1>2, <1>3, OpenedShape, OpenedGrows
<1>5. newSender \in Int /\ newReceiver \in Int /\ amount \in Int
  <2>1. amount \in Int
    BY TokenLedgerAssumption
  <2>2. GetBalance(Contents, s, admin, v1) \in Int
    BY <1>2, BalanceIsInt
  <2>3. GetBalance(s1, r, rAdmin, v2) \in Int
    <3> HIDE DEF s1, rAdmin
    <3>1. QED
      BY <1>2, <1>3, BalanceIsInt
  <2>4. \A a, b \in Int : a - b \in Int /\ a + b \in Int
    OBVIOUS
  <2>5. QED
    BY <2>1, <2>2, <2>3, <2>4, Zenon
<1>6. /\ s3 \in States /\ Grown(s2, s3)
      /\ ~(Len(history) > HistoryCap) => cut = <<tx>> \o s2.txs
  <2> HIDE DEF s1, s2, newSender, newReceiver
  <2>1. s2.led \in Balances /\ s2.txs \in Seq(TxRecord)
    BY <1>4 DEF States
  <2>2. tx \in TxRecord /\ tx.type # "genesis"
    BY <1>5 DEF TxRecord
  <2>3. led \in Balances /\ Accounts(s2.led) \subseteq Accounts(led)
    <3> DEFINE mid == [s2.led EXCEPT ![s] = newSender]
    <3>1. mid \in Balances /\ Accounts(s2.led) \subseteq Accounts(mid)
      BY <2>1, <1>5, Overwritten
    <3>2. led = [mid EXCEPT ![r] = newReceiver]
      BY <2>1 DEF Balances
    <3> HIDE DEF mid, led
    <3>3. QED
      BY <3>1, <3>2, <1>5, Overwritten
  <2> HIDE DEF led, tx
  <2>4. /\ cut \in Seq(TxRecord)
        /\ Len(cut) \in 1 .. Len(s2.txs) + 1
        /\ cut[1] = tx
        /\ \A i \in 2 .. Len(cut) : cut[i] = s2.txs[i - 1]
        /\ ~(Len(history) > HistoryCap) => cut = <<tx>> \o s2.txs
    BY <2>1, <2>2, CutHistory
  <2> HIDE DEF cut
  <2>5. Len(cut) <= Len(s2.txs) + 1
    BY <2>1, <2>4
  <2>6. QED
    BY <1>4, <2>2, <2>3, <2>4, <2>5, RecordedGrows
<1>7. ASSUME Matches(ledgers, transactions)
      PROVE  Matches(s1.led, s1.txs)
  <2>1. Matches(Contents.led, Contents.txs)
    BY <1>7 DEF Contents
  <2>2. admin => s \notin Ordinary
    BY OrdinaryAreNot
  <2>3. QED
    BY <1>2, <2>1, <2>2, OpenedMatches
<1>8. ASSUME Matches(s1.led, s1.txs)
      PROVE  Matches(s2.led, s2.txs)
  <2>1. rAdmin => r \notin Ordinary
    BY OrdinaryAreNot
  <2> HIDE DEF s1, rAdmin
  <2>2. QED
    BY <1>2, <1>3, <1>8, <2>1, OpenedMatches
<1>9. ASSUME Matches(s2.led, s2.txs), ~(Len(history) > HistoryCap)
      PROVE  Matches(s3.led, s3.txs)
  <2>1. s \in Ordinary => GetBalance(Contents, s, admin, v1) = s1.led[s] /\ s1.led[s] \in Int
    <3>1. s \in Ordinary => ~admin
      BY <1>2, OrdinaryAreNot
    <3> HIDE DEF admin
    <3>2. QED
      BY <1>2, <3>1, OpenedBalance
  <2>2. r \in Ordinary => GetBalance(s1, r, rAdmin, v2) = s2.led[r] /\ s2.led[r] \in Int
    <3>1. r \in Ordinary => ~rAdmin
      BY <1>2, OrdinaryAreNot
    <3> HIDE DEF rAdmin, s1
    <3>2. QED
      BY <1>2, <1>3, <3>1, OpenedBalance
  <2>3. s2.led[s] = s1.led[s]
    <3> HIDE DEF rAdmin, s1
    <3>1. QED
      BY <1>2, <1>3, OpenedBalance
  <2>4. s2.led \in Balances /\ s2.txs \in Seq(TxRecord)
    BY <1>4 DEF States
  <2>5. GetBalance(Contents, s, admin, v1) \in Int /\ amount \in Int
    BY <1>2, <1>5, BalanceIsInt
  <2>6. GetBalance(s1, r, rAdmin, v2) \in Int
    <3> HIDE DEF rAdmin, s1
    <3>1. QED
      BY <1>2, <1>3, BalanceIsInt
  <2> HIDE DEF s1, s2, admin, rAdmin
  <2>7. Matches(led, <<tx>> \o s2.txs)
    BY <2>1, <2>2, <2>3, <2>4, <2>5, <2>6, <1>9, TransferMatches
  <2> HIDE DEF led, tx, cut
  <2>8. QED
    BY <2>7, <1>6, <1>9
<1> HIDE DEF s1, s2, s3, history
<1>10. Wrote(q1, Contents, s1)
  <2>1. Wrote(<<>> \o q1, Contents, s1)
    BY <1>2, <1>3, WroteNothing, WroteIfNew
  <2>2. <<>> \o q1 = q1
    BY DEF SaveIfNew, SaveState
  <2>3. QED
    BY <2>1, <2>2
<1>11. Matches(s1.led, s1.txs) => AllMatch(q1)
  BY <1>2, <1>3, FirstMatch
<1> HIDE DEF q1
<1>12. Wrote(q2, Contents, s2)
  BY <1>2, <1>3, <1>4, <1>10, WroteIfNew
<1>13. Matches(s1.led, s1.txs) => AllMatch(q2)
  <2>1. q1 \in Seq(Writes) /\ Alternate(q1) /\ Len(q1) % 2 = 0
    BY <1>10 DEF Wrote
  <2>2. QED
    BY <2>1, <1>3, <1>4, <1>8, <1>11, MatchIfNew
<1> HIDE DEF q2
<1>14. Wrote(q3, Contents, s3)
  BY <1>2, <1>4, <1>6, <1>12, WroteNext
<1>15. Matches(s1.led, s1.txs) /\ Matches(s3.led, s3.txs) => AllMatch(q3)
  <2>1. q2 \in Seq(Writes) /\ Alternate(q2) /\ Len(q2) % 2 = 0
    BY <1>12 DEF Wrote
  <2>2. QED
    BY <2>1, <1>6, <1>13, MatchNext
<1> HIDE DEF q3
<1>16. CASE Finish(s1, q1)
  <2>1. Handled(s1, q1)
    BY <1>3, <1>7, <1>10, <1>11, <1>16 DEF Handled, Finish
  <2>2. QED
    BY <2>1
<1>17. CASE Finish(s3, q3) /\ disturbed' = (disturbed \/ Len(history) > HistoryCap)
  <2>1. Matches(ledgers, transactions) /\ ~disturbed' =>
          Matches(s3.led, s3.txs) /\ AllMatch(q3)
    BY <1>7, <1>8, <1>9, <1>15, <1>17
  <2>2. Handled(s3, q3)
    BY <2>1, <1>6, <1>14, <1>17 DEF Handled, Finish
  <2>3. QED
    BY <2>2
<1>18. QED
  BY <1>1, <1>16, <1>17

LEMMA TransferHandled ==
  ASSUME TypeOK, NEW s \in Ids, NEW r \in Ids, NEW amount \in Amounts,
         Transfer(s, r, amount)
  PROVE  \E st, q : Handled(st, q)
<1>1. PICK v \in CheckStatus(FALSE) : Settlement(s, r, amount, "transfer", v, v)
  BY DEF Transfer
<1>2. v \in BOOLEAN
  BY ReadingsTyped
<1>3. QED
  BY <1>1, <1>2, SettlementHandled DEF Transfer

LEMMA HardwareTransferHandled ==
  ASSUME TypeOK, NEW s \in Ids, NEW r \in Ids, NEW amount \in Amounts,
         HardwareTransfer(s, r, amount)
  PROVE  \E st, q : Handled(st, q)
<1>1. PICK v1 \in BOOLEAN, v2 \in BOOLEAN : Settlement(s, r, amount, "shielded", v1, v2)
  BY DEF HardwareTransfer
<1>2. QED
  BY <1>1, SettlementHandled DEF HardwareTransfer

LEMMA MintHandled ==
  ASSUME TypeOK, NEW id \in Ids, NEW amount \in MintAmounts, Mint(id, amount)
  PROVE  \E st, q : Handled(st, q)
<1> DEFINE admin == IsMasterAdmin(id, FALSE)
           s1(v) == Opened(Contents, id, admin, v)
           n(v) == GetBalance(Contents, id, admin, v) + amount
           tx == [type |-> "mint", to |-> id, amount |-> amount]
           led(v) == [s1(v).led EXCEPT ![id] = n(v)]
           txs(v) == <<tx>> \o s1(v).txs
           s2(v) == [led |-> led(v), txs |-> txs(v)]
           q1(v) == SaveIfNew(Contents, s1(v))
           q2(v) == q1(v) \o SaveState(s2(v))
<1>1. PICK v \in (IF id \in Admins THEN CheckStatus(FALSE) ELSE {attached}) :
         /\ Ready
         /\ Finish(s2(v), q2(v))
  BY DEF Mint
<1>2. v \in BOOLEAN
  <2>1. attached \in BOOLEAN
    BY DEF TypeOK
  <2>2. CheckStatus(FALSE) \subseteq BOOLEAN
    BY ReadingsTyped
  <2>3. QED
    BY <2>1, <2>2
<1>3. Contents \in States /\ admin \in BOOLEAN
  BY ContentsTyped, MasterIsBoolean
<1>4. s1(v) \in States /\ Grown(Contents, s1(v))
  BY <1>2, <1>3, OpenedShape, OpenedGrows
<1>5. n(v) \in Int /\ amount \in Int
  <2>1. GetBalance(Contents, id, admin, v) \in Int
    BY <1>2, <1>3, BalanceIsInt
  <2>2. amount \in Int
    BY TokenLedgerAssumption
  <2>3. \A a, b \in Int : a + b \in Int
    OBVIOUS
  <2>4. QED
    BY <2>1, <2>2, <2>3, Zenon
<1>6. ASSUME Matches(ledgers, transactions)
      PROVE  Matches(s1(v).led, s1(v).txs) /\ Matches(s2(v).led, s2(v).txs)
  <2>1. Matches(Contents.led, Contents.txs)
    BY <1>6 DEF Contents
  <2>2. admin => id \notin Ordinary
    BY OrdinaryAreNot
  <2>3. Matches(s1(v).led, s1(v).txs)
    BY <1>2, <1>3, <2>1, <2>2, OpenedMatches
  <2>4. id \in Ordinary =>
          GetBalance(Contents, id, admin, v) = s1(v).led[id] /\ s1(v).led[id] \in Int
    <3>1. id \in Ordinary => ~admin
      BY <1>3, OrdinaryAreNot
    <3> HIDE DEF admin
    <3>2. QED
      BY <1>2, <1>3, <3>1, OpenedBalance
  <2>5. GetBalance(Contents, id, admin, v) \in Int
    BY <1>2, <1>3, BalanceIsInt
  <2>6. s1(v).led \in Balances /\ s1(v).txs \in Seq(TxRecord)
    BY <1>4 DEF States
  <2> HIDE DEF s1, admin
  <2>7. Matches(led(v), txs(v))
    BY <1>5, <2>3, <2>4, <2>5, <2>6, MintMatches
  <2>8. s2(v).led = led(v) /\ s2(v).txs = txs(v)
    OBVIOUS
  <2> HIDE DEF led, txs, s2
  <2>9. QED
    BY <2>3, <2>7, <2>8
<1> HIDE DEF s1, n
<1>7. s2(v) \in States /\ Grown(s1(v), s2(v))
  <2>1. s1(v).led \in Balances /\ s1(v).txs \in Seq(TxRecord)
    BY <1>4 DEF States
  <2>2. tx \in TxRecord /\ tx.type # "genesis"
    BY <1>5 DEF TxRecord
  <2>3. led(v) \in Balances /\ Accounts(s1(v).led) \subseteq Accounts(led(v))
    BY <2>1, <1>5, Overwritten
  <2> HIDE DEF led, tx
  <2>4. /\ txs(v) \in Seq(TxRecord)
        /\ Len(txs(v)) = Len(s1(v).txs) + 1
        /\ txs(v)[1] = tx
        /\ \A i \in 2 .. Len(txs(v)) : txs(v)[i] = s1(v).txs[i - 1]
    BY <2>1, <2>2
  <2> HIDE DEF txs
  <2>5. Len(txs(v)) <= Len(s1(v).txs) + 1
    BY <2>1, <2>4
  <2>6. QED
    BY <1>4, <2>2, <2>3, <2>4, <2>5, RecordedGrows
<1> HIDE DEF s2
<1>8. Wrote(q1(v), Contents, s1(v))
  <2>1. Wrote(<<>> \o q1(v), Contents, s1(v))
    BY <1>3, <1>4, WroteNothing, WroteIfNew
  <2>2. <<>> \o q1(v) = q1(v)
    BY DEF SaveIfNew, SaveState
  <2>3. QED
    BY <2>1, <2>2
<1>9. Matches(s1(v).led, s1(v).txs) => AllMatch(q1(v))
  BY <1>3, <1>4, FirstMatch
<1> HIDE DEF q1
<1>10. Wrote(q2(v), Contents, s2(v))
  BY <1>3, <1>4, <1>7, <1>8, WroteNext
<1>11. Matches(s1(v).led, s1(v).txs) /\ Matches(s2(v).led, s2(v).txs) => AllMatch(q2(v))
  <2>1. q1(v) \in Seq(Writes) /\ Alternate(q1(v)) /\ Len(q1(v)) % 2 = 0
    BY <1>8 DEF Wrote
  <2>2. QED
    BY <2>1, <1>7, <1>9, MatchNext
<1> HIDE DEF q2
<1>12. Handled(s2(v), q2(v))
  BY <1>1, <1>6, <1>7, <1>10, <1>11 DEF Handled, Finish
<1>13. QED
  BY <1>12

-----------------------------------------------------------------------------
(* The type invariant. *)

LEMMA TypeInit == Init => TypeOK
<1> SUFFICES ASSUME Init PROVE TypeOK
  OBVIOUS
<1>1. [id \in Ids |-> NoAccount] \in Balances
  BY DEF Balances
<1>2. /\ physical \in BOOLEAN /\ attached \in BOOLEAN /\ fresh \in BOOLEAN
      /\ running \in BOOLEAN
      /\ unsaved \in BOOLEAN /\ split \in BOOLEAN
      /\ disturbed \in BOOLEAN /\ ledgerLost \in BOOLEAN
  BY DEF Init
<1>3. failures \in 0 .. MaxFailures
  BY TokenLedgerAssumption DEF Init
<1>4. transactions \in Seq(TxRecord) /\ \A S : saves \in Seq(S)
  BY DEF Init
<1>5. ledgers \in Balances /\ ledgerFile \in {NoFile, Torn} /\ txFile \in {NoFile, Torn}
  BY <1>1 DEF Init
<1>6. QED
  BY <1>2, <1>3, <1>4, <1>5 DEF TypeOK

\* What is left of a queue after its first h writes.
LEMMA Dropped ==
  ASSUME NEW S, NEW q \in Seq(S), NEW h \in Nat, h <= Len(q)
  PROVE  /\ SubSeq(q, h + 1, Len(q)) \in Seq(S)
         /\ Len(SubSeq(q, h + 1, Len(q))) = Len(q) - h
         /\ \A k \in 1 .. Len(q) - h : SubSeq(q, h + 1, Len(q))[k] = q[k + h]
OBVIOUS

LEMMA DroppedOne ==
  ASSUME NEW S, NEW q \in Seq(S), q # <<>>
  PROVE  /\ Tail(q) \in Seq(S)
         /\ Len(Tail(q)) = Len(q) - 1
         /\ \A k \in 1 .. Len(q) - 1 : Tail(q)[k] = q[k + 1]
         /\ Head(q) = q[1] /\ 1 \in DOMAIN q /\ Len(q) \in Nat \ {0}
OBVIOUS

\* A write of the queue, by its file.
LEMMA WriteTyped ==
  ASSUME NEW w \in Writes
  PROVE  /\ w.file \in {"ledgers", "transactions"}
         /\ w.file = "ledgers" => w.data \in Balances
         /\ w.file = "transactions" => w.data \in Seq(TxRecord)
BY DEF Writes

\* The writes left over after a failed one.
LEMMA Skipped ==
  ASSUME TypeOK, saves # <<>>, Alternate(saves)
  PROVE  HalvesLeft \in {1, 2} /\ HalvesLeft <= Len(saves)
<1>1. saves \in Seq(Writes)
  BY DEF TypeOK, Writes
<1>2. Len(saves) \in Nat \ {0}
  BY <1>1
<1>3. QED
  BY <1>2 DEF HalvesLeft

LEMMA EvenLeft ==
  ASSUME saves \in Seq(Writes), saves # <<>>
  PROVE  (Len(saves) - HalvesLeft) % 2 = 0
<1>1. Len(saves) \in Nat
  OBVIOUS
<1>2. CASE Len(saves) % 2 = 0
  <2>1. HalvesLeft = 2
    BY <1>2 DEF HalvesLeft
  <2>2. QED
    BY <1>1, <1>2, <2>1
<1>3. CASE Len(saves) % 2 # 0
  <2>1. HalvesLeft = 1
    BY <1>3 DEF HalvesLeft
  <2>2. QED
    BY <1>1, <1>3, <2>1
<1>4. QED
  BY <1>1, <1>2, <1>3

\* Every handler leaves the token's variables, and the note of a cut history,
\* what they are.
LEMMA HandlerTokens ==
  ASSUME TypeOK,
         \/ \E id \in Ids : ReadBalance(id)
         \/ \E s, r \in Ids, amount \in Amounts : Transfer(s, r, amount)
         \/ \E s, r \in Ids, amount \in Amounts : HardwareTransfer(s, r, amount)
         \/ \E id \in Ids, amount \in MintAmounts : Mint(id, amount)
  PROVE  /\ physical' = physical /\ attached' \in BOOLEAN /\ fresh' \in BOOLEAN
         /\ disturbed' \in BOOLEAN /\ (disturbed => disturbed')
<1>1. /\ attached \in BOOLEAN /\ fresh \in BOOLEAN /\ disturbed \in BOOLEAN
      /\ \A f \in BOOLEAN : CheckStatus(f) \subseteq BOOLEAN
  BY ReadingsTyped DEF TypeOK
<1>2. ASSUME NEW s, NEW r, NEW amount, NEW type, NEW v1, NEW v2,
             Settlement(s, r, amount, type, v1, v2)
      PROVE  physical' = physical /\ disturbed' \in BOOLEAN /\ (disturbed => disturbed')
  <2>1. physical' = physical /\ disturbed' \in BOOLEAN
    BY <1>1, <1>2 DEF Settlement, Finish
  <2>2. UNCHANGED disturbed \/ \E c : disturbed' = (disturbed \/ c)
    BY <1>2, Zenon DEF Settlement
  <2>3. QED
    BY <2>1, <2>2
<1>3. CASE \E id \in Ids : ReadBalance(id)
  <2>1. PICK id \in Ids, v \in CheckStatus(FALSE) :
           \E st, q : Settle(v) /\ Finish(st, q) /\ UNCHANGED disturbed
    BY <1>3, Zenon DEF ReadBalance
  <2>2. PICK st, q : Settle(v) /\ Finish(st, q) /\ UNCHANGED disturbed
    BY <2>1, Zenon
  <2>3. v \in BOOLEAN
    BY <1>1, <2>1
  <2>4. attached' \in BOOLEAN /\ fresh' \in BOOLEAN
    BY <2>2, <2>3 DEF Settle
  <2>5. physical' = physical
    BY <2>2 DEF Finish
  <2>6. QED
    BY <2>2, <2>4, <2>5, <1>1
<1>4. CASE \E s, r \in Ids, amount \in Amounts : Transfer(s, r, amount)
  BY <1>1, <1>2, <1>4 DEF Transfer, Settle
<1>5. CASE \E s, r \in Ids, amount \in Amounts : HardwareTransfer(s, r, amount)
  BY <1>1, <1>2, <1>5 DEF HardwareTransfer, Settle
<1>6. CASE \E id \in Ids, amount \in MintAmounts : Mint(id, amount)
  <2>1. PICK id \in Ids : \E v \in IF id \in Admins THEN CheckStatus(FALSE) ELSE {attached} :
           \E st, q :
             /\ IF id \in Admins THEN Settle(v) ELSE UNCHANGED <<attached, fresh>>
             /\ Finish(st, q)
             /\ UNCHANGED disturbed
    BY <1>6, Zenon DEF Mint
  <2>2. QED
    BY <2>1, <1>1 DEF Settle, Finish
<1>7. QED
  BY <1>3, <1>4, <1>5, <1>6

\* A step is a handler at work, one that leaves ledger and files alone, a write,
\* or the end or the beginning of a process.
Idle ==
  /\ UNCHANGED <<running, memory, saves, disk, failures, ghosts>>
  /\ TypeOK => physical' \in BOOLEAN /\ attached' \in BOOLEAN /\ fresh' \in BOOLEAN

LEMMA StepKinds ==
  ASSUME TypeOK, [Next]_vars
  PROVE  \/ (\E st, q : Handled(st, q)) /\ physical' = physical
            /\ attached' \in BOOLEAN /\ fresh' \in BOOLEAN
            /\ disturbed' \in BOOLEAN /\ (disturbed => disturbed')
         \/ Idle
         \/ WriteLedger
         \/ WriteTransactions
         \/ \E torn \in BOOLEAN : WriteFails(torn)
         \/ \E torn \in BOOLEAN : Crash(torn)
         \/ Start
<1>1. CASE \E id \in Ids : ReadBalance(id)
  BY <1>1, ReadBalanceHandled, HandlerTokens
<1>2. CASE \E s, r \in Ids, amount \in Amounts : Transfer(s, r, amount)
  BY <1>2, TransferHandled, HandlerTokens
<1>3. CASE \E s, r \in Ids, amount \in Amounts : HardwareTransfer(s, r, amount)
  BY <1>3, HardwareTransferHandled, HandlerTokens
<1>4. CASE \E id \in Ids, amount \in MintAmounts : Mint(id, amount)
  BY <1>4, MintHandled, HandlerTokens
<1>5. CASE AdminTransferRefused
  <2>1. EnforceAttached \subseteq BOOLEAN
    BY ReadingsTyped DEF EnforceAttached
  <2>2. QED
    BY <1>5, <2>1 DEF AdminTransferRefused, Idle, Settle, TypeOK
<1>6. CASE HardwareTransferHalted
  BY <1>6 DEF HardwareTransferHalted, Idle, Settle, TypeOK
<1>7. CASE TokenStep
  BY <1>7 DEF TokenStep, Plug, Unplug, Age, Idle, TypeOK
<1>8. CASE Poll
  <2>1. CheckStatus(TRUE) \subseteq BOOLEAN
    BY ReadingsTyped
  <2>2. QED
    BY <1>8, <2>1 DEF Poll, PollToken, Idle, Settle, TypeOK
<1>9. CASE UNCHANGED vars
  BY <1>9 DEF vars, tokenVars, Idle, TypeOK
<1>10. QED
  BY <1>1, <1>2, <1>3, <1>4, <1>5, <1>6, <1>7, <1>8, <1>9 DEF Next

LEMMA SeededTyped ==
  ASSUME NEW led \in Balances
  PROVE  /\ Seeded(led) \in Balances
         /\ Accounts(led) \subseteq Accounts(Seeded(led))
<1>1. \A id \in Ids : led[id] \in Int \cup {NoAccount}
  BY DEF Balances
<1>2. Stake \in Int /\ Stake # NoAccount
  BY TokenLedgerAssumption
<1>3. QED
  BY <1>1, <1>2 DEF Seeded, Balances, Accounts

\* What a start loads: the files it can read.
FileLedger  == IF Readable(ledgerFile) THEN ledgerFile ELSE [id \in Ids |-> NoAccount]
FileHistory == IF Readable(txFile) THEN txFile ELSE <<>>
Loaded == [led |-> Seeded(FileLedger), txs |-> FileHistory]

LEMMA LoadedTyped ==
  ASSUME TypeOK
  PROVE  Loaded \in States
<1>1. FileLedger \in Balances
  BY DEF TypeOK, FileLedger, Readable, Balances
<1>2. FileHistory \in Seq(TxRecord)
  BY DEF TypeOK, FileHistory, Readable
<1>3. QED
  BY <1>1, <1>2, SeededTyped DEF Loaded, States

LEMMA TypeStep == TypeOK /\ Alternate(saves) /\ [Next]_vars => TypeOK'
<1> SUFFICES ASSUME TypeOK, Alternate(saves), [Next]_vars PROVE TypeOK'
  OBVIOUS
<1> USE DEF memory, disk, ghosts
<1>1. saves \in Seq(Writes)
  BY DEF TypeOK, Writes
<1>2. \A w \in Writes : /\ w.file = "ledgers" => w.data \in Balances
                        /\ w.file = "transactions" => w.data \in Seq(TxRecord)
  BY WriteTyped
<1>3. ASSUME NEW st, NEW q, Handled(st, q), physical' = physical,
             attached' \in BOOLEAN, fresh' \in BOOLEAN, disturbed' \in BOOLEAN
      PROVE  TypeOK'
  <2>1. saves' \in Seq(Writes) /\ ledgers' \in Balances /\ transactions' \in Seq(TxRecord)
    BY <1>3 DEF Handled, Wrote, States
  <2>2. QED
    BY <1>3, <2>1 DEF Handled, TypeOK, Writes
<1>4. CASE Idle
  BY <1>4 DEF Idle, TypeOK
<1>5. CASE WriteLedger
  <2>1. saves' \in Seq(Writes) /\ Half \in Writes
    BY <1>1, <1>5, DroppedOne DEF WriteLedger, Half
  <2>2. QED
    BY <1>2, <1>5, <2>1 DEF WriteLedger, TypeOK, tokenVars, Writes
<1>6. CASE WriteTransactions
  <2>1. saves' \in Seq(Writes) /\ Half \in Writes
    BY <1>1, <1>6, DroppedOne DEF WriteTransactions, Half
  <2>2. QED
    BY <1>2, <1>6, <2>1 DEF WriteTransactions, TypeOK, tokenVars, Writes
<1>7. ASSUME NEW torn \in BOOLEAN, TearHalf(torn)
      PROVE  /\ ledgerFile' \in Balances \cup {NoFile, Torn}
             /\ txFile' \in Seq(TxRecord) \cup {NoFile, Torn}
             /\ split' \in BOOLEAN
  BY <1>7 DEF TearHalf, TypeOK
<1>8. failures < MaxFailures => failures + 1 \in 0 .. MaxFailures
  BY TokenLedgerAssumption DEF TypeOK
<1>9. ASSUME NEW torn \in BOOLEAN, WriteFails(torn) PROVE TypeOK'
  <2>1. HalvesLeft \in Nat /\ HalvesLeft <= Len(saves)
    BY <1>9, Skipped DEF WriteFails
  <2>2. saves' \in Seq(Writes)
    BY <1>1, <1>9, <2>1, Dropped DEF WriteFails
  <2>3. QED
    BY <1>7, <1>8, <1>9, <2>2 DEF WriteFails, TypeOK, tokenVars, Writes
<1>10. ASSUME NEW torn \in BOOLEAN, Crash(torn) PROVE TypeOK'
  <2>1. ledgers' \in Balances /\ transactions' \in Seq(TxRecord) /\ saves' \in Seq(Writes)
    BY <1>10 DEF Crash, Balances
  <2>2. /\ ledgerFile' \in Balances \cup {NoFile, Torn}
        /\ txFile' \in Seq(TxRecord) \cup {NoFile, Torn}
        /\ split' \in BOOLEAN
    BY <1>7, <1>10 DEF Crash, TypeOK
  <2>3. QED
    BY <1>8, <1>10, <2>1, <2>2 DEF Crash, TypeOK, Writes
<1>11. CASE Start
  <2>1. ledgers' = Loaded.led /\ transactions' = Loaded.txs /\ saves' = SaveState(Loaded)
    BY <1>11 DEF Start, Loaded, FileLedger, FileHistory
  <2>2. ledgers' \in Balances /\ transactions' \in Seq(TxRecord) /\ saves' \in Seq(Writes)
    <3>1. Loaded \in States
      BY LoadedTyped
    <3>2. <<>> \o SaveState(Loaded) = SaveState(Loaded)
      BY DEF SaveState
    <3>3. SaveState(Loaded) \in Seq(Writes)
      <4>1. <<>> \in Seq(Writes)
        OBVIOUS
      <4>2. <<>> \o SaveState(Loaded) \in Seq(Writes)
        BY <4>1, <3>1, AppendSave
      <4>3. QED
        BY <4>2, <3>2
    <3>4. QED
      BY <2>1, <3>1, <3>3 DEF States
  <2>3. attached' \in BOOLEAN /\ fresh' \in BOOLEAN
    BY <1>11, ReadingsTyped DEF Start, Settle
  <2>4. QED
    BY <1>11, <2>2, <2>3 DEF Start, TypeOK, Writes
<1>12. QED
  BY <1>3, <1>4, <1>5, <1>6, <1>9, <1>10, <1>11, StepKinds

-----------------------------------------------------------------------------
(* The order of the writes, and what is on the disk once they are done. *)

\* A history about to be written belongs to the ledger before it in the queue,
\* or, when that one is done, to the file; the last save of the queue is what
\* memory holds.
QueueIsMemory ==
  IF saves = <<>>
  THEN Ready /\ ~unsaved => ledgerFile = ledgers /\ txFile = transactions
  ELSE /\ running
       /\ saves[Len(saves)].data = transactions
       /\ ledgers = IF Len(saves) = 1 THEN ledgerFile ELSE saves[Len(saves) - 1].data

QueueInv == Alternate(saves) /\ QueueIsMemory

LEMMA QueueInit == Init => QueueInv
BY DEF Init, QueueInv, QueueIsMemory, Alternate, Ready

\* The first write of the queue done, the others keep their order.
LEMMA AlternateDropped ==
  ASSUME NEW q \in Seq(Writes), Alternate(q), NEW h \in Nat, h <= Len(q),
         NEW r \in Seq(Writes), Len(r) = Len(q) - h,
         \A k \in 1 .. Len(q) - h : r[k] = q[k + h]
  PROVE  Alternate(r)
<1>1. Len(q) \in Nat /\ DOMAIN q = 1 .. Len(q) /\ DOMAIN r = 1 .. Len(q) - h
  OBVIOUS
<1> SUFFICES ASSUME NEW k \in 1 .. Len(q) - h
             PROVE  r[k].file = IF (Len(r) - k) % 2 = 0 THEN "transactions" ELSE "ledgers"
  BY <1>1 DEF Alternate
<1>2. k + h \in DOMAIN q /\ Len(r) - k = Len(q) - (k + h)
  BY <1>1
<1>3. q[k + h].file = IF (Len(q) - (k + h)) % 2 = 0 THEN "transactions" ELSE "ledgers"
  BY <1>2 DEF Alternate
<1>4. QED
  BY <1>2, <1>3

LEMMA QueueStep == TypeOK /\ QueueInv /\ [Next]_vars => QueueInv'
<1> SUFFICES ASSUME TypeOK, QueueInv, [Next]_vars PROVE QueueInv'
  OBVIOUS
<1> USE DEF memory, disk, ghosts
<1>1. saves \in Seq(Writes) /\ Alternate(saves)
  BY DEF TypeOK, Writes, QueueInv
<1>2. (Alternate(saves))' = Alternate(saves')
  BY DEF Alternate
<1>3. ASSUME NEW st, NEW q, Handled(st, q) PROVE QueueInv'
  <2>1. /\ q \in Seq(Writes) /\ Alternate(q) /\ Len(q) % 2 = 0
        /\ IF q = <<>> THEN st = Contents
           ELSE q[Len(q) - 1].data = st.led /\ q[Len(q)].data = st.txs
        /\ saves' = q /\ ledgers' = st.led /\ transactions' = st.txs
        /\ Ready /\ UNCHANGED <<running, disk, unsaved>>
    BY <1>3 DEF Handled, Wrote
  <2>2. CASE q = <<>>
    <3>1. ledgers' = ledgers /\ transactions' = transactions
      BY <2>1, <2>2 DEF Contents
    <3>2. saves = <<>> /\ saves' = <<>>
      BY <2>1, <2>2 DEF Ready
    <3>3. QED
      BY <1>2, <2>1, <2>2, <3>1, <3>2 DEF QueueInv, QueueIsMemory, Ready
  <2>3. CASE q # <<>>
    <3>1. Len(q) # 1
      <4>1. Len(q) % 2 = 0
        BY <2>1
      <4>2. 1 % 2 # 0
        OBVIOUS
      <4>3. QED
        BY <4>1, <4>2, Zenon
    <3>2. QED
      BY <1>2, <2>1, <2>3, <3>1 DEF QueueInv, QueueIsMemory, Ready
  <2>4. QED
    BY <2>2, <2>3
<1>4. CASE Idle
  BY <1>4, <1>2 DEF Idle, QueueInv, QueueIsMemory, Ready
<1>5. ASSUME saves # <<>>, saves' = Tail(saves)
      PROVE  /\ saves' \in Seq(Writes) /\ Alternate(saves')
             /\ Len(saves) \in Nat \ {0} /\ Len(saves') = Len(saves) - 1
             /\ \A k \in 1 .. Len(saves) - 1 : saves'[k] = saves[k + 1]
             /\ Half = saves[1]
             /\ Len(saves) = 1 => saves' = <<>> /\ Half.file = "transactions"
             /\ Len(saves) = 2 => Half.file = "ledgers"
  <2>1. /\ saves' \in Seq(Writes)
        /\ Len(saves') = Len(saves) - 1
        /\ \A k \in 1 .. Len(saves) - 1 : saves'[k] = saves[k + 1]
        /\ Half = saves[1] /\ 1 \in DOMAIN saves /\ Len(saves) \in Nat \ {0}
    BY <1>1, <1>5, DroppedOne DEF Half
  <2>2. Alternate(saves')
    BY <1>1, <2>1, AlternateDropped
  <2>3. Len(saves) = 1 => saves' = <<>>
    BY <2>1
  <2>4. Half.file = IF (Len(saves) - 1) % 2 = 0 THEN "transactions" ELSE "ledgers"
    BY <1>1, <2>1 DEF Alternate
  <2>5. QED
    BY <2>1, <2>2, <2>3, <2>4
<1>6. CASE WriteLedger
  <2>1. /\ saves # <<>> /\ Half.file = "ledgers"
        /\ ledgerFile' = Half.data /\ saves' = Tail(saves)
        /\ UNCHANGED <<running, ledgers, transactions>>
    BY <1>6 DEF WriteLedger
  <2>2. /\ saves' \in Seq(Writes) /\ Alternate(saves')
        /\ Len(saves) \in Nat \ {0} /\ Len(saves') = Len(saves) - 1
        /\ \A k \in 1 .. Len(saves) - 1 : saves'[k] = saves[k + 1]
        /\ Half = saves[1] /\ Len(saves) # 1
    BY <1>5, <2>1
  <2>3. saves' # <<>> /\ Len(saves') \in 1 .. Len(saves) - 1
    BY <2>2
  <2>4. /\ running
        /\ saves[Len(saves)].data = transactions
        /\ ledgers = saves[Len(saves) - 1].data
    BY <2>1, <2>2 DEF QueueInv, QueueIsMemory
  <2>5. saves'[Len(saves')] = saves[Len(saves)]
    BY <2>2, <2>3
  <2>6. ledgers = IF Len(saves') = 1 THEN ledgerFile' ELSE saves'[Len(saves') - 1].data
    <3>1. CASE Len(saves') = 1
      BY <2>1, <2>2, <2>4, <3>1
    <3>2. CASE Len(saves') # 1
      <4>1. Len(saves') - 1 \in 1 .. Len(saves) - 1
        BY <2>2, <2>3, <3>2
      <4>2. saves'[Len(saves') - 1] = saves[Len(saves) - 1]
        BY <2>2, <4>1
      <4>3. QED
        BY <2>4, <3>2, <4>2
    <3>3. QED
      BY <3>1, <3>2
  <2>7. QED
    BY <1>2, <2>1, <2>2, <2>3, <2>4, <2>5, <2>6 DEF QueueInv, QueueIsMemory
<1>7. CASE WriteTransactions
  <2>1. /\ saves # <<>> /\ Half.file = "transactions"
        /\ txFile' = Half.data /\ saves' = Tail(saves)
        /\ UNCHANGED <<running, ledgers, transactions, ledgerFile>>
    BY <1>7 DEF WriteTransactions
  <2>2. /\ saves' \in Seq(Writes) /\ Alternate(saves')
        /\ Len(saves) \in Nat \ {0} /\ Len(saves') = Len(saves) - 1
        /\ \A k \in 1 .. Len(saves) - 1 : saves'[k] = saves[k + 1]
        /\ Half = saves[1] /\ Len(saves) # 2
        /\ Len(saves) = 1 => saves' = <<>>
    BY <1>5, <2>1
  <2>3. /\ running
        /\ saves[Len(saves)].data = transactions
        /\ ledgers = IF Len(saves) = 1 THEN ledgerFile ELSE saves[Len(saves) - 1].data
    BY <2>1 DEF QueueInv, QueueIsMemory
  <2>4. CASE Len(saves) = 1
    BY <1>2, <2>1, <2>2, <2>3, <2>4 DEF QueueInv, QueueIsMemory
  <2>5. CASE Len(saves) # 1
    <3>1. /\ Len(saves') \in 1 .. Len(saves) - 1 /\ Len(saves') # 1
          /\ Len(saves') - 1 \in 1 .. Len(saves) - 1
      BY <2>2, <2>5
    <3>2. /\ saves' # <<>>
          /\ saves'[Len(saves')] = saves[Len(saves)]
          /\ saves'[Len(saves') - 1] = saves[Len(saves) - 1]
      BY <2>2, <3>1
    <3>3. QED
      BY <1>2, <2>1, <2>2, <2>3, <2>5, <3>1, <3>2 DEF QueueInv, QueueIsMemory
  <2>6. QED
    BY <2>4, <2>5
<1>8. ASSUME NEW torn \in BOOLEAN, WriteFails(torn) PROVE QueueInv'
  <2> DEFINE h == HalvesLeft
  <2>1. h \in {1, 2} /\ h <= Len(saves)
    BY <1>1, <1>8, Skipped DEF WriteFails
  <2>2. Len(saves) \in Nat /\ (Len(saves) - h) % 2 = 0
    BY <1>1, <1>8, EvenLeft DEF WriteFails
  <2>3. /\ saves' \in Seq(Writes)
        /\ Len(saves') = Len(saves) - h
        /\ \A k \in 1 .. Len(saves) - h : saves'[k] = saves[k + h]
    BY <1>1, <1>8, <2>1, Dropped DEF WriteFails
  <2> HIDE DEF h
  <2>4. Alternate(saves')
    BY <1>1, <2>1, <2>3, AlternateDropped
  <2>5. CASE saves' = <<>>
    BY <1>2, <1>8, <2>4, <2>5 DEF WriteFails, QueueInv, QueueIsMemory
  <2>6. CASE saves' # <<>>
    <3>1. Len(saves') # 0
      BY <2>3, <2>6
    <3>2. Len(saves') # 1 /\ Len(saves') \in 2 .. Len(saves) - h
      BY <2>1, <2>2, <2>3, <3>1
    <3>3. /\ saves'[Len(saves')] = saves[Len(saves)]
          /\ saves'[Len(saves') - 1] = saves[Len(saves) - 1]
      BY <2>1, <2>2, <2>3, <3>2
    <3>4. Len(saves) # 1
      BY <2>1, <2>2, <2>3, <3>2
    <3>5. QED
      BY <1>2, <1>8, <2>4, <2>6, <3>2, <3>3, <3>4
      DEF WriteFails, QueueInv, QueueIsMemory
  <2>7. QED
    BY <2>5, <2>6
<1>9. ASSUME NEW torn \in BOOLEAN, Crash(torn) PROVE QueueInv'
  <2>1. Alternate(<<>>)
    BY DEF Alternate
  <2>2. QED
    BY <1>2, <1>9, <2>1 DEF Crash, QueueInv, QueueIsMemory, Ready
<1>10. CASE Start
  <2> DEFINE a == [file |-> "ledgers", data |-> Loaded.led]
             b == [file |-> "transactions", data |-> Loaded.txs]
  <2>1. ledgers' = Loaded.led /\ transactions' = Loaded.txs /\ saves' = <<a, b>> /\ running'
    BY <1>10 DEF Start, Loaded, SaveState, FileLedger, FileHistory
  <2>2. Alternate(<<a, b>>)
    BY DEF Alternate
  <2>3. QED
    BY <1>2, <2>1, <2>2 DEF QueueInv, QueueIsMemory
<1>11. QED
  BY <1>3, <1>4, <1>6, <1>7, <1>8, <1>9, <1>10, StepKinds

-----------------------------------------------------------------------------
(* The welcome bonus. *)

\* A crash may stop the writes anywhere.  Whatever is in the history file, now or
\* when the next history is written, the ledger file covers it, and so does every
\* ledger that may still follow: the ledger is always written first.
BonusSafe ==
  ~ledgerLost =>
    /\ Sane(Contents)
    /\ Covered(saves, ledgers)
    /\ 1 \in HistoryWrites(saves) =>
         ledgerFile # NoFile /\ Welcomed(saves[1].data) \subseteq Accounts(ledgerFile)
    /\ Readable(txFile) =>
         /\ OneEach(txFile)
         /\ running => Welcomed(txFile) \subseteq Accounts(ledgers)
         /\ ledgerFile # Torn =>
              ledgerFile # NoFile /\ Welcomed(txFile) \subseteq Accounts(ledgerFile)
         /\ \A k \in LedgerWrites(saves) :
              Welcomed(txFile) \subseteq Accounts(saves[k].data)

LEMMA NoHistory == Sane([led |-> [id \in Ids |-> NoAccount], txs |-> <<>>])
                   /\ \A led : Covered(<<>>, led)
BY DEF Sane, OneEach, Welcomed, Covered, HistoryWrites

LEMMA BonusInit == Init => BonusSafe
BY NoHistory DEF Init, BonusSafe, Contents, HistoryWrites, LedgerWrites, Readable

LEMMA CoveredDropped ==
  ASSUME NEW q \in Seq(Writes), NEW h \in Nat, h <= Len(q),
         NEW r \in Seq(Writes), Len(r) = Len(q) - h,
         \A k \in 1 .. Len(q) - h : r[k] = q[k + h],
         NEW led, Covered(q, led)
  PROVE  /\ Covered(r, led)
         /\ \A k \in LedgerWrites(r) : k + h \in LedgerWrites(q) /\ r[k] = q[k + h]
         /\ \A j \in HistoryWrites(r) : j + h \in HistoryWrites(q) /\ r[j] = q[j + h]
<1>1. Len(q) \in Nat /\ DOMAIN q = 1 .. Len(q) /\ DOMAIN r = 1 .. Len(q) - h
  OBVIOUS
<1>2. \A k \in LedgerWrites(r) : k \in Nat /\ k + h \in LedgerWrites(q) /\ r[k] = q[k + h]
  BY <1>1 DEF LedgerWrites
<1>3. \A j \in HistoryWrites(r) : j \in Nat /\ j + h \in HistoryWrites(q) /\ r[j] = q[j + h]
  BY <1>1 DEF HistoryWrites
<1>4. Covered(r, led)
  <2> SUFFICES ASSUME NEW j \in HistoryWrites(r)
               PROVE  /\ OneEach(r[j].data)
                      /\ Welcomed(r[j].data) \subseteq Accounts(led)
                      /\ \A k \in LedgerWrites(r) :
                           j <= k + 1 => Welcomed(r[j].data) \subseteq Accounts(r[k].data)
    BY DEF Covered
  <2>1. OneEach(r[j].data) /\ Welcomed(r[j].data) \subseteq Accounts(led)
    BY <1>3 DEF Covered
  <2>2. ASSUME NEW k \in LedgerWrites(r), j <= k + 1
        PROVE  Welcomed(r[j].data) \subseteq Accounts(r[k].data)
    <3>1. j + h <= (k + h) + 1
      BY <1>2, <1>3, <2>2
    <3>2. QED
      BY <1>2, <1>3, <3>1 DEF Covered
  <2>3. QED
    BY <2>1, <2>2
<1>5. QED
  BY <1>2, <1>3, <1>4

\* An even number of writes begins with a ledger.
LEMMA LedgerFirst ==
  ASSUME NEW q, Alternate(q), Len(q) % 2 = 0, Len(q) \in Nat
  PROVE  1 \notin HistoryWrites(q)
<1> SUFFICES ASSUME 1 \in HistoryWrites(q) PROVE FALSE
  OBVIOUS
<1>1. (Len(q) - 1) % 2 = 0
  BY DEF Alternate, HistoryWrites
<1>2. QED
  BY <1>1

LEMMA HandledKeepsBonus ==
  ASSUME TypeOK, BonusSafe, NEW st, NEW q, Handled(st, q)
  PROVE  BonusSafe'
<1> SUFFICES ASSUME ~ledgerLost PROVE BonusSafe'
  BY DEF BonusSafe, Handled
<1>1. /\ ledgers' = st.led /\ transactions' = st.txs /\ saves' = q
      /\ running' = running /\ running /\ ledgerFile' = ledgerFile /\ txFile' = txFile
      /\ st = [led |-> st.led, txs |-> st.txs]
      /\ Wrote(q, Contents, st)
  BY DEF Handled, disk, Ready, States
<1>2. Contents' = st
  BY <1>1 DEF Contents
<1>3. Sane(Contents)
  BY DEF BonusSafe
<1>4. Sane(st) /\ Covered(q, st.led)
  BY <1>1, <1>3 DEF Wrote, Grown
<1>5. 1 \notin HistoryWrites(q)
  <2>1. Len(q) \in Nat /\ Len(q) % 2 = 0 /\ Alternate(q)
    BY <1>1 DEF Wrote
  <2>2. QED
    BY <2>1, LedgerFirst
<1>6. ASSUME Readable(txFile)
      PROVE  /\ OneEach(txFile)
             /\ Welcomed(txFile) \subseteq Accounts(st.led)
             /\ ledgerFile # Torn =>
                  ledgerFile # NoFile /\ Welcomed(txFile) \subseteq Accounts(ledgerFile)
             /\ \A k \in LedgerWrites(q) : Welcomed(txFile) \subseteq Accounts(q[k].data)
  <2>1. Welcomed(txFile) \subseteq Accounts(ledgers)
    BY <1>1, <1>6 DEF BonusSafe
  <2>2. /\ Accounts(ledgers) \subseteq Accounts(st.led)
        /\ \A k \in LedgerWrites(q) : Accounts(ledgers) \subseteq Accounts(q[k].data)
    BY <1>1 DEF Wrote, Grown, Contents
  <2>3. QED
    BY <1>6, <2>1, <2>2 DEF BonusSafe
<1>7. (Readable(txFile))' = Readable(txFile')
  BY DEF Readable
<1>8. QED
  BY <1>1, <1>2, <1>4, <1>5, <1>6, <1>7 DEF BonusSafe, Readable

\* The writes of the queue, for WriteLedger and WriteTransactions.
LEMMA FirstWritten ==
  ASSUME TypeOK, Alternate(saves), saves # <<>>, BonusSafe, ~ledgerLost
  PROVE  /\ Covered(Tail(saves), ledgers)
         /\ Half = saves[1]
         /\ Half.file = "ledgers" =>
              /\ 1 \in LedgerWrites(saves)
              /\ Half.data \in Balances
              /\ 1 \in HistoryWrites(Tail(saves)) =>
                   Welcomed(Tail(saves)[1].data) \subseteq Accounts(Half.data)
         /\ Half.file = "transactions" =>
              /\ 1 \in HistoryWrites(saves)
              /\ Half.data \in Seq(TxRecord)
              /\ 1 \notin HistoryWrites(Tail(saves))
         /\ \A k \in LedgerWrites(Tail(saves)) :
              /\ k \in Nat /\ k + 1 \in LedgerWrites(saves)
              /\ Tail(saves)[k] = saves[k + 1]
<1>1. saves \in Seq(Writes) /\ Covered(saves, ledgers)
  BY DEF TypeOK, Writes, BonusSafe
<1> DEFINE rest == Tail(saves)
<1>2. /\ rest \in Seq(Writes)
      /\ Len(rest) = Len(saves) - 1
      /\ \A k \in 1 .. Len(saves) - 1 : rest[k] = saves[k + 1]
      /\ Head(saves) = saves[1] /\ 1 \in DOMAIN saves /\ Len(saves) \in Nat \ {0}
  BY <1>1, DroppedOne
<1> HIDE DEF rest
<1>3. /\ Covered(rest, ledgers)
      /\ \A k \in LedgerWrites(rest) :
            k + 1 \in LedgerWrites(saves) /\ rest[k] = saves[k + 1]
      /\ \A j \in HistoryWrites(rest) :
            j + 1 \in HistoryWrites(saves) /\ rest[j] = saves[j + 1]
  <2>1. 1 \in Nat /\ 1 <= Len(saves)
    BY <1>2
  <2>2. QED
    BY <1>1, <1>2, <2>1, CoveredDropped
<1>4. Alternate(rest)
  <2>1. 1 \in Nat /\ 1 <= Len(saves)
    BY <1>2
  <2>2. QED
    BY <1>1, <1>2, <2>1, AlternateDropped
<1>5. Half = saves[1] /\ Half \in Writes
  BY <1>1, <1>2 DEF Half
<1>6. Half.file = IF (Len(saves) - 1) % 2 = 0 THEN "transactions" ELSE "ledgers"
  BY <1>2, <1>5 DEF Alternate
<1>7. ASSUME Half.file = "ledgers"
      PROVE  /\ 1 \in LedgerWrites(saves) /\ Half.data \in Balances
             /\ 1 \in HistoryWrites(rest) =>
                  Welcomed(rest[1].data) \subseteq Accounts(Half.data)
  <2>1. 1 \in LedgerWrites(saves) /\ Half.data \in Balances
    BY <1>2, <1>5, <1>7, WriteTyped DEF LedgerWrites
  <2>2. ASSUME 1 \in HistoryWrites(rest)
        PROVE  Welcomed(rest[1].data) \subseteq Accounts(Half.data)
    <3>1. 2 \in HistoryWrites(saves) /\ rest[1] = saves[2]
      <4>1. 1 + 1 \in HistoryWrites(saves) /\ rest[1] = saves[1 + 1]
        BY <1>3, <2>2, Zenon
      <4>2. QED
        BY <4>1
    <3>2. QED
      BY <1>1, <1>5, <2>1, <3>1 DEF Covered
  <2>3. QED
    BY <2>1, <2>2
<1>8. ASSUME Half.file = "transactions"
      PROVE  /\ 1 \in HistoryWrites(saves) /\ Half.data \in Seq(TxRecord)
             /\ 1 \notin HistoryWrites(rest)
  <2>1. 1 \in HistoryWrites(saves) /\ Half.data \in Seq(TxRecord)
    BY <1>2, <1>5, <1>8, WriteTyped DEF HistoryWrites
  <2>2. Len(rest) \in Nat /\ Len(rest) % 2 = 0
    BY <1>2, <1>6, <1>8
  <2>3. QED
    BY <2>1, <2>2, <1>4, LedgerFirst
<1>9. \A k \in LedgerWrites(rest) : k \in Nat
  BY <1>2 DEF LedgerWrites
<1>10. QED
  BY <1>3, <1>5, <1>7, <1>8, <1>9 DEF rest

LEMMA LedgerWriteKeepsBonus ==
  ASSUME TypeOK, QueueInv, BonusSafe, WriteLedger
  PROVE  BonusSafe'
<1> SUFFICES ASSUME ~ledgerLost PROVE BonusSafe'
  BY DEF BonusSafe, WriteLedger
<1> DEFINE rest == Tail(saves)
<1>1. /\ saves # <<>> /\ Half.file = "ledgers"
      /\ ledgerFile' = Half.data /\ saves' = rest
      /\ UNCHANGED <<running, ledgers, transactions, txFile>>
  BY DEF WriteLedger, memory
<1>2. /\ Covered(rest, ledgers)
      /\ Half = saves[1]
      /\ 1 \in LedgerWrites(saves)
      /\ Half.data \in Balances
      /\ 1 \in HistoryWrites(rest) =>
           Welcomed(rest[1].data) \subseteq Accounts(Half.data)
      /\ \A k \in LedgerWrites(rest) : k + 1 \in LedgerWrites(saves) /\ rest[k] = saves[k + 1]
  BY <1>1, FirstWritten DEF QueueInv
<1> HIDE DEF rest
<1>3. Contents' = Contents /\ Sane(Contents) /\ Half.data # NoFile
  BY <1>1, <1>2, FileAssumption DEF Contents, BonusSafe
<1>4. ASSUME Readable(txFile)
      PROVE  /\ OneEach(txFile)
             /\ running => Welcomed(txFile) \subseteq Accounts(ledgers)
             /\ Welcomed(txFile) \subseteq Accounts(Half.data)
             /\ \A k \in LedgerWrites(rest) :
                  Welcomed(txFile) \subseteq Accounts(rest[k].data)
  <2>1. /\ OneEach(txFile)
        /\ running => Welcomed(txFile) \subseteq Accounts(ledgers)
        /\ \A k \in LedgerWrites(saves) : Welcomed(txFile) \subseteq Accounts(saves[k].data)
    BY <1>4 DEF BonusSafe
  <2>2. QED
    BY <1>2, <2>1
<1>5. (Readable(txFile))' = Readable(txFile)
  BY <1>1 DEF Readable
<1>6. QED
  BY <1>1, <1>2, <1>3, <1>4, <1>5 DEF BonusSafe

LEMMA HistoryWriteKeepsBonus ==
  ASSUME TypeOK, QueueInv, BonusSafe, WriteTransactions
  PROVE  BonusSafe'
<1> SUFFICES ASSUME ~ledgerLost PROVE BonusSafe'
  BY DEF BonusSafe, WriteTransactions
<1> DEFINE rest == Tail(saves)
<1>1. /\ saves # <<>> /\ Half.file = "transactions"
      /\ txFile' = Half.data /\ saves' = rest
      /\ UNCHANGED <<running, ledgers, transactions, ledgerFile>>
  BY DEF WriteTransactions, memory
<1>2. /\ Covered(rest, ledgers)
      /\ Half = saves[1]
      /\ 1 \in HistoryWrites(saves)
      /\ 1 \notin HistoryWrites(rest)
      /\ \A k \in LedgerWrites(rest) : /\ k \in Nat /\ k + 1 \in LedgerWrites(saves)
                                       /\ rest[k] = saves[k + 1]
  BY <1>1, FirstWritten DEF QueueInv
<1> HIDE DEF rest
<1>3. Contents' = Contents /\ Sane(Contents) /\ Covered(saves, ledgers)
  BY <1>1 DEF Contents, BonusSafe
<1>4. /\ OneEach(Half.data)
      /\ Welcomed(Half.data) \subseteq Accounts(ledgers)
      /\ \A k \in LedgerWrites(rest) : Welcomed(Half.data) \subseteq Accounts(rest[k].data)
  <2>1. OneEach(Half.data) /\ Welcomed(Half.data) \subseteq Accounts(ledgers)
    BY <1>2, <1>3 DEF Covered
  <2>2. ASSUME NEW k \in LedgerWrites(rest)
        PROVE  Welcomed(Half.data) \subseteq Accounts(rest[k].data)
    <3>1. 1 <= (k + 1) + 1
      BY <1>2
    <3>2. QED
      BY <1>2, <1>3, <3>1 DEF Covered
  <2>3. QED
    BY <2>1, <2>2
<1>5. ledgerFile # NoFile /\ Welcomed(Half.data) \subseteq Accounts(ledgerFile)
  BY <1>2 DEF BonusSafe
<1>6. QED
  BY <1>1, <1>2, <1>3, <1>4, <1>5 DEF BonusSafe

\* A torn file can only be read as none.
LEMMA TornFiles ==
  ASSUME NEW torn \in BOOLEAN, TearHalf(torn)
  PROVE  /\ ledgerFile' \in {ledgerFile, Torn}
         /\ Readable(txFile') => txFile' = txFile
BY DEF TearHalf, Readable

LEMMA FailedWriteKeepsBonus ==
  ASSUME TypeOK, QueueInv, BonusSafe, NEW torn \in BOOLEAN, WriteFails(torn)
  PROVE  BonusSafe'
<1> SUFFICES ASSUME ~ledgerLost PROVE BonusSafe'
  BY DEF BonusSafe, WriteFails
<1> DEFINE h == HalvesLeft
           rest == SubSeq(saves, h + 1, Len(saves))
<1>1. /\ saves # <<>> /\ saves' = rest
      /\ ledgerFile' \in {ledgerFile, Torn}
      /\ Readable(txFile') => txFile' = txFile
      /\ UNCHANGED <<running, ledgers, transactions>>
  BY TornFiles DEF WriteFails, memory
<1>2. saves \in Seq(Writes) /\ Alternate(saves) /\ Covered(saves, ledgers) /\ Sane(Contents)
  BY DEF TypeOK, Writes, QueueInv, BonusSafe
<1>3. h \in Nat /\ h <= Len(saves) /\ Len(saves) \in Nat
  BY <1>1, <1>2, Skipped
<1>4. (Len(saves) - h) % 2 = 0
  BY <1>1, <1>2, EvenLeft
<1> HIDE DEF h
<1>5. /\ rest \in Seq(Writes) /\ Len(rest) = Len(saves) - h
      /\ \A k \in 1 .. Len(saves) - h : rest[k] = saves[k + h]
  BY <1>2, <1>3, Dropped
<1> HIDE DEF rest
<1>6. /\ Covered(rest, ledgers)
      /\ \A k \in LedgerWrites(rest) : k + h \in LedgerWrites(saves) /\ rest[k] = saves[k + h]
  BY <1>2, <1>3, <1>5, CoveredDropped
<1>7. 1 \notin HistoryWrites(rest)
  <2>1. Alternate(rest)
    BY <1>2, <1>3, <1>5, AlternateDropped
  <2>2. Len(rest) \in Nat /\ Len(rest) % 2 = 0
    BY <1>4, <1>5
  <2>3. QED
    BY <2>1, <2>2, LedgerFirst
<1>8. ASSUME Readable(txFile)
      PROVE  /\ OneEach(txFile)
             /\ running => Welcomed(txFile) \subseteq Accounts(ledgers)
             /\ ledgerFile # Torn =>
                  ledgerFile # NoFile /\ Welcomed(txFile) \subseteq Accounts(ledgerFile)
             /\ \A k \in LedgerWrites(rest) :
                  Welcomed(txFile) \subseteq Accounts(rest[k].data)
  BY <1>6, <1>8 DEF BonusSafe
<1>9. Contents' = Contents
  BY <1>1 DEF Contents
<1>10. (Readable(txFile))' = Readable(txFile')
  BY DEF Readable
<1>11. QED
  BY <1>1, <1>2, <1>6, <1>7, <1>8, <1>9, <1>10 DEF BonusSafe

LEMMA CrashKeepsBonus ==
  ASSUME TypeOK, BonusSafe, NEW torn \in BOOLEAN, Crash(torn)
  PROVE  BonusSafe'
<1> SUFFICES ASSUME ~ledgerLost PROVE BonusSafe'
  BY DEF BonusSafe, Crash
<1>1. /\ ~running' /\ saves' = <<>>
      /\ Contents' = [led |-> [id \in Ids |-> NoAccount], txs |-> <<>>]
  BY DEF Crash, Contents
<1>2. ledgerFile' \in {ledgerFile, Torn} /\ (Readable(txFile') => txFile' = txFile)
  BY TornFiles DEF Crash, disk
<1>3. Sane(Contents') /\ Covered(saves', ledgers')
  BY <1>1, NoHistory
<1>4. (Readable(txFile))' = Readable(txFile')
  BY DEF Readable
<1>5. 1 \notin HistoryWrites(saves') /\ LedgerWrites(saves') = {}
  BY <1>1 DEF HistoryWrites, LedgerWrites
<1>6. (Sane(Contents))' = Sane(Contents')
  OBVIOUS
<1>7. QED
  BY <1>1, <1>2, <1>3, <1>4, <1>5 DEF BonusSafe

LEMMA StartKeepsBonus ==
  ASSUME TypeOK, BonusSafe, Start
  PROVE  BonusSafe'
<1> SUFFICES ASSUME ~ledgerLost' PROVE BonusSafe'
  BY DEF BonusSafe
<1>1. /\ ~ledgerLost /\ ledgerFile # Torn
      /\ ledgers' = Loaded.led /\ transactions' = Loaded.txs
      /\ saves' = SaveState(Loaded)
      /\ ledgerFile' = ledgerFile /\ txFile' = txFile
  BY DEF Start, disk, Loaded, FileLedger, FileHistory
<1>2. Loaded \in States /\ Contents' = Loaded
  BY <1>1, LoadedTyped DEF Contents, States
<1>3. ASSUME Readable(txFile)
      PROVE  /\ Loaded.txs = txFile
             /\ OneEach(txFile)
             /\ ledgerFile # NoFile
             /\ Welcomed(txFile) \subseteq Accounts(ledgerFile)
             /\ Welcomed(txFile) \subseteq Accounts(Loaded.led)
  <2>1. /\ OneEach(txFile)
        /\ ledgerFile # NoFile /\ Welcomed(txFile) \subseteq Accounts(ledgerFile)
    BY <1>1, <1>3 DEF BonusSafe
  <2>2. Readable(ledgerFile) /\ ledgerFile \in Balances
    BY <1>1, <2>1 DEF Readable, TypeOK
  <2>3. Accounts(ledgerFile) \subseteq Accounts(Loaded.led)
    BY <2>2, SeededTyped DEF Loaded, FileLedger, FileHistory
  <2>4. QED
    BY <1>3, <2>1, <2>3 DEF Loaded, FileLedger, FileHistory
<1>4. Sane(Loaded)
  <2>1. CASE Readable(txFile)
    BY <1>3, <2>1 DEF Sane
  <2>2. CASE ~Readable(txFile)
    <3>1. Loaded.txs = <<>>
      BY <2>2 DEF Loaded, FileLedger, FileHistory
    <3>2. QED
      BY <3>1 DEF Sane, OneEach, Welcomed
  <2>3. QED
    BY <2>1, <2>2
<1>5. Wrote(<<>> \o SaveState(Loaded), Loaded, Loaded)
  <2>1. Grown(Loaded, Loaded)
    BY DEF Grown
  <2>2. QED
    BY <1>2, <2>1, WroteNothing, WroteNext
<1>6. <<>> \o SaveState(Loaded) = SaveState(Loaded)
  BY DEF SaveState
<1>7. Wrote(saves', Loaded, Loaded)
  BY <1>1, <1>5, <1>6
<1>8. /\ Covered(saves', ledgers')
      /\ \A k \in LedgerWrites(saves') : Accounts(Loaded.led) \subseteq Accounts(saves'[k].data)
  BY <1>1, <1>4, <1>7 DEF Wrote
<1>9. 1 \notin HistoryWrites(saves')
  <2>1. Len(saves') \in Nat /\ Len(saves') % 2 = 0 /\ Alternate(saves')
    BY <1>7 DEF Wrote
  <2>2. QED
    BY <2>1, LedgerFirst
<1>10. (Readable(txFile))' = Readable(txFile)
  BY <1>1 DEF Readable
<1>11. QED
  BY <1>1, <1>2, <1>3, <1>4, <1>8, <1>9, <1>10 DEF BonusSafe

LEMMA BonusStep == TypeOK /\ QueueInv /\ BonusSafe /\ [Next]_vars => BonusSafe'
<1> SUFFICES ASSUME TypeOK, QueueInv, BonusSafe, [Next]_vars PROVE BonusSafe'
  OBVIOUS
<1>1. CASE Idle
  <2>1. UNCHANGED <<running, ledgers, transactions, saves, ledgerFile, txFile, ledgerLost>>
    BY <1>1 DEF Idle, memory, disk, ghosts
  <2>2. Contents' = Contents /\ (Readable(txFile))' = Readable(txFile)
    BY <2>1 DEF Contents, Readable
  <2>3. QED
    BY <2>1, <2>2 DEF BonusSafe
<1>2. QED
  BY <1>1, StepKinds, HandledKeepsBonus, LedgerWriteKeepsBonus, HistoryWriteKeepsBonus,
     FailedWriteKeepsBonus, CrashKeepsBonus, StartKeepsBonus

-----------------------------------------------------------------------------
(* The history explains the ledger, in memory, in each save of the queue and in *)
(* the two files, unless they belong to two saves.                              *)

HistoryInv ==
  ~disturbed =>
    /\ running => Matches(ledgers, transactions)
    /\ AllMatch(saves)
    /\ 1 \in HistoryWrites(saves) =>
         ledgerFile \in Balances /\ Matches(ledgerFile, saves[1].data)
    /\ ~split => Matches(FileLedger, FileHistory)

LEMMA NothingMatches == Matches([id \in Ids |-> NoAccount], <<>>) /\ AllMatch(<<>>)
<1>1. \A id \in Ordinary : Held([x \in Ids |-> NoAccount], id) = 0
  BY OrdinaryAreNot DEF Held
<1>2. QED
  BY <1>1, NetOfNothing DEF Matches, AllMatch, LedgerWrites

LEMMA HistoryInit == Init => HistoryInv
<1> SUFFICES ASSUME Init PROVE HistoryInv
  OBVIOUS
<1>1. FileLedger = [id \in Ids |-> NoAccount] /\ FileHistory = <<>>
  BY DEF Init, FileLedger, FileHistory, Readable
<1>2. 1 \notin HistoryWrites(saves) /\ ~running /\ saves = <<>>
  BY DEF Init, HistoryWrites
<1>3. QED
  BY <1>1, <1>2, NothingMatches DEF HistoryInv

LEMMA SeededMatches ==
  ASSUME NEW led, NEW txs, Matches(led, txs)
  PROVE  Matches(Seeded(led), txs)
<1>1. \A id \in Ordinary : Seeded(led)[id] = led[id]
  BY OrdinaryAreNot DEF Seeded
<1>2. QED
  BY <1>1 DEF Matches, Held

\* What is left of the queue after h writes still consists of whole saves, but for
\* the history at its head.
LEMMA AllMatchDropped ==
  ASSUME NEW q \in Seq(Writes), Alternate(q), AllMatch(q), NEW h \in Nat, h <= Len(q),
         NEW r \in Seq(Writes), Len(r) = Len(q) - h,
         \A k \in 1 .. Len(q) - h : r[k] = q[k + h]
  PROVE  AllMatch(r)
<1>1. Len(q) \in Nat /\ DOMAIN q = 1 .. Len(q) /\ DOMAIN r = 1 .. Len(q) - h
  OBVIOUS
<1> SUFFICES ASSUME NEW k \in LedgerWrites(r)
             PROVE  Matches(r[k].data, r[k + 1].data)
  BY DEF AllMatch
<1>2. k \in 1 .. Len(q) - h /\ r[k] = q[k + h] /\ k + h \in LedgerWrites(q)
  BY <1>1 DEF LedgerWrites
<1>3. k # Len(q) - h
  <2>1. (Len(q) - Len(q)) % 2 = 0
    BY <1>1
  <2>2. k + h = Len(q) => q[k + h].file = "transactions"
    BY <2>1, <1>1, <1>2 DEF Alternate
  <2>3. k + h # Len(q)
    BY <2>2, <1>2 DEF LedgerWrites
  <2>4. \A n \in Nat : \A i \in 1 .. n - h : i = n - h => i + h = n
    OBVIOUS
  <2>5. QED
    BY <2>3, <2>4, <1>1, <1>2, Zenon
<1>4. k + 1 \in 1 .. Len(q) - h /\ (k + 1) + h = (k + h) + 1
  <2>1. \A n, m \in Nat : \A i \in 1 .. n - m : i # n - m =>
           i + 1 \in 1 .. n - m /\ (i + 1) + m = (i + m) + 1
    OBVIOUS
  <2>2. QED
    BY <2>1, <1>1, <1>2, <1>3, Zenon
<1>5. r[k + 1] = q[(k + h) + 1]
  <2>1. r[k + 1] = q[(k + 1) + h]
    BY <1>4, Zenon
  <2>2. QED
    BY <2>1, <1>4
<1>6. QED
  BY <1>2, <1>5 DEF AllMatch

LEMMA FirstMatches ==
  ASSUME TypeOK, Alternate(saves), saves # <<>>, AllMatch(saves)
  PROVE  /\ AllMatch(Tail(saves))
         /\ Half = saves[1]
         /\ Half.file = "ledgers" =>
              Half.data \in Balances /\ Matches(Half.data, Tail(saves)[1].data)
         /\ Half.file = "transactions" =>
              /\ 1 \in HistoryWrites(saves)
              /\ Half.data \in Seq(TxRecord)
              /\ 1 \notin HistoryWrites(Tail(saves))
<1> DEFINE rest == Tail(saves)
<1>1. saves \in Seq(Writes)
  BY DEF TypeOK, Writes
<1>2. /\ rest \in Seq(Writes)
      /\ Len(rest) = Len(saves) - 1
      /\ \A k \in 1 .. Len(saves) - 1 : rest[k] = saves[k + 1]
      /\ Head(saves) = saves[1] /\ 1 \in DOMAIN saves /\ Len(saves) \in Nat \ {0}
  BY <1>1, DroppedOne
<1> HIDE DEF rest
<1>3. 1 \in Nat /\ 1 <= Len(saves)
  BY <1>2
<1>4. AllMatch(rest) /\ Alternate(rest)
  BY <1>1, <1>2, <1>3, AllMatchDropped, AlternateDropped
<1>5. Half = saves[1] /\ Half \in Writes
  BY <1>1, <1>2 DEF Half
<1>6. Half.file = IF (Len(saves) - 1) % 2 = 0 THEN "transactions" ELSE "ledgers"
  BY <1>2, <1>5 DEF Alternate
<1>7. ASSUME Half.file = "ledgers"
      PROVE  Half.data \in Balances /\ Matches(Half.data, rest[1].data)
  <2>1. 1 \in LedgerWrites(saves) /\ Half.data \in Balances
    BY <1>2, <1>5, <1>7, WriteTyped DEF LedgerWrites
  <2>2. Len(saves) # 1
    <3>1. (1 - 1) % 2 = 0
      OBVIOUS
    <3>2. QED
      BY <3>1, <1>6, <1>7
  <2>3. rest[1] = saves[1 + 1]
    <3>1. 1 \in 1 .. Len(saves) - 1
      BY <1>2, <2>2
    <3>2. QED
      BY <3>1, <1>2, Zenon
  <2>4. QED
    BY <1>5, <2>1, <2>3 DEF AllMatch
<1>8. ASSUME Half.file = "transactions"
      PROVE  /\ 1 \in HistoryWrites(saves) /\ Half.data \in Seq(TxRecord)
             /\ 1 \notin HistoryWrites(rest)
  <2>1. 1 \in HistoryWrites(saves) /\ Half.data \in Seq(TxRecord)
    BY <1>2, <1>5, <1>8, WriteTyped DEF HistoryWrites
  <2>2. Len(rest) \in Nat /\ Len(rest) % 2 = 0
    BY <1>2, <1>6, <1>8
  <2>3. QED
    BY <2>1, <2>2, <1>4, LedgerFirst
<1>9. QED
  BY <1>4, <1>5, <1>7, <1>8 DEF rest

LEMMA HistoryStep == TypeOK /\ QueueInv /\ HistoryInv /\ [Next]_vars => HistoryInv'
<1> SUFFICES ASSUME TypeOK, QueueInv, HistoryInv, [Next]_vars, ~disturbed' PROVE HistoryInv'
  BY DEF HistoryInv
<1> USE DEF memory, disk, ghosts
<1>1. saves \in Seq(Writes) /\ Alternate(saves)
  BY DEF TypeOK, Writes, QueueInv
<1>2. ledgerFile' = ledgerFile /\ txFile' = txFile =>
        FileLedger' = FileLedger /\ FileHistory' = FileHistory
  BY DEF FileLedger, FileHistory, Readable
<1>3. ASSUME NEW st, NEW q, Handled(st, q), disturbed' \in BOOLEAN, ~disturbed
      PROVE  HistoryInv'
  <2>1. /\ ledgers' = st.led /\ transactions' = st.txs /\ saves' = q
        /\ running /\ running' = running /\ ledgerFile' = ledgerFile /\ txFile' = txFile
        /\ split' = split
    BY <1>3 DEF Handled, Ready
  <2>2. Matches(st.led, st.txs) /\ AllMatch(q)
    BY <1>3, <2>1 DEF Handled, HistoryInv
  <2>3. 1 \notin HistoryWrites(q)
    <3>1. Len(q) \in Nat /\ Len(q) % 2 = 0 /\ Alternate(q)
      BY <1>3 DEF Handled, Wrote
    <3>2. QED
      BY <3>1, LedgerFirst
  <2>4. QED
    BY <1>2, <1>3, <2>1, <2>2, <2>3 DEF HistoryInv
<1>4. CASE Idle
  BY <1>2, <1>4 DEF Idle, HistoryInv
<1>5. CASE WriteLedger
  <2> DEFINE rest == Tail(saves)
  <2>1. /\ saves # <<>> /\ Half.file = "ledgers" /\ ~disturbed
        /\ ledgerFile' = Half.data /\ saves' = rest /\ split' = TRUE
        /\ UNCHANGED <<running, ledgers, transactions>>
    BY <1>5 DEF WriteLedger
  <2>2. /\ AllMatch(saves)
        /\ running => Matches(ledgers, transactions)
    BY <2>1 DEF HistoryInv
  <2>3. AllMatch(rest) /\ Half.data \in Balances /\ Matches(Half.data, rest[1].data)
    BY <1>1, <2>1, <2>2, FirstMatches
  <2> HIDE DEF rest
  <2>4. QED
    BY <2>1, <2>2, <2>3 DEF HistoryInv
<1>6. CASE WriteTransactions
  <2> DEFINE rest == Tail(saves)
  <2>1. /\ saves # <<>> /\ Half.file = "transactions" /\ ~disturbed
        /\ txFile' = Half.data /\ saves' = rest
        /\ UNCHANGED <<running, ledgers, transactions, ledgerFile>>
    BY <1>6 DEF WriteTransactions
  <2>2. AllMatch(saves) /\ (running => Matches(ledgers, transactions))
    BY <2>1 DEF HistoryInv
  <2>3. /\ AllMatch(rest) /\ Half = saves[1] /\ Half.data \in Seq(TxRecord)
        /\ 1 \in HistoryWrites(saves) /\ 1 \notin HistoryWrites(rest)
    BY <1>1, <2>1, <2>2, FirstMatches
  <2> HIDE DEF rest
  <2>4. ledgerFile \in Balances /\ Matches(ledgerFile, Half.data)
    BY <2>1, <2>3 DEF HistoryInv
  <2>5. FileLedger' = ledgerFile /\ FileHistory' = Half.data
    BY <2>1, <2>3, <2>4, FileAssumption DEF FileLedger, FileHistory, Readable
  <2>6. QED
    BY <2>1, <2>2, <2>3, <2>4, <2>5 DEF HistoryInv
<1>7. ASSUME NEW torn \in BOOLEAN, TearHalf(torn), ~split', ~disturbed
      PROVE  Matches(FileLedger', FileHistory')
  <2>1. ledgerFile' = ledgerFile /\ txFile' = txFile /\ ~split
    BY <1>7 DEF TearHalf
  <2>2. QED
    BY <1>2, <1>7, <2>1 DEF HistoryInv
<1>8. ASSUME NEW torn \in BOOLEAN, WriteFails(torn) PROVE HistoryInv'
  <2> DEFINE h == HalvesLeft
             rest == SubSeq(saves, h + 1, Len(saves))
  <2>1. /\ saves # <<>> /\ saves' = rest /\ ~disturbed /\ TearHalf(torn)
        /\ UNCHANGED <<running, ledgers, transactions>>
    BY <1>8 DEF WriteFails
  <2>2. h \in Nat /\ h <= Len(saves) /\ Len(saves) \in Nat
    BY <1>1, <2>1, Skipped
  <2>3. (Len(saves) - h) % 2 = 0
    BY <1>1, <2>1, EvenLeft
  <2> HIDE DEF h
  <2>4. /\ rest \in Seq(Writes) /\ Len(rest) = Len(saves) - h
        /\ \A k \in 1 .. Len(saves) - h : rest[k] = saves[k + h]
    BY <1>1, <2>2, Dropped
  <2> HIDE DEF rest
  <2>5. AllMatch(saves) /\ (running => Matches(ledgers, transactions))
    BY <2>1 DEF HistoryInv
  <2>6. AllMatch(rest) /\ Alternate(rest)
    BY <1>1, <2>2, <2>4, <2>5, AllMatchDropped, AlternateDropped
  <2>7. 1 \notin HistoryWrites(rest)
    <3>1. Len(rest) \in Nat /\ Len(rest) % 2 = 0
      BY <2>3, <2>4
    <3>2. QED
      BY <3>1, <2>6, LedgerFirst
  <2>8. ~split' => Matches(FileLedger', FileHistory')
    BY <1>7, <2>1
  <2>9. QED
    BY <2>1, <2>5, <2>6, <2>7, <2>8 DEF HistoryInv
<1>9. ASSUME NEW torn \in BOOLEAN, Crash(torn) PROVE HistoryInv'
  <2>1. ~running' /\ saves' = <<>> /\ ~disturbed
    BY <1>9 DEF Crash
  <2>2. ~split' => Matches(FileLedger', FileHistory')
    <3>1. CASE saves = <<>>
      BY <1>2, <1>9, <2>1, <3>1 DEF Crash, HistoryInv
    <3>2. CASE saves # <<>>
      BY <1>7, <1>9, <2>1, <3>2 DEF Crash
    <3>3. QED
      BY <3>1, <3>2
  <2>3. 1 \notin HistoryWrites(saves') /\ AllMatch(saves')
    BY <2>1, NothingMatches DEF HistoryWrites
  <2>4. QED
    BY <2>1, <2>2, <2>3 DEF HistoryInv
<1>10. CASE Start
  <2>1. /\ ~disturbed /\ ~split
        /\ ledgers' = Loaded.led /\ transactions' = Loaded.txs
        /\ saves' = SaveState(Loaded)
        /\ ledgerFile' = ledgerFile /\ txFile' = txFile
    BY <1>10 DEF Start, Loaded, FileLedger, FileHistory
  <2>2. Loaded \in States /\ Matches(Loaded.led, Loaded.txs)
    <3>1. Matches(FileLedger, FileHistory)
      BY <2>1 DEF HistoryInv
    <3>2. QED
      BY <3>1, SeededMatches, LoadedTyped DEF Loaded
  <2> DEFINE none == <<>>
  <2>3. /\ none \in Seq(Writes) /\ Len(none) = 0
        /\ AllMatch(none) /\ Alternate(none)
    BY NothingMatches DEF Alternate
  <2>4. 0 % 2 = 0
    OBVIOUS
  <2>5. none \o SaveState(Loaded) = SaveState(Loaded)
    BY DEF SaveState
  <2> HIDE DEF none
  <2>6. AllMatch(saves')
    BY <2>1, <2>2, <2>3, <2>4, <2>5, MatchNext
  <2>7. 1 \notin HistoryWrites(saves')
    BY <2>1 DEF SaveState, HistoryWrites
  <2>8. QED
    BY <1>2, <2>1, <2>2, <2>6, <2>7 DEF HistoryInv
<1>11. QED
  BY <1>3, <1>4, <1>5, <1>6, <1>8, <1>9, <1>10, StepKinds

-----------------------------------------------------------------------------
(* Who may spend. *)

\* The history after getBalance is the old one, or begins with a genesis entry.
LEMMA OpenedHistory ==
  ASSUME NEW st \in States, NEW id \in Ids, NEW admin \in BOOLEAN, NEW v \in BOOLEAN
  PROVE  \/ Opened(st, id, admin, v).txs = st.txs
         \/ Head(Opened(st, id, admin, v).txs).type = "genesis"
<1> DEFINE tx == [type |-> "genesis", to |-> id, amount |-> Bonus]
<1>1. st.txs \in Seq(TxRecord)
  BY DEF States
<1>2. Head(<<tx>> \o st.txs) = tx
  BY <1>1
<1>3. tx.type = "genesis"
  OBVIOUS
<1> HIDE DEF tx
<1>4. \/ Opened(st, id, admin, v).txs = st.txs
      \/ Opened(st, id, admin, v).txs = <<tx>> \o st.txs
  BY OpenedShape DEF tx
<1>5. QED
  BY <1>2, <1>3, <1>4

\* What a settlement may put at the head of the history.
LEMMA SettlementHistory ==
  ASSUME TypeOK, NEW s \in Ids, NEW r \in Ids, NEW amount \in Amounts,
         NEW type \in {"transfer", "shielded"},
         NEW v1 \in BOOLEAN, NEW v2 \in BOOLEAN,
         Settlement(s, r, amount, type, v1, v2)
  PROVE  \/ transactions' = transactions
         \/ Head(transactions').type = "genesis"
         \/ Head(transactions').from = s
<1> DEFINE admin == IsMasterAdmin(s, TRUE)
           rAdmin == IsMasterAdmin(r, FALSE)
           s1 == Opened(Contents, s, admin, v1)
           s2 == Opened(s1, r, rAdmin, v2)
           tx == [type |-> type, from |-> s, to |-> r, amount |-> amount]
           history == <<tx>> \o s2.txs
           cut == SubSeq(history, 1, IF Len(history) > HistoryCap
                                     THEN HistoryCap ELSE Len(history))
           led == [s2.led EXCEPT
                     ![s] = GetBalance(Contents, s, admin, v1) - amount,
                     ![r] = GetBalance(s1, r, rAdmin, v2) + amount]
           s3 == [led |-> led, txs |-> cut]
<1>1. transactions' = s1.txs \/ transactions' = cut
  <2>1. \/ Finish(s3, SaveIfNew(Contents, s1) \o SaveIfNew(s1, s2) \o SaveState(s3))
        \/ Finish(s1, SaveIfNew(Contents, s1))
    BY DEF Settlement
  <2>2. s3.txs = cut
    OBVIOUS
  <2> HIDE DEF s1, s2, s3, cut
  <2>3. QED
    BY <2>1, <2>2 DEF Finish
<1>2. Contents \in States /\ admin \in BOOLEAN /\ rAdmin \in BOOLEAN
  BY ContentsTyped, MasterIsBoolean
<1>3. s1 \in States /\ (s1.txs = Contents.txs \/ Head(s1.txs).type = "genesis")
  <2>1. s1 \in States
    BY <1>2, OpenedShape
  <2>2. s1.txs = Contents.txs \/ Head(s1.txs).type = "genesis"
    BY <1>2, OpenedHistory
  <2>3. QED
    BY <2>1, <2>2
<1>4. s2.txs \in Seq(TxRecord)
  <2> HIDE DEF s1, admin, rAdmin
  <2>1. s2 \in States
    BY <1>2, <1>3, OpenedShape
  <2>2. QED
    BY <2>1 DEF States
<1>5. tx \in TxRecord /\ tx.from = s
  <2>1. amount \in Int
    BY TokenLedgerAssumption
  <2>2. QED
    BY <2>1 DEF TxRecord
<1> HIDE DEF s1, s2, tx
<1>6. cut \in Seq(TxRecord) /\ Len(cut) \in 1 .. Len(s2.txs) + 1 /\ cut[1] = tx
  BY <1>4, <1>5, CutHistory
<1> HIDE DEF cut
<1>7. Head(cut) = tx
  BY <1>6
<1>8. QED
  BY <1>1, <1>3, <1>5, <1>7 DEF Contents

LEMMA SpendStep ==
  ASSUME TypeOK, [Next]_vars,
         running, running', transactions' # transactions,
         Head(transactions').type \in {"transfer", "shielded"},
         IsMasterAdmin(Head(transactions').from, TRUE)
  PROVE  physical
<1> USE DEF memory
<1>1. \A f \in BOOLEAN : CheckStatus(f) \subseteq BOOLEAN
  BY ReadingsTyped
<1>2. ASSUME NEW id \in Ids, ReadBalance(id) PROVE FALSE
  <2>1. PICK v \in CheckStatus(FALSE) :
           transactions' = (IF id \in Admins THEN Contents
                            ELSE Opened(Contents, id, FALSE, v)).txs
    BY <1>2 DEF ReadBalance, Finish
  <2>2. v \in BOOLEAN /\ Contents \in States
    BY <1>1, ContentsTyped
  <2>3. \/ Opened(Contents, id, FALSE, v).txs = Contents.txs
        \/ Head(Opened(Contents, id, FALSE, v).txs).type = "genesis"
    BY <2>2, OpenedHistory
  <2>4. QED
    BY <2>1, <2>3 DEF Contents
<1>3. ASSUME NEW s \in Ids, NEW r \in Ids, NEW amount \in Amounts, Transfer(s, r, amount)
      PROVE  FALSE
  <2>1. PICK v \in CheckStatus(FALSE) : Settlement(s, r, amount, "transfer", v, v)
    BY <1>3 DEF Transfer
  <2>2. Head(transactions').from = s
    BY <1>1, <2>1, SettlementHistory
  <2>3. QED
    BY <1>3, <2>2 DEF Transfer
<1>4. ASSUME NEW s \in Ids, NEW r \in Ids, NEW amount \in Amounts, HardwareTransfer(s, r, amount)
      PROVE  physical
  <2>1. TRUE \in {physical, FALSE}
    BY <1>4 DEF HardwareTransfer, EnforceAttached, CheckStatus, ProbeResults
  <2>2. QED
    BY <2>1
<1>5. ASSUME NEW id \in Ids, NEW amount \in MintAmounts, Mint(id, amount) PROVE FALSE
  <2> DEFINE tx == [type |-> "mint", to |-> id, amount |-> amount]
             admin == IsMasterAdmin(id, FALSE)
             s1(v) == Opened(Contents, id, admin, v)
  <2>1. PICK v \in (IF id \in Admins THEN CheckStatus(FALSE) ELSE {attached}) :
           \E led, q : Finish([led |-> led, txs |-> <<tx>> \o s1(v).txs], q)
    BY <1>5, Zenon DEF Mint
  <2>2. v \in BOOLEAN /\ Contents \in States /\ admin \in BOOLEAN
    BY <1>1, ContentsTyped, MasterIsBoolean DEF TypeOK
  <2>3. s1(v).txs \in Seq(TxRecord)
    BY <2>2, OpenedShape DEF States
  <2>4. Head(<<tx>> \o s1(v).txs) = tx
    BY <2>3
  <2>5. transactions' = <<tx>> \o s1(v).txs
    BY <2>1 DEF Finish
  <2>6. QED
    BY <2>4, <2>5
<1>6. ASSUME NEW torn \in BOOLEAN, WriteFails(torn) \/ Crash(torn) PROVE FALSE
  BY <1>6 DEF WriteFails, Crash
<1>7. CASE WriteLedger \/ WriteTransactions \/ Start
  BY <1>7 DEF WriteLedger, WriteTransactions, Start
<1>8. CASE AdminTransferRefused \/ HardwareTransferHalted
  BY <1>8 DEF AdminTransferRefused, HardwareTransferHalted
<1>9. CASE TokenStep \/ Poll
  BY <1>9 DEF TokenStep, Poll
<1>10. CASE UNCHANGED vars
  BY <1>10 DEF vars
<1>11. QED
  BY <1>2, <1>3, <1>4, <1>5, <1>6, <1>7, <1>8, <1>9, <1>10 DEF Next

-----------------------------------------------------------------------------
(* The theorems. *)

\* The conjunction is inductive.
IInv == TypeOK /\ QueueInv /\ BonusSafe /\ HistoryInv

LEMMA IInvHolds == Spec => []IInv
<1>1. Init => IInv
  BY TypeInit, QueueInit, BonusInit, HistoryInit DEF IInv
<1>2. IInv /\ [Next]_vars => IInv'
  BY TypeStep, QueueStep, BonusStep, HistoryStep DEF IInv, QueueInv
<1>3. QED
  BY <1>1, <1>2, PTL DEF Spec

\* Every variable keeps its type: the ledgers and histories in memory, in the
\* queue of saveState and, where they can be read, in the two files.
THEOREM TypeCorrect == Spec => []TypeOK
<1>1. IInv => TypeOK
  BY DEF IInv
<1>2. QED
  BY <1>1, IInvHolds, PTL

\* saveState: between two handlers both files hold what memory holds, unless a
\* write has failed since the last complete save, however many saves the handlers
\* queued and wherever the process died before.
THEOREM AnswersAreSaved == Spec => []SavedWhenAnswered
<1>1. IInv => SavedWhenAnswered
  BY DEF IInv, QueueInv, QueueIsMemory, SavedWhenAnswered, Ready
<1>2. QED
  BY <1>1, IInvHolds, PTL

\* getBalance and loadState: no wallet is given the welcome bonus twice in the
\* history, whichever writes crashes and failures have cut off, as long as no
\* start has found ledgers.json torn.
THEOREM BonusIsGivenOnce == Spec => []OneWelcomeBonus
<1>1. IInv => OneWelcomeBonus
  BY DEF IInv, BonusSafe, OneWelcomeBonus, Sane, Contents, OneEach
<1>2. QED
  BY <1>1, IInvHolds, PTL

\* getBalance, transfer and mint: the recorded transactions add up to the balance
\* of every wallet that is no administrator's, through every overdraft by mint and
\* every crash, until a start reads files of two saves or the cap cuts the history.
THEOREM HistoryExplainsLedger == Spec => []LedgerMatchesHistory
<1>1. IInv => LedgerMatchesHistory
  BY DEF IInv, HistoryInv, Matches, Held, Ordinary, LedgerMatchesHistory
<1>2. QED
  BY <1>1, IInvHolds, PTL

\* enforceAttached and transfer: an entry of the history that spends an
\* administrator's stake is only ever added while the token is in its port; the
\* cached reading that the balance handlers trust cannot authorise one.
THEOREM StakeNeedsToken == Spec => AdminSpendsOnlyAttached
<1>1. TypeOK /\ [Next]_vars =>
        [/\ running /\ running' /\ transactions' # transactions
         /\ Head(transactions').type \in {"transfer", "shielded"}
         /\ IsMasterAdmin(Head(transactions').from, TRUE)
         => physical]_vars
  BY SpendStep
<1>2. QED
  BY <1>1, TypeCorrect, PTL DEF Spec, AdminSpendsOnlyAttached

=============================================================================
