-------------------------- MODULE CardAccessProofs --------------------------
(* Proofs about CardAccess, for any processes, keys, PINs and chunks.        *)
EXTENDS CardAccess, TLAPS

InTransaction == {"select", "env", "send", "response", "revalidate", "pin", "release"}

(* The locks an operation has taken by the place it is at.                   *)
Taken(p) ==
    IF pc[p] \notin InTransaction THEN 0
    ELSE IF op[p].kind # "sign" THEN 1
    ELSE IF pc[p] = "send" /\ op[p].sent > 0 THEN 3
    ELSE 2

(* lock_count is what the login and the operation took, and it is not zero   *)
(* exactly for the owner of the transaction.                                 *)
LocksAreNested ==
    \A p \in Processes :
        /\ lock.count[p] = locked[p] + Taken(p)
        /\ lock.count[p] > 0 <=> lock.owner = p

OperationsOK ==
    \A p \in Processes :
        /\ pc[p] \in {"select", "env", "send", "response", "revalidate"} =>
              op[p].kind = "sign" /\ op[p].key \in Keys
        /\ pc[p] = "pin" => op[p].kind \in {"login", "change"} /\ op[p].pin \in PINs
        /\ pc[p] \in {"locking", "pin"} /\ op[p].kind = "change" => op[p].new \in PINs
        /\ pc[p] = "locking" => op[p].sent = 0
        /\ pc[p] = "locking" /\ op[p].kind = "sign" => op[p].key \in Keys
        /\ pc[p] = "locking" /\ op[p].kind # "sign" => op[p].pin \in PINs
        /\ pc[p] \in {"select", "env", "revalidate"} => op[p].sent = 0
        /\ pc[p] = "send" => op[p].sent < Chunks
        /\ pc[p] = "revalidate" => cache[p] # NoPin
        /\ pc[p] # "release" => out[p] = NoOutput

(* The first n commands of p's chain.                                        *)
Prefix(p, n) == [i \in 1 .. n |-> <<p, i>>]

(* What the card holds is what the process at work on it has put there.      *)
CardIsOurs ==
    \A p \in Processes :
        /\ pc[p] = "env" => card.file = op[p].key
        /\ pc[p] = "send" => card.env = op[p].key /\ card.chain = Prefix(p, op[p].sent)
        /\ pc[p] = "response" =>
              card.response = [key |-> op[p].key, data |-> Message(p)]

IInv == TypeOK /\ LocksAreNested /\ OperationsOK /\ CardIsOurs /\ SignsWithOwnKey

(* A cached PIN that the card would refuse has a change of the PIN to show   *)
(* for it that has cost nothing yet.                                         *)
StaleIsUnpaid ==
    \A p \in Processes :
        /\ failures[p] <= changes
        /\ cache[p] \notin {NoPin, card.pin} => failures[p] < changes


LEMMA NoChunksType == NoChunks \in Seq(Chunk)
  BY DEF NoChunks

LEMMA NoOperationType == NoOperation \in Operation
  BY CardAccessAssumption DEF NoOperation, Operation, Kinds

LEMMA TypeInit == Init => IInv
<1> SUFFICES ASSUME Init PROVE IInv
  OBVIOUS
<1> USE CardAccessAssumption DEF Init
<1>1. TypeOK
  BY NoChunksType, NoOperationType DEF TypeOK, Card, Locks, Places
<1>2. LocksAreNested
  BY DEF LocksAreNested, Taken, InTransaction
<1>3. OperationsOK
  BY DEF OperationsOK
<1>4. CardIsOurs
  BY DEF CardIsOurs
<1>5. SignsWithOwnKey
  BY DEF SignsWithOwnKey
<1> QED
  BY <1>1, <1>2, <1>3, <1>4, <1>5 DEF IInv

LEMMA LockedType ==
  ASSUME NEW l \in Locks, NEW p \in Processes
  PROVE  Locked(l, p) \in Locks /\ Locked(l, p).count[p] = l.count[p] + 1
BY DEF Locks, Locked

LEMMA UnlockedType ==
  ASSUME NEW l \in Locks, NEW p \in Processes, NEW n \in Nat, l.count[p] >= n
  PROVE  UnlockedTimes(l, p, n) \in Locks
BY DEF Locks, UnlockedTimes

(* A command takes the lock once more and gives it back: nothing changes for *)
(* whoever has it.                                                           *)
LEMMA TransmitType ==
  ASSUME TypeOK, NEW p \in Processes, Transmit(p)
  PROVE  lock' \in Locks
<1>1. Locked(lock, p) \in Locks /\ Locked(lock, p).count[p] >= 1
  BY LockedType DEF TypeOK, Locks
<1> QED
  BY <1>1, UnlockedType DEF Transmit, Unlocked

LEMMA VerifiedType ==
  ASSUME card \in Card, NEW pin
  PROVE  Verified(pin) \in Card
<1>1. ASSUME NEW s \in {"none", "verified"}, NEW n \in 0 .. MaxTries
      PROVE  [card EXCEPT !.status = s, !.tries = n] \in Card
  BY <1>1 DEF Card
<1>2. MaxTries \in 0 .. MaxTries
  BY CardAccessAssumption
<1>3. card.tries > 0 => card.tries - 1 \in 0 .. MaxTries
  BY CardAccessAssumption DEF Card
<1>4. [card EXCEPT !.status = "verified", !.tries = MaxTries] \in Card
  BY <1>1, <1>2
<1>5. card.tries > 0 => [card EXCEPT !.status = "none", !.tries = @ - 1] \in Card
  BY <1>1, <1>3
<1> QED
  BY <1>4, <1>5 DEF Verified, PinWrong

LEMMA ReceivedType ==
  ASSUME TypeOK, NEW p \in Processes, NEW n \in 1 .. Chunks, NEW last \in BOOLEAN
  PROVE  Received(<<p, n>>, last) \in Card
<1>1. <<p, n>> \in Chunk
  BY DEF Chunk
<1>2. Append(card.chain, <<p, n>>) \in Seq(Chunk)
  BY <1>1 DEF TypeOK, Card
<1>3. Accepts => [key |-> card.env, data |-> Append(card.chain, <<p, n>>)] \in Signature
  BY <1>2 DEF TypeOK, Card, Signature
<1> QED
  BY <1>2, <1>3, NoChunksType DEF TypeOK, Card, Received

LEMMA TypeStep == IInv /\ [Next]_vars => TypeOK'
<1> SUFFICES ASSUME IInv, [Next]_vars PROVE TypeOK'
  OBVIOUS
<1> USE CardAccessAssumption DEF IInv, TypeOK
<1>1. CASE Reset
  <2>1. card' \in Card
    BY <1>1, NoChunksType DEF Reset, Card
  <2>2. resets' \in 0 .. MaxResets /\ stale' \subseteq Processes
    BY <1>1 DEF Reset
  <2> QED
    BY <1>1, <2>1, <2>2 DEF Reset, pinVars
<1>2. ASSUME NEW p \in Processes, NEW k \in Keys, C_Sign(p, k) PROVE TypeOK'
  <2>1. [NoOperation EXCEPT !.key = k] \in Operation
    BY NoOperationType DEF Operation
  <2> QED
    BY <1>2, <2>1 DEF C_Sign, Begin, Goto, Places, pinVars, history
<1>3. ASSUME NEW p \in Processes, NEW pin \in PINs, C_Login(p, pin) PROVE TypeOK'
  <2>1. [NoOperation EXCEPT !.kind = "login", !.pin = pin] \in Operation
    BY NoOperationType DEF Operation, Kinds
  <2> QED
    BY <1>3, <2>1 DEF C_Login, Begin, Goto, Places, pinVars, history
<1>4. ASSUME NEW p \in Processes, NEW old \in PINs, NEW new \in PINs, C_SetPIN(p, old, new) PROVE TypeOK'
  <2>1. [NoOperation EXCEPT !.kind = "change", !.pin = old, !.new = new] \in Operation
    BY NoOperationType DEF Operation, Kinds
  <2> QED
    BY <1>4, <2>1 DEF C_SetPIN, Begin, Goto, Places, pinVars, history
<1>5. ASSUME NEW p \in Processes, C_Logout(p) PROVE TypeOK'
  BY <1>5 DEF C_Logout, pinVars, history
<1>6. ASSUME NEW p \in Processes, C_Finalize(p) PROVE TypeOK'
  <2>1. lock' \in Locks
    BY <1>6, UnlockedType DEF C_Finalize, LocksAreNested, Taken, InTransaction
  <2> QED
    BY <1>6, <2>1 DEF C_Finalize, history
<1>7. ASSUME NEW p \in Processes, Lock(p) PROVE TypeOK'
  <2>1. lock' \in Locks
    BY <1>7, LockedType DEF Lock
  <2>2. locked' \in [Processes -> Nat]
    BY <1>7 DEF Lock
  <2> QED
    BY <1>7, <2>1, <2>2 DEF Lock, Goto, Places, pinVars, history
<1>8. ASSUME NEW p \in Processes, Reconnect(p) PROVE TypeOK'
  <2>1. op' \in [Processes -> Operation] /\ out' \in [Processes -> Signature \cup {NoOutput}]
    <3>1. CASE MayRetry(p)
      <4>1. op[p] \in Operation
        OBVIOUS
      <4>2. [op[p] EXCEPT !.retries = @ + 1] \in Operation
        BY <3>1, <4>1 DEF MayRetry, Operation
      <4> QED
        BY <1>8, <3>1, <4>2 DEF Reconnect
    <3>2. CASE ~MayRetry(p)
      BY <1>8, <3>2, NoOperationType DEF Reconnect, Return
    <3> QED
      BY <3>1, <3>2
  <2> QED
    BY <1>8, <2>1 DEF Reconnect, Return, Goto, Places, pinVars, history
<1>9. ASSUME NEW p \in Processes, SelectKeyFile(p) PROVE TypeOK'
  <2>1. card' \in Card
    BY <1>9, NoChunksType DEF SelectKeyFile, Selected, Card, OperationsOK
  <2>2. lock' \in Locks
    BY <1>9, TransmitType DEF SelectKeyFile
  <2> QED
    BY <1>9, <2>1, <2>2 DEF SelectKeyFile, Goto, Places, pinVars, history
<1>10. ASSUME NEW p \in Processes, SetSecurityEnv(p) PROVE TypeOK'
  <2>1. card' \in Card
    BY <1>10, NoChunksType DEF SetSecurityEnv, EnvironmentSet, Card
  <2>2. lock' \in Locks
    BY <1>10, TransmitType DEF SetSecurityEnv
  <2> QED
    BY <1>10, <2>1, <2>2 DEF SetSecurityEnv, Goto, Places, pinVars, history
<1>11. ASSUME NEW p \in Processes, SendChunk(p) PROVE TypeOK'
  <2>0. op[p] \in Operation /\ op[p].sent \in Nat /\ op[p].sent + 1 \in 1 .. Chunks
    BY <1>11 DEF SendChunk, OperationsOK, Operation
  <2>1. card' \in Card
    BY <1>11, <2>0, ReceivedType DEF SendChunk
  <2>2. lock' \in Locks
    <3>1. Locked(lock, p) \in Locks /\ Locked(lock, p).count[p] >= 1
      BY LockedType DEF Locks
    <3>2. op[p].sent > 0 => lock.count[p] >= 1
      BY <1>11 DEF SendChunk, LocksAreNested, Taken, InTransaction, OperationsOK
    <3> DEFINE held == IF op[p].sent = 0 THEN Locked(lock, p) ELSE lock
    <3>3. held \in Locks /\ held.count[p] >= 1
      BY <2>0, <3>1, <3>2
    <3>4. UnlockedTimes(held, p, 1) \in Locks
      BY <3>3, UnlockedType
    <3> QED
      BY <1>11, <3>3, <3>4 DEF SendChunk, Unlocked
  <2>3. op' \in [Processes -> Operation]
    <3>1. [op[p] EXCEPT !.sent = IF Accepts THEN @ + 1 ELSE 0] \in Operation
      BY <2>0 DEF Operation
    <3> QED
      BY <1>11, <3>1 DEF SendChunk
  <2> QED
    BY <1>11, <2>1, <2>2, <2>3 DEF SendChunk, Goto, Places, pinVars, history
<1>12. ASSUME NEW p \in Processes, GetResponse(p) PROVE TypeOK'
  <2>1. card' \in Card /\ out' \in [Processes -> Signature \cup {NoOutput}]
    BY <1>12 DEF GetResponse, Card
  <2>2. lock' \in Locks
    BY <1>12, TransmitType DEF GetResponse
  <2> QED
    BY <1>12, <2>1, <2>2 DEF GetResponse, Goto, Places, pinVars, history
<1>13. ASSUME NEW p \in Processes, Revalidate(p) PROVE TypeOK'
  <2>1. card' \in Card
    BY <1>13, VerifiedType DEF Revalidate
  <2>2. lock' \in Locks
    BY <1>13, TransmitType DEF Revalidate
  <2>3. op' \in [Processes -> Operation]
    <3>1. op[p] \in Operation
      OBVIOUS
    <3>2. [op[p] EXCEPT !.revalidations = 1] \in Operation
      BY <3>1 DEF Operation
    <3> QED
      BY <1>13, <3>2 DEF Revalidate
  <2> QED
    BY <1>13, <2>1, <2>2, <2>3 DEF Revalidate, CacheAfter, Goto, Places, history
<1>14. ASSUME NEW p \in Processes, VerifyPin(p) PROVE TypeOK'
  <2>1. card' \in Card
    BY <1>14, VerifiedType DEF VerifyPin
  <2>2. lock' \in Locks
    BY <1>14, TransmitType DEF VerifyPin
  <2> QED
    BY <1>14, <2>1, <2>2 DEF VerifyPin, Stored, OperationsOK, Goto, Places, history
<1>15. ASSUME NEW p \in Processes, ChangePin(p) PROVE TypeOK'
  <2>1. op[p].new \in PINs
    BY <1>15 DEF ChangePin, OperationsOK
  <2>2. card' \in Card
    <3>1. Verified(op[p].pin) \in Card
      BY VerifiedType
    <3> QED
      BY <1>15, <2>1, <3>1 DEF ChangePin, Card
  <2>3. lock' \in Locks
    BY <1>15, TransmitType DEF ChangePin
  <2> QED
    BY <1>15, <2>1, <2>2, <2>3 DEF ChangePin, Stored, Goto, Places, history
<1>16. ASSUME NEW p \in Processes, TransmitFails(p) PROVE TypeOK'
  <2>1. lock' \in Locks
    <3>1. pc[p] = "send" /\ op[p].sent > 0 => lock.count[p] >= 1
      BY DEF LocksAreNested, Taken, InTransaction, OperationsOK, Operation
    <3> QED
      BY <1>16, <3>1, UnlockedType DEF TransmitFails, Unlocked
  <2> QED
    BY <1>16, <2>1 DEF TransmitFails, Goto, Places, history
<1>17. ASSUME NEW p \in Processes, Release(p) PROVE TypeOK'
  <2>1. lock.count[p] >= IF op[p].kind = "sign" THEN 2 ELSE 1
    BY <1>17 DEF Release, LocksAreNested, Taken, InTransaction, OperationsOK, Operation
  <2>2. lock' \in Locks
    BY <1>17, <2>1, UnlockedType DEF Release, Unlocked, UnlockedTimes, Locks
  <2> QED
    BY <1>17, <2>2, NoOperationType DEF Release, Return, Goto, Places, pinVars, history
<1>18. CASE UNCHANGED vars
  BY <1>18 DEF vars, pinVars, history
<1> QED
  BY <1>1, <1>2, <1>3, <1>4, <1>5, <1>6, <1>7, <1>8, <1>9, <1>10, <1>11, <1>12, <1>13, <1>14, <1>15, <1>16, <1>17, <1>18 DEF Next, Request, Step

(* Only the owner of the transaction is at work on the card.                 *)
LEMMA Exclusive ==
  ASSUME IInv, NEW p \in Processes, pc[p] \in InTransaction
  PROVE  /\ lock.owner = p
         /\ \A q \in Processes : pc[q] \in InTransaction => q = p
<1>1. \A q \in Processes : pc[q] \in InTransaction => Taken(q) > 0
  BY DEF IInv, OperationsOK, Taken, InTransaction
<1>2. \A q \in Processes : pc[q] \in InTransaction => lock.count[q] > 0
  <2> TAKE q \in Processes
  <2>1. locked[q] \in Nat /\ lock.count[q] = locked[q] + Taken(q)
    BY DEF IInv, TypeOK, LocksAreNested
  <2>2. Taken(q) \in Nat
    BY DEF Taken
  <2> QED
    BY <1>1, <2>1, <2>2
<1> QED
  BY <1>2 DEF IInv, LocksAreNested

LEMMA PrefixStep ==
  ASSUME NEW p \in Processes, NEW n \in Nat, n < Chunks
  PROVE  /\ Append(Prefix(p, n), <<p, n + 1>>) = Prefix(p, n + 1)
         /\ Prefix(p, n) \in Seq(Chunk)
<1>1. \A i \in 1 .. n : <<p, i>> \in Chunk
  BY CardAccessAssumption DEF Chunk
<1>2. Prefix(p, n) \in Seq(Chunk) /\ Len(Prefix(p, n)) = n
  BY <1>1 DEF Prefix
<1> QED
  BY <1>2 DEF Prefix

LEMMA PrefixZero == \A p \in Processes : Prefix(p, 0) = NoChunks
  BY DEF Prefix, NoChunks

LEMMA LocksStep == IInv /\ [Next]_vars => LocksAreNested'
<1> SUFFICES ASSUME IInv, [Next]_vars PROVE LocksAreNested'
  OBVIOUS
<1> USE CardAccessAssumption DEF IInv, TypeOK, Locks, Operation, OperationsOK, LocksAreNested, Taken, InTransaction
<1>1. CASE Reset
  BY <1>1 DEF Reset, pinVars, history
<1>2. ASSUME NEW p \in Processes, NEW k \in Keys, C_Sign(p, k) PROVE LocksAreNested'
  BY <1>2 DEF C_Sign, Begin, Goto, NoOperation, pinVars, history
<1>3. ASSUME NEW p \in Processes, NEW pin \in PINs, C_Login(p, pin) PROVE LocksAreNested'
  BY <1>3 DEF C_Login, Begin, Goto, NoOperation, pinVars, history
<1>4. ASSUME NEW p \in Processes, NEW old \in PINs, NEW new \in PINs, C_SetPIN(p, old, new) PROVE LocksAreNested'
  BY <1>4 DEF C_SetPIN, Begin, Goto, NoOperation, pinVars, history
<1>5. ASSUME NEW p \in Processes, C_Logout(p) PROVE LocksAreNested'
  BY <1>5 DEF C_Logout, pinVars, history
<1>6. ASSUME NEW p \in Processes, C_Finalize(p) PROVE LocksAreNested'
  BY <1>6 DEF C_Finalize, UnlockedTimes, pinVars, history
<1>7. ASSUME NEW p \in Processes, Lock(p) PROVE LocksAreNested'
  BY <1>7 DEF Lock, Locked, Goto, MayLock, pinVars, history
<1>8. ASSUME NEW p \in Processes, Reconnect(p) PROVE LocksAreNested'
  BY <1>8 DEF Reconnect, MayRetry, Return, Goto, NoOperation, pinVars, history
<1>9. ASSUME NEW p \in Processes, SelectKeyFile(p) PROVE LocksAreNested'
  BY <1>9 DEF SelectKeyFile, Transmit, MayTransmit, Locked, Unlocked, UnlockedTimes, Selected, Goto, pinVars, history
<1>10. ASSUME NEW p \in Processes, SetSecurityEnv(p) PROVE LocksAreNested'
  BY <1>10 DEF SetSecurityEnv, Transmit, MayTransmit, Locked, Unlocked, UnlockedTimes, EnvironmentSet, Goto, pinVars, history
<1>11. ASSUME NEW p \in Processes, SendChunk(p) PROVE LocksAreNested'
  <2> DEFINE sent == op[p].sent
             held == IF sent = 0 THEN Locked(lock, p) ELSE lock
  <2>1. /\ op[p] \in Operation /\ sent \in Nat /\ op[p].kind = "sign" /\ lock.owner = p
        /\ lock.count[p] = locked[p] + (IF sent = 0 THEN 2 ELSE 3)
    BY <1>11, Exclusive DEF SendChunk
  <2>2. /\ held.owner = p /\ held.count[p] = locked[p] + 3
        /\ held.count \in [Processes -> Nat]
        /\ \A q \in Processes \ {p} : held.count[q] = lock.count[q]
    BY <2>1 DEF Locked
  <2>3. \A q \in Processes \ {p} : Taken(q)' = Taken(q) /\ lock.count[q] = 0
    BY <1>11, <2>1 DEF SendChunk, Goto
  <2>4. CASE Accepts /\ ~(sent + 1 = Chunks)
    <3>1. lock' = held /\ Taken(p)' = 3
      BY <1>11, <2>1, <2>4 DEF SendChunk, Goto
    <3> QED
      BY <1>11, <2>1, <2>2, <2>3, <3>1 DEF SendChunk, pinVars
  <2>5. CASE ~(Accepts /\ ~(sent + 1 = Chunks))
    <3>1. lock' = UnlockedTimes(held, p, 1) /\ Taken(p)' = 2
      BY <1>11, <2>1, <2>5 DEF SendChunk, Goto, Unlocked
    <3> QED
      BY <1>11, <2>1, <2>2, <2>3, <3>1 DEF SendChunk, pinVars, UnlockedTimes
  <2> QED
    BY <2>4, <2>5
<1>12. ASSUME NEW p \in Processes, GetResponse(p) PROVE LocksAreNested'
  BY <1>12 DEF GetResponse, Transmit, MayTransmit, Locked, Unlocked, UnlockedTimes, Goto, pinVars, history
<1>13. ASSUME NEW p \in Processes, Revalidate(p) PROVE LocksAreNested'
  BY <1>13 DEF Revalidate, Transmit, MayTransmit, Locked, Unlocked, UnlockedTimes, Verified, CacheAfter, PinRight, PinWrong, Goto, pinVars, history
<1>14. ASSUME NEW p \in Processes, VerifyPin(p) PROVE LocksAreNested'
  BY <1>14 DEF VerifyPin, Transmit, MayTransmit, Locked, Unlocked, UnlockedTimes, Verified, PinRight, PinWrong, Stored, Goto, pinVars, history
<1>15. ASSUME NEW p \in Processes, ChangePin(p) PROVE LocksAreNested'
  BY <1>15 DEF ChangePin, Transmit, MayTransmit, Locked, Unlocked, UnlockedTimes, Verified, PinRight, PinWrong, Stored, Goto, pinVars, history
<1>16. ASSUME NEW p \in Processes, TransmitFails(p) PROVE LocksAreNested'
  BY <1>16 DEF TransmitFails, MayTransmit, Unlocked, UnlockedTimes, Goto, pinVars, history
<1>17. ASSUME NEW p \in Processes, Release(p) PROVE LocksAreNested'
  BY <1>17 DEF Release, Unlocked, UnlockedTimes, Return, Goto, NoOperation, pinVars, history
<1>18. CASE UNCHANGED vars
  BY <1>18 DEF vars, pinVars, history
<1> QED
  BY <1>1, <1>2, <1>3, <1>4, <1>5, <1>6, <1>7, <1>8, <1>9, <1>10, <1>11, <1>12, <1>13, <1>14, <1>15, <1>16, <1>17, <1>18 DEF Next, Request, Step

LEMMA OperationsStep == IInv /\ [Next]_vars => OperationsOK'
<1> SUFFICES ASSUME IInv, [Next]_vars PROVE OperationsOK'
  OBVIOUS
<1> USE CardAccessAssumption DEF IInv, TypeOK, Operation, OperationsOK
<1>1. CASE Reset
  BY <1>1 DEF Reset, pinVars, history
<1>2. ASSUME NEW p \in Processes, NEW k \in Keys, C_Sign(p, k) PROVE OperationsOK'
  BY <1>2 DEF C_Sign, Begin, Goto, NoOperation, pinVars, history
<1>3. ASSUME NEW p \in Processes, NEW pin \in PINs, C_Login(p, pin) PROVE OperationsOK'
  BY <1>3 DEF C_Login, Begin, Goto, NoOperation, pinVars, history
<1>4. ASSUME NEW p \in Processes, NEW old \in PINs, NEW new \in PINs, C_SetPIN(p, old, new) PROVE OperationsOK'
  BY <1>4 DEF C_SetPIN, Begin, Goto, NoOperation, pinVars, history
<1>5. ASSUME NEW p \in Processes, C_Logout(p) PROVE OperationsOK'
  BY <1>5 DEF C_Logout, pinVars, history
<1>6. ASSUME NEW p \in Processes, C_Finalize(p) PROVE OperationsOK'
  BY <1>6 DEF C_Finalize, UnlockedTimes, pinVars, history
<1>7. ASSUME NEW p \in Processes, Lock(p) PROVE OperationsOK'
  <2>1. /\ op[p] \in Operation /\ op[p].kind \in {"sign", "login", "change"}
        /\ pc[p] = "locking" /\ op' = op /\ cache' = cache /\ out' = out
    BY <1>7 DEF Lock, pinVars, Kinds
  <2>2. /\ pc'[p] = IF op[p].kind = "sign" THEN "select" ELSE "pin"
        /\ \A q \in Processes \ {p} : pc'[q] = pc[q]
    BY <1>7 DEF Lock, Goto
  <2>3. CASE op[p].kind = "sign"
    BY <2>1, <2>2, <2>3
  <2>4. CASE op[p].kind # "sign"
    BY <2>1, <2>2, <2>4
  <2> QED
    BY <2>3, <2>4
<1>8. ASSUME NEW p \in Processes, Reconnect(p) PROVE OperationsOK'
  <2>1. CASE MayRetry(p)
    BY <1>8, <2>1 DEF Reconnect, pinVars
  <2>2. CASE ~MayRetry(p)
    BY <1>8, <2>2 DEF Reconnect, Return, Goto, pinVars
  <2> QED
    BY <2>1, <2>2
<1>9. ASSUME NEW p \in Processes, SelectKeyFile(p) PROVE OperationsOK'
  BY <1>9 DEF SelectKeyFile, Transmit, MayTransmit, Locked, Unlocked, UnlockedTimes, Selected, Goto, pinVars, history
<1>10. ASSUME NEW p \in Processes, SetSecurityEnv(p) PROVE OperationsOK'
  BY <1>10 DEF SetSecurityEnv, Transmit, MayTransmit, Locked, Unlocked, UnlockedTimes, EnvironmentSet, Goto, pinVars, history
<1>11. ASSUME NEW p \in Processes, SendChunk(p) PROVE OperationsOK'
  BY <1>11 DEF SendChunk, MayTransmit, Locked, Unlocked, UnlockedTimes, Received, Accepts, Goto, Revalidates, pinVars, history
<1>12. ASSUME NEW p \in Processes, GetResponse(p) PROVE OperationsOK'
  BY <1>12 DEF GetResponse, Transmit, MayTransmit, Locked, Unlocked, UnlockedTimes, Goto, pinVars, history
<1>13. ASSUME NEW p \in Processes, Revalidate(p) PROVE OperationsOK'
  BY <1>13 DEF Revalidate, Transmit, MayTransmit, Locked, Unlocked, UnlockedTimes, Verified, CacheAfter, PinRight, PinWrong, Goto, pinVars, history
<1>14. ASSUME NEW p \in Processes, VerifyPin(p) PROVE OperationsOK'
  BY <1>14 DEF VerifyPin, Transmit, MayTransmit, Locked, Unlocked, UnlockedTimes, Verified, PinRight, PinWrong, Stored, Goto, pinVars, history
<1>15. ASSUME NEW p \in Processes, ChangePin(p) PROVE OperationsOK'
  BY <1>15 DEF ChangePin, Transmit, MayTransmit, Locked, Unlocked, UnlockedTimes, Verified, PinRight, PinWrong, Stored, Goto, pinVars, history
<1>16. ASSUME NEW p \in Processes, TransmitFails(p) PROVE OperationsOK'
  BY <1>16 DEF TransmitFails, MayTransmit, Unlocked, UnlockedTimes, Goto, pinVars, history
<1>17. ASSUME NEW p \in Processes, Release(p) PROVE OperationsOK'
  BY <1>17 DEF Release, Unlocked, UnlockedTimes, Return, Goto, NoOperation, pinVars, history
<1>18. CASE UNCHANGED vars
  BY <1>18 DEF vars, pinVars, history
<1> QED
  BY <1>1, <1>2, <1>3, <1>4, <1>5, <1>6, <1>7, <1>8, <1>9, <1>10, <1>11, <1>12, <1>13, <1>14, <1>15, <1>16, <1>17, <1>18 DEF Next, Request, Step

LEMMA CardStep == IInv /\ [Next]_vars => CardIsOurs'
<1> SUFFICES ASSUME IInv, [Next]_vars PROVE CardIsOurs'
  OBVIOUS
<1> USE CardAccessAssumption DEF IInv
<1>1. CASE Reset
  <2>1. \A q \in Processes : pc[q] \notin InTransaction
    BY <1>1, Exclusive DEF Reset
  <2> QED
    BY <1>1, <2>1 DEF Reset, CardIsOurs, InTransaction
<1>2. ASSUME NEW p \in Processes, NEW k \in Keys, C_Sign(p, k) PROVE CardIsOurs'
  BY <1>2 DEF C_Sign, Begin, Goto, CardIsOurs, TypeOK
<1>3. ASSUME NEW p \in Processes, NEW pin \in PINs, C_Login(p, pin) PROVE CardIsOurs'
  BY <1>3 DEF C_Login, Begin, Goto, CardIsOurs, TypeOK
<1>4. ASSUME NEW p \in Processes, NEW old \in PINs, NEW new \in PINs, C_SetPIN(p, old, new) PROVE CardIsOurs'
  BY <1>4 DEF C_SetPIN, Begin, Goto, CardIsOurs, TypeOK
<1>5. ASSUME NEW p \in Processes, C_Logout(p) PROVE CardIsOurs'
  BY <1>5 DEF C_Logout, CardIsOurs
<1>6. ASSUME NEW p \in Processes, C_Finalize(p) PROVE CardIsOurs'
  BY <1>6 DEF C_Finalize, CardIsOurs
<1>7. ASSUME NEW p \in Processes, Lock(p) PROVE CardIsOurs'
  BY <1>7 DEF Lock, Goto, CardIsOurs, TypeOK
<1>8. ASSUME NEW p \in Processes, Reconnect(p) PROVE CardIsOurs'
  <2>1. CASE MayRetry(p)
    BY <1>8, <2>1 DEF Reconnect, CardIsOurs, TypeOK
  <2>2. CASE ~MayRetry(p)
    BY <1>8, <2>2 DEF Reconnect, Return, Goto, CardIsOurs, TypeOK
  <2> QED
    BY <2>1, <2>2
<1>9. ASSUME NEW p \in Processes, SelectKeyFile(p) PROVE CardIsOurs'
  <2>1. \A q \in Processes \ {p} : pc[q] \notin InTransaction
    BY <1>9, Exclusive DEF SelectKeyFile, InTransaction
  <2> QED
    BY <1>9, <2>1 DEF SelectKeyFile, Selected, Goto, CardIsOurs, TypeOK, Card, InTransaction
<1>10. ASSUME NEW p \in Processes, SetSecurityEnv(p) PROVE CardIsOurs'
  <2>1. \A q \in Processes \ {p} : pc[q] \notin InTransaction
    BY <1>10, Exclusive DEF SetSecurityEnv, InTransaction
  <2> QED
    BY <1>10, <2>1, PrefixZero DEF SetSecurityEnv, EnvironmentSet, Goto, CardIsOurs, OperationsOK, TypeOK, Card, InTransaction
<1>11. ASSUME NEW p \in Processes, SendChunk(p) PROVE CardIsOurs'
  <2>1. \A q \in Processes \ {p} : pc[q] \notin InTransaction
    BY <1>11, Exclusive DEF SendChunk, InTransaction
  <2>0. op[p] \in Operation /\ pc[p] = "send"
    BY <1>11 DEF SendChunk, TypeOK
  <2>2. /\ op[p] \in Operation /\ op[p].sent \in Nat /\ op[p].sent < Chunks
        /\ card.env = op[p].key /\ card.chain = Prefix(p, op[p].sent)
    <3>1. op[p].sent \in Nat
      BY <2>0 DEF Operation
    <3>2. op[p].sent < Chunks
      BY <2>0 DEF OperationsOK
    <3>3. card.env = op[p].key /\ card.chain = Prefix(p, op[p].sent)
      BY <2>0 DEF CardIsOurs
    <3> QED
      BY <2>0, <3>1, <3>2, <3>3
  <2>3. Append(card.chain, <<p, op[p].sent + 1>>) = Prefix(p, op[p].sent + 1)
    BY <2>2, PrefixStep
  <2>4. /\ op'[p].key = op[p].key
        /\ Accepts => op'[p].sent = op[p].sent + 1
    BY <1>11, <2>2 DEF SendChunk, TypeOK, Operation
  <2>5. CASE Accepts /\ op[p].sent + 1 = Chunks
    <3>1. card'.response = [key |-> op[p].key, data |-> Message(p)] /\ pc'[p] = "response"
      BY <1>11, <2>2, <2>3, <2>5 DEF SendChunk, Received, Goto, Message, Prefix, TypeOK, Card
    <3> QED
      BY <1>11, <2>1, <2>4, <3>1 DEF SendChunk, Goto, CardIsOurs, TypeOK, InTransaction
  <2>6. CASE Accepts /\ op[p].sent + 1 # Chunks
    <3>1. card'.env = card.env /\ card'.chain = Prefix(p, op[p].sent + 1) /\ pc'[p] = "send"
      BY <1>11, <2>2, <2>3, <2>6 DEF SendChunk, Received, Goto, TypeOK, Card
    <3> QED
      BY <1>11, <2>1, <2>2, <2>4, <2>6, <3>1 DEF SendChunk, Goto, CardIsOurs, TypeOK, InTransaction
  <2>7. CASE ~Accepts
    <3>1. pc'[p] \in {"revalidate", "release"}
      BY <1>11, <2>7 DEF SendChunk, Goto, TypeOK
    <3> QED
      BY <1>11, <2>1, <3>1 DEF SendChunk, Goto, CardIsOurs, TypeOK, InTransaction
  <2> QED
    BY <2>5, <2>6, <2>7
<1>12. ASSUME NEW p \in Processes, GetResponse(p) PROVE CardIsOurs'
  <2>1. \A q \in Processes \ {p} : pc[q] \notin InTransaction
    BY <1>12, Exclusive DEF GetResponse, InTransaction
  <2> QED
    BY <1>12, <2>1 DEF GetResponse, Goto, CardIsOurs, TypeOK, InTransaction
<1>13. ASSUME NEW p \in Processes, Revalidate(p) PROVE CardIsOurs'
  <2>1. \A q \in Processes \ {p} : pc[q] \notin InTransaction
    BY <1>13, Exclusive DEF Revalidate, InTransaction
  <2> QED
    BY <1>13, <2>1 DEF Revalidate, Goto, CardIsOurs, TypeOK, InTransaction
<1>14. ASSUME NEW p \in Processes, VerifyPin(p) PROVE CardIsOurs'
  <2>1. \A q \in Processes \ {p} : pc[q] \notin InTransaction
    BY <1>14, Exclusive DEF VerifyPin, InTransaction
  <2> QED
    BY <1>14, <2>1 DEF VerifyPin, Goto, CardIsOurs, TypeOK, InTransaction
<1>15. ASSUME NEW p \in Processes, ChangePin(p) PROVE CardIsOurs'
  <2>1. \A q \in Processes \ {p} : pc[q] \notin InTransaction
    BY <1>15, Exclusive DEF ChangePin, InTransaction
  <2> QED
    BY <1>15, <2>1 DEF ChangePin, Goto, CardIsOurs, TypeOK, InTransaction
<1>16. ASSUME NEW p \in Processes, TransmitFails(p) PROVE CardIsOurs'
  BY <1>16 DEF TransmitFails, Goto, CardIsOurs, TypeOK
<1>17. ASSUME NEW p \in Processes, Release(p) PROVE CardIsOurs'
  BY <1>17 DEF Release, Return, Goto, CardIsOurs, TypeOK
<1>18. CASE UNCHANGED vars
  BY <1>18 DEF CardIsOurs, Message, Prefix, vars, pinVars, history
<1> QED
  BY <1>1, <1>2, <1>3, <1>4, <1>5, <1>6, <1>7, <1>8, <1>9, <1>10, <1>11, <1>12, <1>13, <1>14, <1>15, <1>16, <1>17, <1>18 DEF Next, Request, Step

LEMMA SignStep == IInv /\ [Next]_vars => SignsWithOwnKey'
<1> SUFFICES ASSUME IInv, [Next]_vars PROVE SignsWithOwnKey'
  OBVIOUS
<1> USE CardAccessAssumption DEF IInv, TypeOK, Operation, OperationsOK, CardIsOurs, SignsWithOwnKey
<1>1. CASE Reset
  BY <1>1 DEF Reset, pinVars, history
<1>2. ASSUME NEW p \in Processes, NEW k \in Keys, C_Sign(p, k) PROVE SignsWithOwnKey'
  BY <1>2 DEF C_Sign, Begin, Goto, NoOperation, pinVars, history
<1>3. ASSUME NEW p \in Processes, NEW pin \in PINs, C_Login(p, pin) PROVE SignsWithOwnKey'
  BY <1>3 DEF C_Login, Begin, Goto, NoOperation, pinVars, history
<1>4. ASSUME NEW p \in Processes, NEW old \in PINs, NEW new \in PINs, C_SetPIN(p, old, new) PROVE SignsWithOwnKey'
  BY <1>4 DEF C_SetPIN, Begin, Goto, NoOperation, pinVars, history
<1>5. ASSUME NEW p \in Processes, C_Logout(p) PROVE SignsWithOwnKey'
  BY <1>5 DEF C_Logout, pinVars, history
<1>6. ASSUME NEW p \in Processes, C_Finalize(p) PROVE SignsWithOwnKey'
  BY <1>6 DEF C_Finalize, UnlockedTimes, pinVars, history
<1>7. ASSUME NEW p \in Processes, Lock(p) PROVE SignsWithOwnKey'
  BY <1>7 DEF Lock, Locked, Goto, MayLock, pinVars, history
<1>8. ASSUME NEW p \in Processes, Reconnect(p) PROVE SignsWithOwnKey'
  <2>1. CASE MayRetry(p)
    BY <1>8, <2>1 DEF Reconnect
  <2>2. CASE ~MayRetry(p)
    BY <1>8, <2>2 DEF Reconnect, Return, Goto
  <2> QED
    BY <2>1, <2>2
<1>9. ASSUME NEW p \in Processes, SelectKeyFile(p) PROVE SignsWithOwnKey'
  BY <1>9 DEF SelectKeyFile, Transmit, MayTransmit, Locked, Unlocked, UnlockedTimes, Selected, Goto, pinVars, history
<1>10. ASSUME NEW p \in Processes, SetSecurityEnv(p) PROVE SignsWithOwnKey'
  BY <1>10 DEF SetSecurityEnv, Transmit, MayTransmit, Locked, Unlocked, UnlockedTimes, EnvironmentSet, Goto, pinVars, history
<1>11. ASSUME NEW p \in Processes, SendChunk(p) PROVE SignsWithOwnKey'
  BY <1>11 DEF SendChunk, MayTransmit, Locked, Unlocked, UnlockedTimes, Received, Accepts, Goto, Revalidates, pinVars, history
<1>12. ASSUME NEW p \in Processes, GetResponse(p) PROVE SignsWithOwnKey'
  BY <1>12 DEF GetResponse, Transmit, MayTransmit, Locked, Unlocked, UnlockedTimes, Goto, pinVars, history
<1>13. ASSUME NEW p \in Processes, Revalidate(p) PROVE SignsWithOwnKey'
  BY <1>13 DEF Revalidate, Transmit, MayTransmit, Locked, Unlocked, UnlockedTimes, Verified, CacheAfter, PinRight, PinWrong, Goto, pinVars, history
<1>14. ASSUME NEW p \in Processes, VerifyPin(p) PROVE SignsWithOwnKey'
  BY <1>14 DEF VerifyPin, Transmit, MayTransmit, Locked, Unlocked, UnlockedTimes, Verified, PinRight, PinWrong, Stored, Goto, pinVars, history
<1>15. ASSUME NEW p \in Processes, ChangePin(p) PROVE SignsWithOwnKey'
  BY <1>15 DEF ChangePin, Transmit, MayTransmit, Locked, Unlocked, UnlockedTimes, Verified, PinRight, PinWrong, Stored, Goto, pinVars, history
<1>16. ASSUME NEW p \in Processes, TransmitFails(p) PROVE SignsWithOwnKey'
  BY <1>16 DEF TransmitFails, MayTransmit, Unlocked, UnlockedTimes, Goto, pinVars, history
<1>17. ASSUME NEW p \in Processes, Release(p) PROVE SignsWithOwnKey'
  BY <1>17 DEF Release, Unlocked, UnlockedTimes, Return, Goto, NoOperation, pinVars, history
<1>18. CASE UNCHANGED vars
  BY <1>18 DEF vars, pinVars, history
<1> QED
  BY <1>1, <1>2, <1>3, <1>4, <1>5, <1>6, <1>7, <1>8, <1>9, <1>10, <1>11, <1>12, <1>13, <1>14, <1>15, <1>16, <1>17, <1>18 DEF Next, Request, Step

(* No verification changes the PIN.                                          *)
LEMMA VerifiedPin ==
  ASSUME card \in Card, NEW pin
  PROVE  Verified(pin).pin = card.pin
BY DEF Card, Verified

LEMMA StaleInit == Init => StaleIsUnpaid
  BY CardAccessAssumption DEF Init, StaleIsUnpaid

LEMMA StaleStep == IInv /\ StaleIsUnpaid /\ [Next]_vars => StaleIsUnpaid'
<1> SUFFICES ASSUME IInv, StaleIsUnpaid, [Next]_vars PROVE StaleIsUnpaid'
  OBVIOUS
<1> USE CardAccessAssumption DEF IInv, StaleIsUnpaid
<1>1. CASE Reset
  <2>1. card'.pin = card.pin
    BY <1>1 DEF Reset, TypeOK, Card
  <2> QED
    BY <1>1, <2>1 DEF Reset, pinVars
<1>2. ASSUME NEW p \in Processes, NEW k \in Keys, C_Sign(p, k) PROVE StaleIsUnpaid'
  BY <1>2 DEF C_Sign, Begin, pinVars, history
<1>3. ASSUME NEW p \in Processes, NEW pin \in PINs, C_Login(p, pin) PROVE StaleIsUnpaid'
  BY <1>3 DEF C_Login, Begin, pinVars, history
<1>4. ASSUME NEW p \in Processes, NEW old \in PINs, NEW new \in PINs, C_SetPIN(p, old, new) PROVE StaleIsUnpaid'
  BY <1>4 DEF C_SetPIN, Begin, pinVars, history
<1>5. ASSUME NEW p \in Processes, C_Logout(p) PROVE StaleIsUnpaid'
  BY <1>5 DEF C_Logout, history, TypeOK
<1>6. ASSUME NEW p \in Processes, C_Finalize(p) PROVE StaleIsUnpaid'
  BY <1>6 DEF C_Finalize, history, TypeOK
<1>7. ASSUME NEW p \in Processes, Lock(p) PROVE StaleIsUnpaid'
  BY <1>7 DEF Lock, pinVars, history
<1>8. ASSUME NEW p \in Processes, Reconnect(p) PROVE StaleIsUnpaid'
  BY <1>8 DEF Reconnect, pinVars, history
<1>9. ASSUME NEW p \in Processes, SelectKeyFile(p) PROVE StaleIsUnpaid'
  <2>1. card'.pin = card.pin
    BY <1>9 DEF SelectKeyFile, Selected, TypeOK, Card
  <2> QED
    BY <1>9, <2>1 DEF SelectKeyFile, pinVars, history
<1>10. ASSUME NEW p \in Processes, SetSecurityEnv(p) PROVE StaleIsUnpaid'
  <2>1. card'.pin = card.pin
    BY <1>10 DEF SetSecurityEnv, EnvironmentSet, TypeOK, Card
  <2> QED
    BY <1>10, <2>1 DEF SetSecurityEnv, pinVars, history
<1>11. ASSUME NEW p \in Processes, SendChunk(p) PROVE StaleIsUnpaid'
  <2>1. card'.pin = card.pin
    BY <1>11 DEF SendChunk, Received, TypeOK, Card
  <2> QED
    BY <1>11, <2>1 DEF SendChunk, pinVars, history
<1>12. ASSUME NEW p \in Processes, GetResponse(p) PROVE StaleIsUnpaid'
  <2>1. card'.pin = card.pin
    BY <1>12 DEF GetResponse, TypeOK, Card
  <2> QED
    BY <1>12, <2>1 DEF GetResponse, pinVars, history
<1>13. ASSUME NEW p \in Processes, Revalidate(p) PROVE StaleIsUnpaid'
  <2>1. card'.pin = card.pin /\ changes' = changes
    BY <1>13, VerifiedPin DEF Revalidate, TypeOK, history
  <2>2. cache[p] # NoPin
    BY <1>13 DEF Revalidate, OperationsOK
  <2>3. PinWrong(cache[p]) => failures[p] < changes
    BY <2>2 DEF PinWrong
  <2>4. cache'[p] \in {NoPin, card.pin} /\ failures'[p] <= changes
    <3>1. cache'[p] \in {NoPin, card.pin}
      BY <1>13 DEF Revalidate, CacheAfter, PinRight, TypeOK
    <3>2. failures'[p] = IF PinWrong(cache[p]) THEN failures[p] + 1 ELSE failures[p]
      BY <1>13 DEF Revalidate, TypeOK
    <3>3. failures[p] \in Nat /\ changes \in Nat /\ failures[p] <= changes
      BY DEF TypeOK
    <3> QED
      BY <2>3, <3>1, <3>2, <3>3
  <2>5. \A q \in Processes \ {p} : cache'[q] = cache[q] /\ failures'[q] = failures[q]
    BY <1>13 DEF Revalidate
  <2> QED
    BY <2>1, <2>4, <2>5
<1>14. ASSUME NEW p \in Processes, VerifyPin(p) PROVE StaleIsUnpaid'
  <2>1. card'.pin = card.pin /\ changes' = changes /\ failures' = failures
    BY <1>14, VerifiedPin DEF VerifyPin, TypeOK, history
  <2>2. cache'[p] \in {cache[p], card.pin}
    BY <1>14 DEF VerifyPin, Stored, PinRight, TypeOK
  <2>3. \A q \in Processes \ {p} : cache'[q] = cache[q]
    BY <1>14 DEF VerifyPin, Stored
  <2> QED
    BY <2>1, <2>2, <2>3
<1>15. ASSUME NEW p \in Processes, ChangePin(p) PROVE StaleIsUnpaid'
  <2>1. failures' = failures /\ changes \in Nat /\ failures \in [Processes -> Nat]
    BY <1>15 DEF ChangePin, TypeOK
  <2>2. Verified(op[p].pin) \in Card /\ Verified(op[p].pin).pin = card.pin
    BY VerifiedType, VerifiedPin DEF TypeOK
  <2>3. CASE PinRight(op[p].pin)
    <3>1. changes' = changes + 1
      BY <1>15, <2>3 DEF ChangePin
    <3>2. \A q \in Processes : failures'[q] < changes'
      BY <2>1, <3>1
    <3> QED
      BY <2>1, <3>1, <3>2
  <2>4. CASE ~PinRight(op[p].pin)
    <3>1. changes' = changes /\ cache' = cache
      BY <1>15, <2>4 DEF ChangePin, Stored
    <3>2. card'.pin = card.pin
      BY <1>15, <2>2, <2>4 DEF ChangePin, Card
    <3> QED
      BY <2>1, <3>1, <3>2
  <2> QED
    BY <2>3, <2>4
<1>16. ASSUME NEW p \in Processes, TransmitFails(p) PROVE StaleIsUnpaid'
  BY <1>16 DEF TransmitFails, history, TypeOK
<1>17. ASSUME NEW p \in Processes, Release(p) PROVE StaleIsUnpaid'
  BY <1>17 DEF Release, pinVars, history
<1>18. CASE UNCHANGED vars
  BY <1>18 DEF vars, pinVars, history
<1> QED
  BY <1>1, <1>2, <1>3, <1>4, <1>5, <1>6, <1>7, <1>8, <1>9, <1>10, <1>11, <1>12, <1>13, <1>14, <1>15, <1>16, <1>17, <1>18 DEF Next, Request, Step

LEMMA IInvStep == IInv /\ [Next]_vars => IInv'
  BY TypeStep, LocksStep, OperationsStep, CardStep, SignStep DEF IInv

LEMMA Invariance == Spec => []IInv
  BY TypeInit, IInvStep, PTL DEF Spec

(* Every variable keeps its type: in particular lock_count and the login's   *)
(* share of it never go below zero, the card's retry counter stays within    *)
(* what it starts from, and sc_lock meets no more resets than it may.        *)
THEOREM TypeCorrect == Spec => []TypeOK
<1>1. IInv => TypeOK
  BY DEF IInv
<1> QED
  BY <1>1, Invariance, PTL

(* sc_lock and sc_unlock nest: a process's lock_count is what its login and  *)
(* the operation it is in have taken, and it holds the reader transaction    *)
(* exactly while the count is not zero.                                      *)
THEOREM LocksNested == Spec => []LocksAreNested
<1>1. IInv => LocksAreNested
  BY DEF IInv
<1> QED
  BY <1>1, Invariance, PTL

(* A signature use_key hands back is made with the key asked for over the    *)
(* whole of the caller's data, however many processes use the card and       *)
(* however many commands the data takes.                                     *)
THEOREM SignsOwn == Spec => []SignsWithOwnKey
<1>1. IInv => SignsWithOwnKey
  BY DEF IInv
<1> QED
  BY <1>1, Invariance, PTL

(* sc_pkcs15_pincache_revalidate costs a process no more tries of the PIN    *)
(* than there were changes of it.                                            *)
THEOREM CachedPinIsCheap == Spec => []CachedPinCostsOneTry
<1>1. Spec => []StaleIsUnpaid
  BY Invariance, StaleInit, StaleStep, PTL DEF Spec
<1>2. StaleIsUnpaid => CachedPinCostsOneTry
  BY DEF StaleIsUnpaid, CachedPinCostsOneTry
<1> QED
  BY <1>1, <1>2, PTL

=============================================================================
