----------------------------- MODULE CardAccess -----------------------------
(* Several applications with OpenSC share one card through the PC/SC         *)
(* service.  sc_lock keeps a count and holds a reader transaction while it is*)
(* not zero; a signature is a chain of commands inside one transaction, which*)
(* verifies a cached PIN again when the card asks for it; C_Login with       *)
(* lock_login keeps the transaction.  Another application may change the PIN *)
(* or reset the card whenever no transaction is held.                        *)
EXTENDS Integers, Sequences, FiniteSets

CONSTANTS
    Processes,
    Nobody,          \* the owner of the transaction when there is none
    Keys,            \* private keys, all under the one PIN
    NoKey,
    OtherPinKeys,    \* keys the card guards with a PIN nobody here verifies
    PINs,
    IssuedPin,       \* the PIN the card comes with
    NoPin,
    NoOutput,
    LockLogin,       \* processes configured with lock_login
    Chunks,          \* commands the data of a signature is sent in
    MaxTries,        \* what the card's retry counter starts from
    LockRetries,     \* resets sc_lock puts up with (5)
    MaxLoginLocks,   \* bound: login locks a process takes
    MaxChanges,      \* bound: changes of the PIN
    MaxResets        \* bound: resets by other software

ASSUME CardAccessAssumption ==
    /\ Nobody \notin Processes
    /\ NoKey \notin Keys
    /\ NoPin \notin PINs
    /\ IssuedPin \in PINs
    /\ OtherPinKeys \subseteq Keys
    /\ LockLogin \subseteq Processes
    /\ Chunks \in Nat \ {0}
    /\ MaxTries \in Nat \ {0}
    /\ LockRetries \in Nat
    /\ MaxLoginLocks \in Nat
    /\ MaxChanges \in Nat
    /\ MaxResets \in Nat

VARIABLES
    card,      \* the card itself
    lock,      \* lock_count of each process; who owns the reader transaction
    stale,     \* processes whose card handle saw a reset
    locked,    \* process -> fw_data->locked, the login's share of the count
    cache,     \* process -> the PIN object's content
    loggedIn,  \* processes with a login
    pc,        \* process -> where its operation is
    op,        \* process -> what its operation is
    out,       \* process -> the output buffer of its signature
    failures,  \* process -> tries its revalidations have cost (history)
    changes,   \* changes of the PIN (history, and bound)
    resets     \* resets by other software, for the bound

pinVars == <<cache, loggedIn, failures>>
history == <<changes, resets>>
vars == <<card, lock, stale, locked, pinVars, pc, op, out, history>>

-----------------------------------------------------------------------------
(* The card.  Every command answers by the state it leaves.                  *)

Chunk == Processes \X (1 .. Chunks)
NoChunks == <<>>
Signature == [key : Keys \cup {NoKey}, data : Seq(Chunk)]

Card == [pin : PINs, tries : 0 .. MaxTries, status : {"none", "verified"},
         file : Keys \cup {NoKey}, env : Keys \cup {NoKey},
         chain : Seq(Chunk), response : Signature \cup {NoOutput}]

(* SELECT: the security environment of the file left behind is lost.         *)
Selected(k) == [card EXCEPT !.file = k, !.env = NoKey,
                            !.chain = NoChunks, !.response = NoOutput]

(* MANAGE SECURITY ENVIRONMENT: a key reference means one in the current     *)
(* file.                                                                     *)
EnvironmentSet == [card EXCEPT !.env = card.file, !.chain = NoChunks]

Accepts == card.status = "verified" /\ card.env \notin OtherPinKeys \cup {NoKey}

(* PERFORM SECURITY OPERATION: the last command of the chain signs what the  *)
(* chain brought, and leaves the signature to GET RESPONSE.                  *)
Received(chunk, last) ==
    IF ~Accepts THEN [card EXCEPT !.chain = NoChunks]
    ELSE IF last
    THEN [card EXCEPT !.chain = NoChunks,
            !.response = [key |-> card.env, data |-> Append(card.chain, chunk)]]
    ELSE [card EXCEPT !.chain = Append(@, chunk)]

PinRight(pin) == card.tries > 0 /\ card.pin = pin
PinWrong(pin) == card.tries > 0 /\ card.pin # pin

(* VERIFY, and CHANGE REFERENCE DATA with the same test of the old PIN.      *)
Verified(pin) ==
    IF PinRight(pin) THEN [card EXCEPT !.status = "verified", !.tries = MaxTries]
    ELSE IF PinWrong(pin) THEN [card EXCEPT !.status = "none", !.tries = @ - 1]
    ELSE card

-----------------------------------------------------------------------------
(* sc_lock and sc_unlock on the lock's state, once the transaction is to be  *)
(* had.                                                                      *)

Locks == [count : [Processes -> Nat], owner : Processes \cup {Nobody}]

Locked(l, p) ==
    [count |-> [l.count EXCEPT ![p] = @ + 1],
     owner |-> IF l.count[p] = 0 THEN p ELSE l.owner]

(* Mutant: the transaction ends with the innermost unlock. *)
UnlockedEarly(l, p) ==
    [count |-> [l.count EXCEPT ![p] = @ - 1], owner |-> Nobody]

UnlockedTimes(l, p, n) ==
    [count |-> [l.count EXCEPT ![p] = @ - n],
     owner |-> IF n > 0 /\ l.count[p] = n THEN Nobody ELSE l.owner]

Unlocked(l, p) == UnlockedTimes(l, p, 1)

(* sc_transmit_apdu for a single command: it takes the lock once more.  The  *)
(* service lets a command through unless another process has a transaction.  *)
MayTransmit(p) == lock.owner \in {p, Nobody}
Transmit(p) == MayTransmit(p) /\ lock' = Unlocked(Locked(lock, p), p)

-----------------------------------------------------------------------------
Kinds == {"sign", "login", "change"}
Places == {"idle", "locking", "select", "env", "send", "response",
           "revalidate", "pin", "release"}

Operation == [kind : Kinds, key : Keys \cup {NoKey}, pin : PINs \cup {NoPin},
              new : PINs \cup {NoPin}, sent : 0 .. Chunks,
              retries : 0 .. LockRetries, revalidations : 0 .. 1]

TypeOK ==
    /\ card \in Card
    /\ lock \in Locks
    /\ stale \subseteq Processes
    /\ locked \in [Processes -> Nat]
    /\ cache \in [Processes -> PINs \cup {NoPin}]
    /\ loggedIn \subseteq Processes
    /\ pc \in [Processes -> Places]
    /\ op \in [Processes -> Operation]
    /\ out \in [Processes -> Signature \cup {NoOutput}]
    /\ failures \in [Processes -> Nat]
    /\ changes \in Nat
    /\ resets \in 0 .. MaxResets

NoOperation == [kind |-> "sign", key |-> NoKey, pin |-> NoPin, new |-> NoPin,
                sent |-> 0, retries |-> 0, revalidations |-> 0]

Init ==
    /\ card = [pin |-> IssuedPin, tries |-> MaxTries, status |-> "none",
               file |-> NoKey, env |-> NoKey, chain |-> NoChunks, response |-> NoOutput]
    /\ lock = [count |-> [p \in Processes |-> 0], owner |-> Nobody]
    /\ stale = {}
    /\ locked = [p \in Processes |-> 0]
    /\ cache = [p \in Processes |-> NoPin]
    /\ loggedIn = {}
    /\ pc = [p \in Processes |-> "idle"]
    /\ op = [p \in Processes |-> NoOperation]
    /\ out = [p \in Processes |-> NoOutput]
    /\ failures = [p \in Processes |-> 0]
    /\ changes = 0
    /\ resets = 0

Goto(p, place) == pc' = [pc EXCEPT ![p] = place]

(* The call returns, with the signature in out.                              *)
Return(p) ==
    /\ Goto(p, "idle")
    /\ op' = [op EXCEPT ![p] = NoOperation]
    /\ out' = [out EXCEPT ![p] = NoOutput]

-----------------------------------------------------------------------------
(* What an application asks for.                                             *)

Begin(p, o) ==
    /\ pc[p] = "idle"
    /\ Goto(p, "locking")
    /\ op' = [op EXCEPT ![p] = o]
    /\ UNCHANGED <<card, lock, stale, locked, pinVars, out, history>>

C_Sign(p, k) == Begin(p, [NoOperation EXCEPT !.key = k])

C_Login(p, pin) ==
    /\ p \notin loggedIn
    /\ p \in LockLogin => locked[p] < MaxLoginLocks
    /\ Begin(p, [NoOperation EXCEPT !.kind = "login", !.pin = pin])

Changing == {p \in Processes : pc[p] # "idle" /\ op[p].kind = "change"}

C_SetPIN(p, old, new) ==
    /\ old # new
    /\ changes + Cardinality(Changing) < MaxChanges
    /\ Begin(p, [NoOperation EXCEPT !.kind = "change", !.pin = old, !.new = new])

(* With SW_PIN_LOGOUT_ONLY: the cached PIN goes, the card is not told, and   *)
(* unlock_card is not reached.                                               *)
C_Logout(p) ==
    /\ pc[p] = "idle"
    /\ p \in loggedIn
    /\ loggedIn' = loggedIn \ {p}
    /\ cache' = [cache EXCEPT ![p] = NoPin]
    /\ UNCHANGED <<card, lock, stale, locked, failures, pc, op, out, history>>

(* C_Finalize, or the card's removal: pkcs15_unbind gives the login's locks  *)
(* back and forgets the PIN; a later connection has a new handle.            *)
C_Finalize(p) ==
    /\ pc[p] = "idle"
    /\ lock' = UnlockedTimes(lock, p, locked[p])
    /\ locked' = [locked EXCEPT ![p] = 0]
    /\ loggedIn' = loggedIn \ {p}
    /\ cache' = [cache EXCEPT ![p] = NoPin]
    /\ stale' = stale \ {p}
    /\ UNCHANGED <<card, failures, pc, op, out, history>>

-----------------------------------------------------------------------------
(* Taking the lock.                                                          *)

MayLock(p) == lock.count[p] > 0 \/ (lock.owner = Nobody /\ p \notin stale)

(* C_Sign locks the card and use_key once more; a login with lock_login      *)
(* takes a lock to keep before the lock of the verification.                 *)
Lock(p) ==
    LET once == Locked(lock, p)
        keeps == op[p].kind = "login" /\ p \in LockLogin
    IN  /\ pc[p] = "locking"
        /\ MayLock(p)
        /\ lock' = IF keeps \/ op[p].kind = "sign" THEN Locked(once, p) ELSE once
        /\ locked' = IF keeps THEN [locked EXCEPT ![p] = @ + 1] ELSE locked
        /\ Goto(p, IF op[p].kind = "sign" THEN "select" ELSE "pin")
        /\ UNCHANGED <<card, stale, pinVars, op, out, history>>

(* Mutant: the resets met are counted and never compared. *)
MayRetryForever(p) == op[p].retries >= 0

MayRetry(p) == op[p].retries < LockRetries

(* SCARD_W_RESET_CARD: the handle is connected again, and the lock tried     *)
(* again until it has met one reset too many.                                *)
Reconnect(p) ==
    /\ pc[p] = "locking"
    /\ lock.count[p] = 0 /\ lock.owner = Nobody
    /\ p \in stale
    /\ stale' = stale \ {p}
    /\ \/ MayRetry(p)
          /\ op' = [op EXCEPT ![p].retries = @ + 1]
          /\ UNCHANGED <<pc, out>>
       \/ ~MayRetry(p) /\ Return(p)
    /\ UNCHANGED <<card, lock, locked, pinVars, history>>

-----------------------------------------------------------------------------
(* use_key.                                                                  *)

SelectKeyFile(p) ==
    /\ pc[p] = "select"
    /\ Transmit(p)
    /\ card' = Selected(op[p].key)
    /\ Goto(p, "env")
    /\ UNCHANGED <<stale, locked, pinVars, op, out, history>>

SetSecurityEnv(p) ==
    /\ pc[p] = "env"
    /\ Transmit(p)
    /\ card' = EnvironmentSet
    /\ Goto(p, "send")
    /\ UNCHANGED <<stale, locked, pinVars, op, out, history>>

(* A refused operation is repeated once, if there is a cached PIN to verify. *)
(* (Its usage_counter is zeroed by every success, before it can reach        *)
(* pin_cache_counter: it decides nothing, and is left out.)                  *)
Revalidates(p) == op[p].revalidations = 0 /\ cache[p] # NoPin

(* One command of the chain.  sc_transmit_apdu holds its lock over the whole *)
(* chain, and stops at the first command that is refused.                    *)
SendChunk(p) ==
    LET sent == op[p].sent
        last == sent + 1 = Chunks
        held == IF sent = 0 THEN Locked(lock, p) ELSE lock
    IN  /\ pc[p] = "send"
        /\ MayTransmit(p)
        /\ card' = Received(<<p, sent + 1>>, last)
        /\ lock' = IF Accepts /\ ~last THEN held ELSE Unlocked(held, p)
        /\ op' = [op EXCEPT ![p].sent = IF Accepts THEN @ + 1 ELSE 0]
        /\ Goto(p, IF Accepts THEN IF last THEN "response" ELSE "send"
                   ELSE IF Revalidates(p) THEN "revalidate" ELSE "release")
        /\ UNCHANGED <<stale, locked, pinVars, out, history>>

(* sc_get_response.                                                          *)
GetResponse(p) ==
    /\ pc[p] = "response"
    /\ Transmit(p)
    /\ out' = [out EXCEPT ![p] = card.response]
    /\ card' = [card EXCEPT !.response = NoOutput]
    /\ Goto(p, "release")
    /\ UNCHANGED <<stale, locked, pinVars, op, history>>

(* Mutant: a cached PIN that was refused is kept. *)
CacheAfterKept(p, pin) == pin

(* What the cache holds after a verification of PIN pin from it.             *)
CacheAfter(p, pin) == IF PinRight(pin) THEN pin ELSE NoPin

(* sc_pkcs15_pincache_revalidate: the successful verification stores the PIN *)
(* again; a refused one empties the cache.                                   *)
Revalidate(p) ==
    LET pin == cache[p]
    IN  /\ pc[p] = "revalidate"
        /\ Transmit(p)
        /\ card' = Verified(pin)
        /\ cache' = [cache EXCEPT ![p] = CacheAfter(p, pin)]
        /\ failures' = [failures EXCEPT ![p] = IF PinWrong(pin) THEN @ + 1 ELSE @]
        /\ op' = [op EXCEPT ![p].revalidations = 1]
        /\ Goto(p, IF PinRight(pin) THEN "select" ELSE "release")
        /\ UNCHANGED <<stale, locked, loggedIn, out, history>>

-----------------------------------------------------------------------------
(* The PIN a user typed: sc_pkcs15_verify_pin and sc_pkcs15_change_pin store *)
(* it when the card took it.                                                 *)

Stored(p, pin, right) ==
    cache' = IF right THEN [cache EXCEPT ![p] = pin] ELSE cache

VerifyPin(p) ==
    LET pin == op[p].pin
    IN  /\ pc[p] = "pin" /\ op[p].kind = "login"
        /\ Transmit(p)
        /\ card' = Verified(pin)
        /\ Stored(p, pin, PinRight(pin))
        /\ loggedIn' = IF PinRight(pin) THEN loggedIn \cup {p} ELSE loggedIn
        /\ Goto(p, "release")
        /\ UNCHANGED <<stale, locked, failures, op, out, history>>

ChangePin(p) ==
    LET right == PinRight(op[p].pin)
    IN  /\ pc[p] = "pin" /\ op[p].kind = "change"
        /\ changes < MaxChanges
        /\ Transmit(p)
        /\ card' = [Verified(op[p].pin) EXCEPT !.pin = IF right THEN op[p].new ELSE @,
                                               !.status = IF right THEN card.status ELSE @]
        /\ Stored(p, op[p].new, right)
        /\ changes' = IF right THEN changes + 1 ELSE changes
        /\ Goto(p, "release")
        /\ UNCHANGED <<stale, locked, loggedIn, failures, op, out, resets>>

(* Mutant: the error is returned before the lock. *)
TransmitFailsLocked(p) ==
    /\ pc[p] \in {"select", "env", "send", "response", "revalidate", "pin"}
    /\ MayTransmit(p)
    /\ Return(p)
    /\ UNCHANGED <<card, lock, stale, locked, pinVars, history>>

(* A command does not reach the card: the operation gives up, whatever it    *)
(* was at, and a PIN that was to be verified again is forgotten.             *)
TransmitFails(p) ==
    /\ pc[p] \in {"select", "env", "send", "response", "revalidate", "pin"}
    /\ MayTransmit(p)
    /\ lock' = IF pc[p] = "send" /\ op[p].sent > 0 THEN Unlocked(lock, p) ELSE lock
    /\ cache' = IF pc[p] = "revalidate" THEN [cache EXCEPT ![p] = NoPin] ELSE cache
    /\ Goto(p, "release")
    /\ UNCHANGED <<card, stale, locked, loggedIn, failures, op, out, history>>

(* The locks the operation took are given back.                              *)
Release(p) ==
    LET once == Unlocked(lock, p)
    IN  /\ pc[p] = "release"
        /\ lock' = IF op[p].kind = "sign" THEN Unlocked(once, p) ELSE once
        /\ Return(p)
        /\ UNCHANGED <<card, stale, locked, pinVars, history>>

-----------------------------------------------------------------------------
(* Other software resets the card; it cannot while a transaction is held.    *)
Reset ==
    /\ lock.owner = Nobody
    /\ resets < MaxResets
    /\ resets' = resets + 1
    /\ card' = [card EXCEPT !.status = "none", !.file = NoKey, !.env = NoKey,
                            !.chain = NoChunks, !.response = NoOutput]
    /\ stale' = Processes
    /\ UNCHANGED <<lock, locked, pinVars, pc, op, out, changes>>

Request(p) ==
    \/ \E k \in Keys : C_Sign(p, k)
    \/ \E pin \in PINs : C_Login(p, pin)
    \/ \E old, new \in PINs : C_SetPIN(p, old, new)
    \/ C_Logout(p)
    \/ C_Finalize(p)

Step(p) ==
    \/ Lock(p)
    \/ Reconnect(p)
    \/ SelectKeyFile(p)
    \/ SetSecurityEnv(p)
    \/ SendChunk(p)
    \/ GetResponse(p)
    \/ Revalidate(p)
    \/ VerifyPin(p)
    \/ ChangePin(p)
    \/ TransmitFails(p)
    \/ Release(p)

Next == Reset \/ \E p \in Processes : Request(p) \/ Step(p)

(* An operation that can go on does.  Nothing is assumed of requests, and    *)
(* the service owes nobody a transaction that others keep taking.            *)
Fairness == \A p \in Processes : WF_vars(Step(p))

Spec == Init /\ [][Next]_vars /\ Fairness

-----------------------------------------------------------------------------
(* Properties.                                                               *)

Message(p) == [i \in 1 .. Chunks |-> <<p, i>>]

(* What use_key hands back was made with the key asked for over the whole of *)
(* the caller's data, whatever other processes do with the card's current    *)
(* file, security environment, chain and response.                           *)
SignsWithOwnKey ==
    \A p \in Processes :
        out[p] # NoOutput => out[p] = [key |-> op[p].key, data |-> Message(p)]

(* A PIN that another process has changed costs every process that cached it *)
(* one try, and no more: revalidations alone never use up the retry counter. *)
CachedPinCostsOneTry == \A p \in Processes : failures[p] <= changes

(* Every operation ends its transaction, on all its paths: others may have   *)
(* the card unless a login keeps it.                                         *)
TransactionsEnd ==
    \A p \in Processes :
        lock.owner = p ~> lock.owner # p \/ locked[p] > 0

(* opensc.conf, lock_login: "no other application can use it, until the      *)
(* first is done and calls C_Logout or C_Finalize".  The code does not keep  *)
(* to it: the transaction outlives C_Logout.                                 *)
LogoutReleasesCard ==
    [][\A p \in Processes : C_Logout(p) => lock'.owner # p]_vars

=============================================================================
