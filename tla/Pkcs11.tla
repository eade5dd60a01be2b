------------------------------- MODULE Pkcs11 -------------------------------
(* OpenSC's PKCS#11 module as an application drives it: initialisation and   *)
(* finalisation, slots, sessions, login, and the thread that waits for a slot*)
(* event.  A call runs under the global lock and is one action; it needs the *)
(* lock free.  C_WaitForSlotEvent gives the lock up while it waits, and is   *)
(* several actions.  Cards come and go at any moment between them.           *)
EXTENDS Pkcs11Slots

CONSTANTS
    MaxInits,       \* bound: calls of C_Initialize that succeed
    AtomicOption,   \* what each of them reads for the atomic option
    SessionFlags    \* handle -> the CKF_RW_SESSION flags it is opened with

ASSUME Pkcs11Assumption ==
    /\ MaxInits \in Nat
    /\ AtomicOption \in [1 .. MaxInits -> BOOLEAN]
    /\ SessionFlags \in [Handles -> SUBSET BOOLEAN]

VARIABLES
    lib,         \* slots, sessions, the driver's records, the retries left
    open,        \* context # NULL
    inFinalize,  \* in_finalize
    atomic,      \* the atomic option, read by C_Initialize
    lock,        \* the global lock between calls: "free", or left held, "stuck"
    pc,          \* where the thread in C_WaitForSlotEvent is
    readerStates,\* its reader_states; <<>> for NULL
    woke,        \* why its wait ended: "event" or "cancelled"
    inits        \* successful initialisations, for the bound

waitVars == <<pc, readerStates, woke>>
libraryVars == <<open, inFinalize, atomic, inits>>
vars == <<readerVars, lib, lock, libraryVars, waitVars>>

(* "undefined": the thread went on in a library already torn down.           *)
Places == {"idle", "unlocked", "watching", "woken", "locking", "undefined"}

TypeOK ==
    /\ ReadersTypeOK
    /\ lib \in World
    /\ open \in BOOLEAN
    /\ inFinalize \in BOOLEAN
    /\ atomic \in BOOLEAN
    /\ lock \in {"free", "stuck"}
    /\ pc \in Places
    /\ readerStates \in Views \cup {<<>>}
    /\ woke \in {"event", "cancelled"}
    /\ inits \in 0 .. MaxInits

NoView == [r \in Readers |-> 0]
Emptied(retry) == [slots |-> <<>>, sessions |-> [h \in Handles |-> NoSession],
                   polled |-> NoView, retry |-> retry]

Init ==
    /\ ReadersInit
    /\ lib = Emptied(MaxRetry)
    /\ open = FALSE
    /\ inFinalize = FALSE
    /\ atomic = FALSE
    /\ lock = "free"
    /\ pc = "idle"
    /\ readerStates = <<>>
    /\ woke = "event"
    /\ inits = 0

(* sc_pkcs11_lock succeeds at once; a call that finds the lock held blocks.  *)
Locked == open /\ lock = "free"

(* A call that leaves the library in state w and the lock free.              *)
Answer(w) ==
    /\ Locked
    /\ lib' = w
    /\ UNCHANGED <<readerVars, lock, libraryVars, waitVars>>

(***************************************************************************)
(* Initialisation and finalisation                                         *)
(***************************************************************************)

C_Initialize ==
    /\ ~open
    /\ inits < MaxInits
    /\ inits' = inits + 1
    /\ open' = TRUE
    /\ inFinalize' = FALSE
    /\ atomic' = AtomicOption[inits']
    /\ lib' = CardDetectAll([Emptied(lib.retry) EXCEPT !.polled = counter])
    /\ UNCHANGED <<readerVars, lock, waitVars>>

(* Mutant: the wait is not interrupted. *)
CancelNobody == UNCHANGED waitVars

(* sc_cancel reaches a thread only if it is watching by then.                *)
CancelWait ==
    IF pc = "watching"
    THEN pc' = "woken" /\ woke' = "cancelled" /\ UNCHANGED readerStates
    ELSE UNCHANGED waitVars

C_Finalize ==
    /\ Locked
    /\ inFinalize' = TRUE
    /\ CancelWait
    /\ lib' = Emptied(lib.retry)
    /\ open' = FALSE
    /\ UNCHANGED <<readerVars, lock, atomic, inits>>

(***************************************************************************)
(* Slots and tokens                                                        *)
(***************************************************************************)

C_GetSlotList == Answer(CardDetectAll(lib))

(* Once the slot's status is a second old.  A slot that no PIN of the card   *)
(* asked for, and a slot of a card no framework binds, come out of this with *)
(* a token present and no p11card.                                           *)
C_GetSlotInfo(s) ==
    LET all == CardDetectAll(lib)
        d == CardDetect(all, all.slots[s].reader, s)
    IN  Answer(IF d.rv = "absent" THEN d.w ELSE [d.w EXCEPT !.slots[s].present = TRUE])

(* C_GetTokenInfo, C_GetMechanismList and C_GetMechanismInfo.                *)
C_GetTokenInfo(s) == Answer(SlotGetToken(lib, s).w)

(* The card inside the reader is the one that was connected.                 *)
Answers(slot) == slot.p11card # 0 /\ slot.p11card = counter[slot.reader]

(* A token is initialised while no session is open on its own slot; the card *)
(* is dropped from all its slots and looked for again.                       *)
C_InitToken(s) ==
    LET t == SlotGetToken(lib, s)
        r == lib.slots[s].reader
    IN  /\ t.rv = "ok"
        /\ Answers(t.w.slots[s])
        /\ SessionsOf(t.w, s) = {}
        /\ Answer(CardDetectAll(CardRemoved(t.w, r)))

(***************************************************************************)
(* Sessions                                                                *)
(***************************************************************************)

C_OpenSession(s, h, rw) ==
    LET t == SlotGetToken(lib, s)
    IN  /\ h \notin Listed(lib)
        /\ t.rv = "ok" /\ (rw \/ t.w.slots[s].login_user # "so")
        /\ Answer([t.w EXCEPT !.slots[s].nsessions = @ + 1,
                              !.sessions[h] = [slot |-> s, rw |-> rw]])

(* sc_pkcs11_close_session for one session.                                  *)
C_CloseSession(h) ==
    LET s == lib.sessions[h].slot
        slot == lib.slots[s]
        out == slot.nsessions = 1 /\ slot.login_user # "none"
    IN  /\ h \in Listed(lib)
        /\ Answer([lib EXCEPT
            !.slots[s].nsessions = @ - 1,
            !.slots[s].login_user = IF out THEN "none" ELSE @,
            !.slots[s].logins = IF out THEN <<>> ELSE @,
            !.sessions[h] = IF out /\ ~atomic /\ slot.p11card = 0 THEN @ ELSE NoSession])

C_CloseAllSessions(s) ==
    LET t == SlotGetToken(lib, s)
    IN  Answer(IF t.rv = "ok" THEN CloseAll(t.w, {s}) ELSE t.w)

(* A session whose card is gone or was exchanged is refused, with all the    *)
(* sessions of its slot; the logins kept in atomic mode stay, for login_user *)
(* is cleared first.                                                         *)
C_GetSessionInfo(h) ==
    LET s == lib.sessions[h].slot
        r == lib.slots[s].reader
        card == lib.slots[s].p11card
        seen == IF card = 0 THEN lib ELSE Refreshed(lib, r)
        valid == /\ card # 0
                 /\ Present(counter[r])
                 /\ ~Changed(r, lib.polled[r], Handle(lib, r))
    IN  /\ h \in Listed(lib)
        /\ Answer(IF valid THEN seen
                  ELSE CloseAll([seen EXCEPT !.slots[s].login_user = "none"], {s}))

(***************************************************************************)
(* Login                                                                   *)
(***************************************************************************)

(* What a command on the card comes to; "notLoggedIn" is the card's answer   *)
(* that the PIN it verified is no longer valid.                              *)
Results == {"ok", "failed", "notLoggedIn"}

Verdicts(slot) == IF Answers(slot) THEN Results ELSE {"failed"}

(* A card without an SO PIN accepts any; without lock_login, which the       *)
(* atomic option turns on, it is not even asked.                             *)
LoginVerdicts(slot, user) ==
    Verdicts(slot) \cup (IF user = "so" /\ ~atomic THEN {"ok"} ELSE {})

(* reset_login_state.                                                        *)
ResetLogin(w, s, result) ==
    IF result = "notLoggedIn"
    THEN [w EXCEPT !.slots[s].login_user = "none", !.slots[s].logins = <<>>]
    ELSE w

(* C_Login and C_SetPIN return with the lock held when the slot has no card. *)
LeaveLocked ==
    /\ lock' = "stuck"
    /\ UNCHANGED <<readerVars, lib, libraryVars, waitVars>>

(* restore_login_state replays the logins kept in atomic mode before the new *)
(* one, and stops at the first that fails.                                   *)
Replays(slot) == IF slot.logins = <<>> THEN {"ok"} ELSE Verdicts(slot)

C_Login(h, user) ==
    LET s == lib.sessions[h].slot
        slot == lib.slots[s]
    IN  /\ h \in Listed(lib)
        /\ Locked
        /\ slot.login_user = "none"
        /\ user = "user" => slot.p11card # 0   \* CKF_USER_PIN_INITIALIZED
        /\ \/ slot.p11card = 0 /\ LeaveLocked
           \/ /\ slot.p11card # 0
              /\ \E replay \in Replays(slot), verdict \in LoginVerdicts(slot, user) :
                    IF replay = "ok" /\ verdict = "ok"
                    THEN Answer([lib EXCEPT
                            !.slots[s].login_user = user,
                            !.slots[s].logins = IF atomic THEN Append(@, user) ELSE @])
                    ELSE Answer(ResetLogin(lib, s,
                            IF replay = "ok" THEN verdict ELSE replay))

(* Mutant: the logins to replay are not popped. *)
LogoutKeepingLogins(h) ==
    /\ h \in Listed(lib)
    /\ lib.slots[lib.sessions[h].slot].login_user # "none"
    /\ Answer([lib EXCEPT !.slots[lib.sessions[h].slot].login_user = "none"])

C_Logout(h) ==
    LET s == lib.sessions[h].slot
        slot == lib.slots[s]
    IN  /\ h \in Listed(lib)
        /\ Locked
        /\ slot.login_user # "none"
        /\ lib' = [lib EXCEPT !.slots[s].login_user = "none", !.slots[s].logins = <<>>]
        /\ lock' = IF ~atomic /\ slot.p11card = 0 THEN "stuck" ELSE lock
        /\ UNCHANGED <<readerVars, libraryVars, waitVars>>

(* A command of a logged-in session on the card: context-specific C_Login,   *)
(* C_InitPIN by the SO, C_Sign, C_Decrypt.                                   *)
CardCommand(h) ==
    LET s == lib.sessions[h].slot
    IN  /\ h \in Listed(lib)
        /\ lib.slots[s].login_user # "none"
        /\ \E result \in Verdicts(lib.slots[s]) : Answer(ResetLogin(lib, s, result))

C_SetPIN(h) ==
    LET s == lib.sessions[h].slot
        slot == lib.slots[s]
    IN  /\ h \in Listed(lib)
        /\ lib.sessions[h].rw
        /\ Locked
        /\ \/ slot.p11card = 0 /\ LeaveLocked
           \/ /\ slot.p11card # 0
              /\ \E result \in Verdicts(slot) : Answer(ResetLogin(lib, s, result))

(***************************************************************************)
(* Slot events                                                             *)
(***************************************************************************)

(* C_WaitForSlotEvent with CKF_DONT_BLOCK.                                   *)
PollSlotEvent == Answer(SlotFindChanged(lib).w)

(* It has no event to report, and lets go of the lock to wait.               *)
BeginWait ==
    LET f == SlotFindChanged(lib)
    IN  /\ pc = "idle"
        /\ Locked
        /\ f.slot = 0
        /\ lib' = f.w
        /\ pc' = "unlocked"
        /\ UNCHANGED <<readerVars, lock, libraryVars, readerStates, woke>>

(* pcsc_wait_for_event: a thread without reader_states starts from what the  *)
(* driver has recorded by then.  The context may be gone by then, too.       *)
Watch ==
    LET p == Poll(IF readerStates = <<>> THEN lib.polled ELSE readerStates)
    IN  /\ pc = "unlocked"
        /\ \/ /\ open
              /\ readerStates' = p.view
              /\ woke' = "event"
              /\ pc' = IF p.reader = 0 THEN "watching" ELSE "woken"
           \/ /\ ~open
              /\ pc' = "undefined"
              /\ UNCHANGED <<readerStates, woke>>
        /\ UNCHANGED <<readerVars, lib, lock, libraryVars>>

(* The service reports a change to the watching thread; an exchange of cards *)
(* is no event to it.                                                        *)
Wake ==
    LET p == Poll(readerStates)
    IN  /\ pc = "watching"
        /\ counter # readerStates
        /\ readerStates' = p.view
        /\ pc' = IF p.reader = 0 THEN pc ELSE "woken"
        /\ UNCHANGED <<readerVars, lib, lock, libraryVars, woke>>

Returned == pc' = "idle" /\ readerStates' = <<>> /\ woke' = "event"

(* "Was C_Finalize called?", and sc_pkcs11_lock's test of the context.       *)
CheckFinalize ==
    /\ pc = "woken"
    /\ \/ (inFinalize \/ ~open) /\ Returned
       \/ /\ ~inFinalize /\ open
          /\ pc' = "locking"
          /\ UNCHANGED <<readerStates, woke>>
    /\ UNCHANGED <<readerVars, lib, lock, libraryVars>>

(* The lock is granted to an interrupted thread: an error is returned, or the*)
(* thread goes on without the context it tested before.                      *)
RelockInterrupted ==
    /\ pc = "locking"
    /\ lock = "free"
    /\ \/ open /\ woke = "cancelled" /\ Returned
       \/ ~open /\ pc' = "undefined" /\ UNCHANGED <<readerStates, woke>>
    /\ UNCHANGED <<readerVars, lib, lock, libraryVars>>

(* The lock is granted after an event: without a changed slot it is waited   *)
(* again.                                                                    *)
RelockChanged ==
    LET f == SlotFindChanged(lib)
    IN  /\ pc = "locking"
        /\ Locked
        /\ woke = "event"
        /\ lib' = f.w
        /\ IF f.slot # 0 THEN Returned
           ELSE pc' = "unlocked" /\ UNCHANGED <<readerStates, woke>>
        /\ UNCHANGED <<readerVars, lock, libraryVars>>

(***************************************************************************)
(* The specification                                                       *)
(***************************************************************************)

CardMoves ==
    /\ \E r \in Readers : (\E k \in Kinds : Insert(r, k)) \/ Remove(r)
    /\ UNCHANGED <<lib, lock, libraryVars, waitVars>>

SlotCall ==
    \E s \in SlotIds(lib) :
        \/ C_GetSlotInfo(s)
        \/ C_GetTokenInfo(s)
        \/ C_InitToken(s)
        \/ C_CloseAllSessions(s)
        \/ \E h \in Handles : \E rw \in SessionFlags[h] : C_OpenSession(s, h, rw)

SessionCall ==
    \E h \in Handles :
        \/ C_CloseSession(h)
        \/ C_GetSessionInfo(h)
        \/ \E user \in Users : C_Login(h, user)
        \/ C_Logout(h)
        \/ CardCommand(h)
        \/ C_SetPIN(h)

Interrupted == Watch \/ Wake \/ CheckFinalize \/ RelockInterrupted

Next ==
    \/ CardMoves
    \/ C_Initialize
    \/ C_Finalize
    \/ C_GetSlotList
    \/ PollSlotEvent
    \/ SlotCall
    \/ SessionCall
    \/ BeginWait
    \/ RelockChanged
    \/ Interrupted

(* The waiting thread is scheduled, and gets a lock that is free.  Nothing is*)
(* assumed of cards, of other calls, or of a search for changed slots.       *)
Fairness == WF_vars(Interrupted)

Spec == Init /\ [][Next]_vars /\ Fairness

(***************************************************************************)
(* Properties                                                              *)
(***************************************************************************)

(* A slot counts exactly the sessions listed for it: the count decides when  *)
(* sc_pkcs11_close_session logs out, on every path that closes sessions.     *)
SessionsAreCounted ==
    \A s \in SlotIds(lib) :
        lib.slots[s].nsessions = Cardinality(SessionsOf(lib, s))

(* login_user is set only while a session of the slot and its card are       *)
(* there: otherwise closing the last session fails half way and C_Logout     *)
(* returns with the lock held.                                               *)
LoginNeedsCard ==
    \A s \in SlotIds(lib) :
        lib.slots[s].login_user # "none" =>
            /\ lib.slots[s].p11card # 0
            /\ lib.slots[s].nsessions > 0

(* In atomic mode every command replays the kept logins first: they are those*)
(* of the user now logged in, and of nobody before, although a session that  *)
(* finds its card exchanged leaves them behind.                              *)
ReplaysCurrentLogin ==
    atomic => \A s \in SlotIds(lib) :
        lib.slots[s].login_user # "none" =>
            lib.slots[s].logins = <<lib.slots[s].login_user>>

(* When the card of a slot is dropped or replaced, in whatever call that is  *)
(* noticed, no session of the slot and no login outlives it.                 *)
CardChangeEndsSessions ==
    [][\A s \in SlotIds(lib) :
        LET card == lib.slots[s].p11card
            gone == s \notin DOMAIN lib'.slots \/ lib'.slots[s].p11card # card
        IN  card # 0 /\ gone =>
            /\ \A h \in SessionsOf(lib, s) : lib'.sessions[h] = NoSession
            /\ s \in DOMAIN lib'.slots => lib'.slots[s].login_user = "none"]_vars

(* A card that a detection pass learns of through an event is presented by a *)
(* slot after it, provided that no earlier reader had an event too, that the *)
(* retry counter is not used up, and that the call is not C_InitToken, whose *)
(* own second pass sees no event and leaves the card without a slot.         *)
NoticedCardIsPresented ==
    [][\A r \in Readers :
        LET S == SlotsOf(lib, r)
            view == lib.slots[FirstOf(S)].reader_events
        IN  /\ Recognised(r)
            /\ open /\ open'
            /\ S # {}
            /\ lib'.slots[FirstOf(S)].reader_events # view
            /\ lib.retry >= NReaders
            /\ Poll(view).reader = r
            /\ ~\E s \in S : C_InitToken(s)
            => \E s \in S : lib'.slots[s].p11card = counter[r]]_vars

(* A thread that C_Finalize finds watching is interrupted and comes back     *)
(* from C_WaitForSlotEvent, even if C_Initialize follows at once, unless the *)
(* lock is left held by a later call or a second C_Finalize overtakes it.    *)
CancelledWaitReturns ==
    woke = "cancelled" \/ (pc = "watching" /\ inFinalize)
        ~> pc \in {"idle", "undefined"} \/ lock = "stuck"

=============================================================================
