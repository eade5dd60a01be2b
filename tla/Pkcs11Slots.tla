---------------------------- MODULE Pkcs11Slots ----------------------------
(* The virtual slots of OpenSC's PKCS#11 module: how a card found in a       *)
(* reader becomes the token of one or more slots, and what is torn down when *)
(* it goes.  Every operator takes the library's state w, a record of the     *)
(* slot list, the session list, the driver's record of each reader and the   *)
(* detection retries left, and returns the next one, so that an API call     *)
(* can chain them in the order the code does, all under the global lock.     *)
EXTENDS PcscReaders, Sequences

CONSTANTS
    Pins,            \* kind -> slots its PINs ask for; 0: no framework binds it
    SlotsPerCard,    \* slots created for a reader
    MaxVirtualSlots, \* slots the library will create at all
    MaxRetry,        \* card changes accepted before one is given up (3)
    Handles,         \* session handles
    NoSession        \* what a handle not in use refers to

ASSUME SlotsAssumption ==
    /\ Pins \in [Kinds -> Nat]
    /\ SlotsPerCard \in Nat \ {0}
    /\ MaxVirtualSlots \in Nat \ {0}
    /\ MaxRetry \in Nat

Users == {"user", "so"}

(* p11card is the event counter at which the card was connected, 0 for NULL; *)
(* login_user is "none" for -1; logins is the list kept in atomic mode;      *)
(* reader_events is what the slot's own listener last saw.                   *)
Slot == [reader : Readers, p11card : Counters, present : BOOLEAN,
         events : {"none", "inserted", "removed"},
         login_user : Users \cup {"none"}, logins : Seq(Users),
         nsessions : Int, reader_events : Views]

Session == [slot : Nat \ {0}, rw : BOOLEAN]

ASSUME NoSessionAssumption == NoSession \notin Session

World == [slots : Seq(Slot), sessions : [Handles -> Session \cup {NoSession}],
          polled : Views, retry : 0 .. MaxRetry]

SlotIds(w) == DOMAIN w.slots
Listed(w) == {h \in Handles : w.sessions[h] # NoSession}
SessionsOf(w, s) == {h \in Listed(w) : w.sessions[h].slot = s}
SlotsOf(w, r) == {s \in SlotIds(w) : w.slots[s].reader = r}
FirstOf(S) == CHOOSE s \in S : \A t \in S : s <= t

(* create_slot: at the end of the list, with a listener that starts from     *)
(* what the driver has just recorded.                                        *)
NewSlot(r, polled) ==
    [reader |-> r, p11card |-> 0, present |-> FALSE, events |-> "none",
     login_user |-> "none", logins |-> <<>>, nsessions |-> 0,
     reader_events |-> Poll(polled).view]

(* card_detect_all creates SlotsPerCard slots for a reader it has none for,  *)
(* until the list is full.                                                   *)
CreateSlots(w, r) ==
    LET room == MaxVirtualSlots - Len(w.slots)
        n == IF room < SlotsPerCard THEN room ELSE SlotsPerCard
    IN  [w EXCEPT !.slots = @ \o [i \in 1 .. n |-> NewSlot(r, w.polled)]]

(* Mutants: one decrement for all the sessions closed; no logout.            *)
ClosedCountingOne(w, s) ==
    [w.slots[s] EXCEPT !.nsessions = @ - 1, !.login_user = "none", !.logins = <<>>]

ClosedLoggedIn(w, s) ==
    [w.slots[s] EXCEPT !.nsessions = @ - Cardinality(SessionsOf(w, s))]

(* sc_pkcs11_close_session on every session of a slot: the last one logs out.*)
(* (It refuses when the slot has a login and no card; LoginNeedsCard says    *)
(* that this does not happen.)                                               *)
Closed(w, s) ==
    LET left == w.slots[s].nsessions - Cardinality(SessionsOf(w, s))
        out == left = 0 /\ w.slots[s].login_user # "none"
    IN  [w.slots[s] EXCEPT !.nsessions = left,
                           !.login_user = IF out THEN "none" ELSE @,
                           !.logins = IF out THEN <<>> ELSE @]

(* Every session of slots S.                                                 *)
CloseAll(w, S) ==
    [w EXCEPT
        !.sessions = [h \in Handles |->
            IF h \in Listed(w) /\ @[h].slot \in S THEN NoSession ELSE @[h]],
        !.slots = [s \in SlotIds(w) |->
            IF s \in S /\ SessionsOf(w, s) # {} THEN Closed(w, s) ELSE @[s]]]

(* slot_token_removed, once the sessions are closed.                         *)
SlotTokenRemoved(slot) ==
    [slot EXCEPT !.p11card = 0, !.present = FALSE,
                 !.login_user = "none", !.logins = <<>>,
                 !.events = IF slot.present THEN "removed" ELSE @]

(* Mutant: the sessions of a slot are left open. *)
CardRemovedSessionsOpen(w, r) ==
    [w EXCEPT !.slots = [s \in SlotIds(w) |->
        IF @[s].reader = r THEN SlotTokenRemoved(@[s]) ELSE @[s]]]

(* card_removed: slot_token_removed for every slot of the reader.            *)
CardRemoved(w, r) ==
    [CloseAll(w, SlotsOf(w, r)) EXCEPT !.slots = [s \in SlotIds(w) |->
        IF @[s].reader = r THEN SlotTokenRemoved(@[s]) ELSE @[s]]]

(* The card handle of reader r: the p11card of the first slot of the reader, *)
(* which is the only one card_detect looks at.                               *)
Handle(w, r) ==
    IF SlotsOf(w, r) = {} THEN 0 ELSE w.slots[FirstOf(SlotsOf(w, r))].p11card

(* sc_connect_card, pkcs15_bind and pkcs15_create_tokens for a card that is  *)
(* not connected: one free slot of the reader for each PIN, first come first *)
(* served, the PINs that find none being left out.  A card that no framework *)
(* binds is disconnected again.                                              *)
FreeSlots(w, r) == {s \in SlotsOf(w, r) : w.slots[s].p11card = 0}

TokenSlots(w, r) ==
    {s \in FreeSlots(w, r) :
        Cardinality({t \in FreeSlots(w, r) : t < s}) < Pins[inserted[r]]}

CreateTokens(w, r) ==
    [w EXCEPT !.slots = [s \in SlotIds(w) |->
        IF s \in TokenSlots(w, r)
        THEN [@[s] EXCEPT !.p11card = counter[r],
                          !.present = TRUE,
                          !.events = "inserted"]
        ELSE @[s]]]

Recognised(r) == inserted[r] # NoCard /\ Pins[inserted[r]] > 0

Connect(w, r) ==
    IF Handle(w, r) # 0 \/ Recognised(r)
    THEN [rv |-> "ok", w |-> IF Handle(w, r) = 0 THEN CreateTokens(w, r) ELSE w]
    ELSE [rv |-> "unrecognised", w |-> w]

(* Mutant: a changed card is dropped but not looked for again. *)
DetectedOnce(w, r, noChange, changed) ==
    IF ~Present(counter[r]) \/ (changed /\ ~noChange)
    THEN [rv |-> "absent", w |-> CardRemoved(w, r)]
    ELSE IF noChange THEN [rv |-> "ok", w |-> w] ELSE Connect(w, r)

(* Mutant: the retries are counted down and never compared. *)
DetectedUncapped(w, r, noChange, changed) ==
    IF ~Present(counter[r]) THEN [rv |-> "absent", w |-> CardRemoved(w, r)]
    ELSE IF noChange THEN [rv |-> "ok", w |-> w]
    ELSE IF ~changed THEN Connect(w, r)
    ELSE Connect([CardRemoved(w, r) EXCEPT !.retry = @ - 1], r)

(* card_detect after the presence check.  An absent card takes its tokens    *)
(* away; no event since the listener's last look ends the detection, with    *)
(* the change the driver reports unread; a changed card is dropped and       *)
(* connected anew unless the retries, which no success restores, are used    *)
(* up.                                                                       *)
Detected(w, r, noChange, changed) ==
    IF ~Present(counter[r]) THEN [rv |-> "absent", w |-> CardRemoved(w, r)]
    ELSE IF noChange THEN [rv |-> "ok", w |-> w]
    ELSE IF ~changed THEN Connect(w, r)
    ELSE IF w.retry = 0
         THEN [rv |-> "absent", w |-> [CardRemoved(w, r) EXCEPT !.retry = MaxRetry]]
         ELSE Connect([CardRemoved(w, r) EXCEPT !.retry = @ - 1], r)

Refreshed(w, r) == [w EXCEPT !.polled[r] = counter[r]]

(* card_detect(reader, the listener of slot s).                              *)
CardDetect(w, r, s) ==
    LET p == Poll(w.slots[s].reader_events)
        looked == [w EXCEPT !.slots[s].reader_events = p.view]
    IN  Detected(Refreshed(looked, r), r, p.reader # r,
                 Changed(r, w.polled[r], Handle(w, r)))

(* card_detect(reader, NULL), for a reader whose slots are new.              *)
CardDetectNew(w, r) ==
    Detected(Refreshed(w, r), r, FALSE, Changed(r, w.polled[r], Handle(w, r)))

(* card_detect_all: one reader after the other.  When the list is full and a *)
(* reader gets no slot, the readers after it are not looked at.              *)
DetectNext(before, r) ==
    LET w == before.w
        c == CreateSlots(w, r)
    IN  IF before.full THEN before
        ELSE IF SlotsOf(w, r) # {}
        THEN [full |-> FALSE, w |-> CardDetect(w, r, FirstOf(SlotsOf(w, r))).w]
        ELSE IF Len(c.slots) - Len(w.slots) < SlotsPerCard
        THEN [full |-> TRUE, w |-> c]
        ELSE [full |-> FALSE, w |-> CardDetectNew(c, r).w]

CardDetectAll(w0) ==
    LET after[r \in 0 .. NReaders] ==
        IF r = 0 THEN [full |-> FALSE, w |-> w0] ELSE DetectNext(after[r - 1], r)
    IN  after[NReaders].w

(* slot_get_token: a slot that presents no token first looks for one.        *)
SlotGetToken(w, s) ==
    IF w.slots[s].present THEN [rv |-> "ok", w |-> w]
    ELSE LET d == CardDetect(w, w.slots[s].reader, s)
         IN  [rv |-> IF d.rv = "ok" /\ ~d.w.slots[s].present THEN "absent" ELSE d.rv,
              w |-> d.w]

(* slot_find_changed: detect, then report the first slot with an event and   *)
(* forget that event, with those of insertions whose card has gone again;    *)
(* slot is 0 when there is none.                                             *)
Pending(w) ==
    {s \in SlotIds(w) : \/ w.slots[s].events = "removed"
                        \/ w.slots[s].events = "inserted" /\ w.slots[s].present}

Reported(w, first) ==
    [slot |-> first,
     w |-> [w EXCEPT !.slots = [s \in SlotIds(w) |->
        IF s = first \/ (/\ @[s].events = "inserted"
                         /\ ~@[s].present
                         /\ first = 0 \/ s < first)
        THEN [@[s] EXCEPT !.events = "none"] ELSE @[s]]]]

FirstReported(w) ==
    Reported(w, IF Pending(w) = {} THEN 0 ELSE FirstOf(Pending(w)))

SlotFindChanged(w) == FirstReported(CardDetectAll(w))

=============================================================================
