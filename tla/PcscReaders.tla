---------------------------- MODULE PcscReaders ----------------------------
(* The card readers as libopensc's PC/SC driver sees them.  A reader's       *)
(* history is one event counter, as the PC/SC service keeps it: it grows by  *)
(* one at every insertion and every removal, so a card is inside exactly when*)
(* it is odd, and an odd value names one insertion of one card.  A listener  *)
(* (a slot's reader_events, or the states of a waiting thread) is what that  *)
(* listener last saw of every reader.                                        *)
EXTENDS Integers, FiniteSets

CONSTANTS
    NReaders,   \* readers 1 .. NReaders, in the order the context lists them
    Kinds,      \* the kinds of card that can be inserted
    NoCard,     \* what a reader without a card holds
    MaxEvents   \* bound: insertions and removals of one reader

ASSUME ReadersAssumption ==
    /\ NReaders \in Nat \ {0}
    /\ MaxEvents \in Nat
    /\ NoCard \notin Kinds

Readers == 1 .. NReaders

VARIABLES
    counter,    \* reader -> insertions and removals so far
    inserted    \* reader -> the kind of card inside, or NoCard

readerVars == <<counter, inserted>>

Counters == 0 .. MaxEvents
Views == [Readers -> Counters]

ReadersTypeOK ==
    /\ counter \in Views
    /\ inserted \in [Readers -> Kinds \cup {NoCard}]

ReadersInit ==
    /\ counter = [r \in Readers |-> 0]
    /\ inserted = [r \in Readers |-> NoCard]

Present(n) == n % 2 = 1

(* A person puts a card into a reader, or takes it out.                      *)
Insert(r, k) ==
    /\ ~Present(counter[r])
    /\ counter[r] < MaxEvents
    /\ counter' = [counter EXCEPT ![r] = @ + 1]
    /\ inserted' = [inserted EXCEPT ![r] = k]

Remove(r) ==
    /\ Present(counter[r])
    /\ counter[r] < MaxEvents
    /\ counter' = [counter EXCEPT ![r] = @ + 1]
    /\ inserted' = [inserted EXCEPT ![r] = NoCard]

(* The readers whose card came or went since view v.  A card exchanged for   *)
(* another between two looks is in neither direction a change of presence,   *)
(* and is no event.                                                          *)
Moved(v) == {r \in Readers : Present(counter[r]) # Present(v[r])}

(* pcsc_wait_for_event with no timeout: the scan stops at the first reader   *)
(* with an event, so the readers after it keep the listener's older view and *)
(* are reported by a later call.  reader is 0 when there is no event.        *)
Poll(v) ==
    IF Moved(v) = {}
    THEN [reader |-> 0, view |-> counter]
    ELSE LET first == CHOOSE r \in Moved(v) : \A q \in Moved(v) : r <= q
         IN  [reader |-> first,
              view |-> [r \in Readers |-> IF r <= first THEN counter[r] ELSE v[r]]]

(* refresh_attributes: the card inside is reported as changed when the       *)
(* driver's own record of the reader is old, or when the handle of the       *)
(* connected card (0 for none) is no longer that of the card inside.         *)
Changed(r, polled, handle) ==
    /\ Present(counter[r])
    /\ \/ polled # counter[r]
       \/ handle # 0 /\ handle # counter[r]

=============================================================================
