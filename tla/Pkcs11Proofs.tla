---------------------------- MODULE Pkcs11Proofs ----------------------------
(* Proofs about Pkcs11, for any readers, cards, slots, handles and bounds.   *)
EXTENDS Pkcs11, FiniteInduction, FiniteSetTheorems, SequenceTheorems

-----------------------------------------------------------------------------
(* The inductive invariant is a property of the library's state alone, given *)
(* the readers' counters and the mode, so that it can be carried through the *)
(* operators a call chains.                                                  *)

SessionsKnown(w) ==
    /\ IsFiniteSet(Listed(w))
    /\ \A h \in Listed(w) : w.sessions[h].slot \in SlotIds(w)

RecordsAreOld(w) == \A r \in Readers : w.polled[r] <= counter[r]

(* The slots of a reader that have a card are the first ones of the reader,  *)
(* and have the same card.                                                   *)
OneCardPerReader(w) ==
    \A s, t \in SlotIds(w) :
        /\ t <= s
        /\ w.slots[s].reader = w.slots[t].reader
        /\ w.slots[s].p11card # 0
        => w.slots[t].p11card = w.slots[s].p11card

(* Logins that outlive their session are those of a card that is no longer   *)
(* inside, so they are never replayed with success.                          *)
SlotOK(w, s) ==
    LET slot == w.slots[s]
    IN  /\ slot.nsessions = Cardinality(SessionsOf(w, s))
        /\ slot.login_user # "none" => slot.p11card # 0 /\ slot.nsessions > 0
        /\ atomic /\ slot.login_user # "none" => slot.logins = <<slot.login_user>>
        /\ slot.p11card = 0 => slot.logins = <<>>
        /\ slot.login_user = "none" /\ slot.logins # <<>> =>
              slot.p11card # counter[slot.reader]
        /\ slot.p11card # 0 =>
              Present(slot.p11card) /\ slot.p11card <= w.polled[slot.reader]

Sound(w) ==
    /\ w \in World
    /\ Len(w.slots) <= MaxVirtualSlots
    /\ SessionsKnown(w)
    /\ RecordsAreOld(w)
    /\ OneCardPerReader(w)
    /\ \A s \in SlotIds(w) : SlotOK(w, s)

(* What any of the operators may do to the slots and sessions of w: a card   *)
(* that leaves a slot takes the slot's sessions and login with it, and a slot*)
(* that is new has no login.                                                 *)
Kept(w, v, s) ==
    LET old == w.slots[s]
        new == v.slots[s]
        closed == \A h \in SessionsOf(w, s) : v.sessions[h] = NoSession
    IN  /\ new.reader = old.reader
        /\ new.login_user \in {old.login_user, "none"}
        /\ old.p11card # 0 /\ new.p11card # old.p11card =>
              closed /\ new.login_user = "none"

Follows(w, v) ==
    /\ SlotIds(w) \subseteq SlotIds(v)
    /\ \A h \in Listed(v) : v.sessions[h] = w.sessions[h]
    /\ \A s \in SlotIds(w) : Kept(w, v, s)
    /\ \A s \in SlotIds(v) \ SlotIds(w) : v.slots[s].login_user = "none"

-----------------------------------------------------------------------------
(* The shape of a world.                                                     *)

LEMMA SlotFacts ==
  ASSUME NEW w \in World
  PROVE  /\ Len(w.slots) \in Nat
         /\ SlotIds(w) = 1 .. Len(w.slots)
         /\ w.slots \in [1 .. Len(w.slots) -> Slot]
         /\ \A s \in SlotIds(w) : w.slots[s] \in Slot
BY DEF World, SlotIds

(* A record with the fields of a world and as many slots as another one.     *)
LEMMA WorldByFields ==
  ASSUME NEW w \in World, NEW v,
         v = [slots |-> v.slots, sessions |-> v.sessions, polled |-> v.polled,
              retry |-> v.retry],
         v.slots \in [SlotIds(w) -> Slot],
         v.sessions \in [Handles -> Session \cup {NoSession}],
         v.polled \in Views, v.retry \in 0 .. MaxRetry
  PROVE  /\ v \in World
         /\ Len(v.slots) = Len(w.slots)
         /\ SlotIds(v) = SlotIds(w)
<1>1. v.slots \in [1 .. Len(w.slots) -> Slot] /\ Len(w.slots) \in Nat
  BY SlotFacts
<1>2. v.slots \in Seq(Slot) /\ Len(v.slots) = Len(w.slots)
  BY <1>1
<1>3. DOMAIN v.slots = SlotIds(w)
  BY <1>1, SlotFacts
<1>4. v \in World
  BY <1>2 DEF World
<1>5. QED
  BY <1>2, <1>3, <1>4 DEF SlotIds

(* The worlds a field or two of which is replaced.                           *)
LEMMA WorldFields ==
  ASSUME NEW w \in World
  PROVE  /\ w = [slots |-> w.slots, sessions |-> w.sessions, polled |-> w.polled,
                 retry |-> w.retry]
         /\ w.slots \in Seq(Slot)
         /\ w.sessions \in [Handles -> Session \cup {NoSession}]
         /\ w.polled \in Views /\ w.retry \in 0 .. MaxRetry
BY DEF World

LEMMA FirstIsLeast ==
  ASSUME NEW w \in World, NEW r, SlotsOf(w, r) # {}
  PROVE  /\ FirstOf(SlotsOf(w, r)) \in SlotsOf(w, r)
         /\ \A s \in SlotsOf(w, r) : FirstOf(SlotsOf(w, r)) <= s
<1>1. SlotsOf(w, r) \in SUBSET Nat
  BY SlotFacts DEF SlotsOf
<1>2. \E s \in SlotsOf(w, r) : \A t \in SlotsOf(w, r) : s <= t
  BY <1>1, LeastNatural
<1>3. QED
  BY <1>2 DEF FirstOf

LEMMA SameWorldFollows ==
  ASSUME NEW w \in World
  PROVE  Follows(w, w)
BY SlotFacts DEF Follows, Kept, Slot

LEMMA FollowsIsTransitive ==
  ASSUME NEW u \in World, NEW v \in World, NEW w \in World,
         Follows(u, v), Follows(v, w)
  PROVE  Follows(u, w)
<1>1. ASSUME NEW s \in SlotIds(u) PROVE Kept(u, w, s)
  <2>1. Kept(u, v, s) /\ Kept(v, w, s)
    BY DEF Follows
  <2>2. \A h \in SessionsOf(u, s) :
           v.sessions[h] = NoSession \/ h \in SessionsOf(v, s)
    BY DEF Follows, SessionsOf, Listed
  <2>3. \A h \in Handles : v.sessions[h] = NoSession => w.sessions[h] = NoSession
    BY DEF Follows, Listed
  <2>4. SessionsOf(u, s) \subseteq Handles
    BY DEF SessionsOf, Listed
  <2>5. QED
    BY <2>1, <2>2, <2>3, <2>4 DEF Kept
<1>2. ASSUME NEW s \in SlotIds(w) \ SlotIds(u) PROVE w.slots[s].login_user = "none"
  <2>1. CASE s \in SlotIds(v)
    BY <1>2, <2>1 DEF Follows, Kept
  <2>2. CASE s \notin SlotIds(v)
    BY <1>2, <2>2 DEF Follows
  <2>3. QED
    BY <2>1, <2>2
<1>3. QED
  BY <1>1, <1>2 DEF Follows, Listed

-----------------------------------------------------------------------------
(* Closing sessions.                                                         *)

LEMMA ClosedSlot ==
  ASSUME NEW w, Sound(w), NEW s \in SlotIds(w)
  PROVE  Closed(w, s) = [w.slots[s] EXCEPT
            !.nsessions = 0, !.login_user = "none",
            !.logins = IF w.slots[s].login_user # "none" THEN <<>> ELSE @]
<1>1. w.slots[s] \in Slot /\ w.slots[s].nsessions = Cardinality(SessionsOf(w, s))
  BY SlotFacts DEF Sound, SlotOK
<1>2. w.slots[s].nsessions - Cardinality(SessionsOf(w, s)) = 0
  BY <1>1 DEF Slot
<1>3. QED
  BY <1>1, <1>2 DEF Closed, Slot

LEMMA LoginReplaced ==
  ASSUME NEW slot \in Slot, NEW n \in Int, NEW u \in Users \cup {"none"},
         NEW l \in Seq(Users)
  PROVE  [slot EXCEPT !.nsessions = n, !.login_user = u, !.logins = l] \in Slot
BY DEF Slot

LEMMA ClosedType ==
  ASSUME NEW w, Sound(w), NEW s \in SlotIds(w)
  PROVE  Closed(w, s) \in Slot
<1>1. w.slots[s] \in Slot
  BY SlotFacts DEF Sound
<1>2. 0 \in Int /\ "none" \in Users \cup {"none"} /\ <<>> \in Seq(Users)
  OBVIOUS
<1>3. (IF w.slots[s].login_user # "none" THEN <<>> ELSE w.slots[s].logins) \in Seq(Users)
  BY <1>1, <1>2 DEF Slot
<1> DEFINE l == IF w.slots[s].login_user # "none" THEN <<>> ELSE w.slots[s].logins
<1> HIDE DEF l
<1>4. [w.slots[s] EXCEPT !.nsessions = 0, !.login_user = "none", !.logins = l] \in Slot
  BY <1>1, <1>2, <1>3, LoginReplaced DEF l
<1>5. QED
  BY <1>4, ClosedSlot DEF l

LEMMA ClosedKeepsCard ==
  ASSUME NEW w, Sound(w), NEW s \in SlotIds(w)
  PROVE  Closed(w, s).p11card = w.slots[s].p11card
<1>1. w.slots[s] \in Slot
  BY SlotFacts DEF Sound
<1>2. QED
  BY <1>1 DEF Closed, Slot

LEMMA ClosedWorld ==
  ASSUME NEW w, Sound(w), NEW S
  PROVE  LET v == CloseAll(w, S)
         IN  /\ v \in World
             /\ Len(v.slots) = Len(w.slots) /\ SlotIds(v) = SlotIds(w)
             /\ v.polled = w.polled /\ v.retry = w.retry
             /\ \A s \in SlotIds(w) : v.slots[s] =
                  IF s \in S /\ SessionsOf(w, s) # {} THEN Closed(w, s) ELSE w.slots[s]
             /\ \A h \in Handles : v.sessions[h] =
                  IF h \in Listed(w) /\ w.sessions[h].slot \in S
                  THEN NoSession ELSE w.sessions[h]
<1> DEFINE f == [s \in SlotIds(w) |->
                  IF s \in S /\ SessionsOf(w, s) # {} THEN Closed(w, s) ELSE w.slots[s]]
           g == [h \in Handles |->
                  IF h \in Listed(w) /\ w.sessions[h].slot \in S
                  THEN NoSession ELSE w.sessions[h]]
<1>1. w \in World /\ \A s \in SlotIds(w) : w.slots[s] \in Slot
  BY SlotFacts DEF Sound
<1>2. f \in [SlotIds(w) -> Slot]
  BY <1>1, ClosedType
<1>3. g \in [Handles -> Session \cup {NoSession}]
  BY <1>1 DEF World
<1>4. CloseAll(w, S) = [w EXCEPT !.sessions = g, !.slots = f]
  BY Zenon DEF CloseAll
<1> DEFINE v == CloseAll(w, S)
<1> HIDE DEF f, g
<1>5. /\ v.slots = f /\ v.sessions = g
      /\ v.polled = w.polled /\ v.retry = w.retry
      /\ v = [slots |-> v.slots, sessions |-> v.sessions, polled |-> v.polled,
              retry |-> v.retry]
  BY <1>1, <1>4, WorldFields
<1> HIDE DEF v
<1>6. v \in World /\ Len(v.slots) = Len(w.slots) /\ SlotIds(v) = SlotIds(w)
  BY <1>1, <1>2, <1>3, <1>5, WorldFields, WorldByFields
<1>7. QED
  BY <1>5, <1>6 DEF f, g, v

LEMMA ClosedSessions ==
  ASSUME NEW w, Sound(w), NEW S
  PROVE  LET v == CloseAll(w, S)
         IN  /\ Listed(v) \subseteq Listed(w)
             /\ \A h \in Listed(v) : v.sessions[h] = w.sessions[h]
             /\ \A s \in SlotIds(w) : SessionsOf(v, s) = IF s \in S THEN {} ELSE SessionsOf(w, s)
<1> DEFINE v == CloseAll(w, S)
<1>1. \A h \in Handles : v.sessions[h] =
         IF h \in Listed(w) /\ w.sessions[h].slot \in S THEN NoSession ELSE w.sessions[h]
  BY ClosedWorld
<1> HIDE DEF v
<1>2. QED
  BY <1>1 DEF Listed, SessionsOf, v

LEMMA CloseAllSound ==
  ASSUME NEW w, Sound(w), NEW S
  PROVE  Sound(CloseAll(w, S)) /\ Follows(w, CloseAll(w, S))
<1> DEFINE v == CloseAll(w, S)
<1>1. /\ w \in World /\ SlotIds(v) = SlotIds(w) /\ v.polled = w.polled
      /\ \A s \in SlotIds(w) : v.slots[s] =
           IF s \in S /\ SessionsOf(w, s) # {} THEN Closed(w, s) ELSE w.slots[s]
      /\ \A s \in SlotIds(w) : SessionsOf(v, s) = IF s \in S THEN {} ELSE SessionsOf(w, s)
      /\ \A h \in Listed(v) : v.sessions[h] = w.sessions[h]
      /\ Listed(v) \subseteq Listed(w)
  BY ClosedWorld, ClosedSessions DEF Sound
<1>2. v \in World /\ Len(v.slots) <= MaxVirtualSlots
  BY ClosedWorld DEF Sound
<1> HIDE DEF v
<1>3. ASSUME NEW s \in SlotIds(w)
      PROVE  /\ v.slots[s].reader = w.slots[s].reader
             /\ v.slots[s].p11card = w.slots[s].p11card
             /\ v.slots[s].login_user \in {w.slots[s].login_user, "none"}
             /\ SlotOK(v, s)
  <2>1. w.slots[s] \in Slot /\ SlotOK(w, s)
    BY SlotFacts DEF Sound
  <2>2. CASE s \in S /\ SessionsOf(w, s) # {}
    <3>1. v.slots[s] = [w.slots[s] EXCEPT
             !.nsessions = 0, !.login_user = "none",
             !.logins = IF w.slots[s].login_user # "none" THEN <<>> ELSE @]
      <4>1. v.slots[s] = Closed(w, s)
        BY <1>1, <2>2
      <4>2. QED
        BY <4>1, ClosedSlot
    <3>2. Cardinality(SessionsOf(v, s)) = 0
      BY <1>1, <2>2, FS_EmptySet
    <3>3. QED
      BY <1>1, <2>1, <3>1, <3>2 DEF SlotOK, Slot
  <2>3. CASE ~(s \in S /\ SessionsOf(w, s) # {})
    <3>1. v.slots[s] = w.slots[s] /\ SessionsOf(v, s) = SessionsOf(w, s)
      BY <1>1, <2>3
    <3>2. QED
      BY <1>1, <2>1, <3>1 DEF SlotOK
  <2>4. QED
    BY <2>2, <2>3
<1>4. SessionsKnown(v)
  BY <1>1, FS_Subset DEF SessionsKnown, Sound
<1>5. RecordsAreOld(v) /\ OneCardPerReader(v)
  BY <1>1, <1>3 DEF Sound, RecordsAreOld, OneCardPerReader
<1>6. Sound(v)
  BY <1>1, <1>2, <1>3, <1>4, <1>5 DEF Sound
<1>7. Follows(w, v)
  BY <1>1, <1>3 DEF Follows, Kept
<1>8. QED
  BY <1>6, <1>7 DEF v

-----------------------------------------------------------------------------
(* Cards that go.                                                            *)

LEMMA TokenReplaced ==
  ASSUME NEW slot \in Slot, NEW p \in Counters, NEW b \in BOOLEAN,
         NEW e \in {"none", "inserted", "removed"},
         NEW u \in Users \cup {"none"}, NEW l \in Seq(Users)
  PROVE  [slot EXCEPT !.p11card = p, !.present = b, !.login_user = u,
                      !.logins = l, !.events = e] \in Slot
BY DEF Slot

LEMMA TokenRemovedType ==
  ASSUME NEW slot \in Slot
  PROVE  SlotTokenRemoved(slot) \in Slot
<1> DEFINE e == IF slot.present THEN "removed" ELSE slot.events
<1>1. /\ 0 \in Counters /\ FALSE \in BOOLEAN /\ "none" \in Users \cup {"none"}
      /\ <<>> \in Seq(Users) /\ e \in {"none", "inserted", "removed"}
  BY ReadersAssumption DEF Counters, Slot
<1> HIDE DEF e
<1>2. [slot EXCEPT !.p11card = 0, !.present = FALSE, !.login_user = "none",
                   !.logins = <<>>, !.events = e] \in Slot
  BY <1>1, TokenReplaced
<1>3. QED
  BY <1>2 DEF SlotTokenRemoved, e

LEMMA CardRemovedWorld ==
  ASSUME NEW w, Sound(w), NEW r
  PROVE  LET v == CardRemoved(w, r)
             c == CloseAll(w, SlotsOf(w, r))
         IN  /\ v \in World
             /\ Len(v.slots) = Len(w.slots) /\ SlotIds(v) = SlotIds(w)
             /\ v.polled = w.polled /\ v.retry = w.retry /\ v.sessions = c.sessions
             /\ \A s \in SlotIds(w) : v.slots[s] =
                  IF w.slots[s].reader = r THEN SlotTokenRemoved(c.slots[s]) ELSE c.slots[s]
<1> DEFINE c == CloseAll(w, SlotsOf(w, r))
           v == CardRemoved(w, r)
           f == [s \in SlotIds(w) |->
                  IF c.slots[s].reader = r THEN SlotTokenRemoved(c.slots[s]) ELSE c.slots[s]]
<1>1. /\ c \in World /\ SlotIds(c) = SlotIds(w) /\ Len(c.slots) = Len(w.slots)
      /\ c.polled = w.polled /\ c.retry = w.retry
  BY ClosedWorld
<1>2. \A s \in SlotIds(w) : c.slots[s].reader = w.slots[s].reader
  BY CloseAllSound DEF Follows, Kept
<1>3. v = [c EXCEPT !.slots = f]
  BY Zenon DEF CardRemoved
<1> HIDE DEF c
<1>4. f \in [SlotIds(c) -> Slot]
  BY <1>1, SlotFacts, TokenRemovedType
<1> HIDE DEF f
<1>5. /\ v.slots = f /\ v.sessions = c.sessions
      /\ v.polled = w.polled /\ v.retry = w.retry
      /\ v = [slots |-> v.slots, sessions |-> v.sessions, polled |-> v.polled,
              retry |-> v.retry]
  BY <1>1, <1>3, WorldFields
<1> HIDE DEF v
<1>6. v \in World /\ Len(v.slots) = Len(c.slots) /\ SlotIds(v) = SlotIds(c)
  BY <1>1, <1>4, <1>5, WorldFields, WorldByFields
<1>7. \A s \in SlotIds(w) : v.slots[s] =
        IF w.slots[s].reader = r THEN SlotTokenRemoved(c.slots[s]) ELSE c.slots[s]
  BY <1>2, <1>5 DEF f
<1>8. QED
  BY <1>1, <1>5, <1>6, <1>7 DEF c, v

LEMMA CardRemovedSound ==
  ASSUME NEW w, Sound(w), NEW r
  PROVE  Sound(CardRemoved(w, r)) /\ Follows(w, CardRemoved(w, r))
<1> DEFINE c == CloseAll(w, SlotsOf(w, r))
           v == CardRemoved(w, r)
<1>1. /\ v \in World /\ Len(v.slots) = Len(w.slots) /\ SlotIds(v) = SlotIds(w)
      /\ v.polled = w.polled /\ v.sessions = c.sessions
      /\ \A s \in SlotIds(w) : v.slots[s] =
           IF w.slots[s].reader = r THEN SlotTokenRemoved(c.slots[s]) ELSE c.slots[s]
  BY CardRemovedWorld
<1>2. Sound(c) /\ Follows(w, c) /\ w \in World /\ SlotIds(c) = SlotIds(w)
  BY CloseAllSound, ClosedWorld DEF Sound
<1>3. \A s \in SlotIds(w) :
         SessionsOf(c, s) = IF s \in SlotsOf(w, r) THEN {} ELSE SessionsOf(w, s)
  BY ClosedSessions
<1>4. \A s \in SlotIds(w) : w.slots[s].reader # r => c.slots[s] = w.slots[s]
  BY ClosedWorld DEF SlotsOf
<1>5. c.polled = w.polled
  BY ClosedWorld
<1> HIDE DEF c, v
<1>6. Listed(v) = Listed(c) /\ \A s : SessionsOf(v, s) = SessionsOf(c, s)
  BY <1>1 DEF Listed, SessionsOf
<1>7. ASSUME NEW s \in SlotIds(w)
      PROVE  /\ v.slots[s].reader = w.slots[s].reader
             /\ v.slots[s].p11card =
                  IF w.slots[s].reader = r THEN 0 ELSE w.slots[s].p11card
             /\ SlotOK(v, s)
             /\ Kept(w, v, s)
  <2>1. c.slots[s] \in Slot /\ SlotOK(c, s) /\ Kept(w, c, s)
    BY <1>2, SlotFacts DEF Sound, Follows
  <2>2. CASE w.slots[s].reader = r
    <3>1. v.slots[s] = SlotTokenRemoved(c.slots[s])
      BY <1>1, <2>2
    <3>2. SessionsOf(v, s) = {} /\ SessionsOf(c, s) = {}
      BY <1>3, <1>6, <2>2 DEF SlotsOf
    <3>3. c.slots[s].nsessions = 0 /\ Cardinality(SessionsOf(v, s)) = 0
      BY <2>1, <3>2, FS_EmptySet DEF SlotOK
    <3>4. \A h \in SessionsOf(w, s) : v.sessions[h] = NoSession
      BY <1>1, <1>2, <3>2 DEF Follows, SessionsOf, Listed
    <3>5. SlotOK(v, s)
      BY <2>1, <3>1, <3>2, <3>3 DEF SlotOK, SlotTokenRemoved, Slot
    <3>6. QED
      BY <2>1, <2>2, <3>1, <3>4, <3>5 DEF Kept, SlotTokenRemoved, Slot
  <2>3. CASE w.slots[s].reader # r
    <3>1. v.slots[s] = c.slots[s]
      BY <1>1, <2>3
    <3>2. v.slots[s] = w.slots[s]
      BY <1>4, <2>3, <3>1
    <3>3. SlotOK(v, s)
      BY <1>1, <1>6, <1>5, <2>1, <3>1 DEF SlotOK
    <3>4. QED
      BY <2>3, <3>2, <3>3 DEF Kept
  <2>4. QED
    BY <2>2, <2>3
<1>8. SessionsKnown(v)
  BY <1>1, <1>2, <1>6 DEF Sound, SessionsKnown
<1>9. RecordsAreOld(v)
  BY <1>1 DEF Sound, RecordsAreOld
<1>10. OneCardPerReader(v)
  BY <1>1, <1>7 DEF Sound, OneCardPerReader
<1>11. Sound(v)
  BY <1>1, <1>7, <1>8, <1>9, <1>10 DEF Sound
<1>12. Follows(w, v)
  BY <1>1, <1>2, <1>6, <1>7 DEF Follows
<1>13. QED
  BY <1>11, <1>12 DEF v

-----------------------------------------------------------------------------
(* Steps that leave every slot's session, login and card as they are.        *)

(* w and v differ in what the driver and the listeners last saw, the events  *)
(* and presence reported, and the retries.                                   *)
SameTokens(w, v) ==
    /\ Len(v.slots) = Len(w.slots) /\ SlotIds(v) = SlotIds(w)
    /\ v.sessions = w.sessions
    /\ \A r \in Readers : w.polled[r] <= v.polled[r] /\ v.polled[r] <= counter[r]
    /\ \A s \in SlotIds(w) :
        /\ v.slots[s].reader = w.slots[s].reader
        /\ v.slots[s].p11card = w.slots[s].p11card
        /\ v.slots[s].login_user = w.slots[s].login_user
        /\ v.slots[s].logins = w.slots[s].logins
        /\ v.slots[s].nsessions = w.slots[s].nsessions

LEMMA SameTokensSound ==
  ASSUME NEW w, Sound(w), NEW v \in World, SameTokens(w, v), counter \in Views
  PROVE  Sound(v) /\ Follows(w, v)
<1>1. Listed(v) = Listed(w) /\ \A s : SessionsOf(v, s) = SessionsOf(w, s)
  BY DEF SameTokens, Listed, SessionsOf
<1>2. SessionsKnown(v) /\ RecordsAreOld(v) /\ OneCardPerReader(v)
  BY <1>1 DEF Sound, SameTokens, SessionsKnown, RecordsAreOld, OneCardPerReader
<1>3. ASSUME NEW s \in SlotIds(w) PROVE SlotOK(v, s)
  <2>1. SlotOK(w, s) /\ w.slots[s] \in Slot /\ w \in World
    BY SlotFacts DEF Sound
  <2>2. w.slots[s].reader \in Readers /\ w.slots[s].p11card \in Nat
    BY <2>1, ReadersAssumption DEF Slot, Counters
  <2>3. /\ w.polled[w.slots[s].reader] \in Nat /\ v.polled[w.slots[s].reader] \in Nat
        /\ w.polled[w.slots[s].reader] <= v.polled[w.slots[s].reader]
    BY <2>1, <2>2, ReadersAssumption DEF World, Views, Counters, SameTokens
  <2>4. QED
    BY <1>1, <2>1, <2>2, <2>3 DEF SameTokens, SlotOK
<1>4. QED
  BY <1>1, <1>2, <1>3 DEF Sound, SameTokens, Follows, Kept

LEMMA RefreshedSound ==
  ASSUME NEW w, Sound(w), NEW r \in Readers, counter \in Views
  PROVE  /\ Sound(Refreshed(w, r)) /\ Follows(w, Refreshed(w, r))
         /\ Refreshed(w, r).slots = w.slots
         /\ Refreshed(w, r).polled[r] = counter[r]
<1> DEFINE v == Refreshed(w, r)
<1>1. w \in World /\ RecordsAreOld(w)
  BY DEF Sound
<1>2. /\ v.slots = w.slots /\ v.sessions = w.sessions /\ v.retry = w.retry
      /\ v.polled = [w.polled EXCEPT ![r] = counter[r]]
      /\ v = [slots |-> v.slots, sessions |-> v.sessions, polled |-> v.polled,
              retry |-> v.retry]
  BY <1>1, WorldFields DEF Refreshed
<1> HIDE DEF v
<1>3. v.polled \in Views /\ counter[r] \in Nat /\ \A q \in Readers : w.polled[q] \in Nat
  BY <1>1, <1>2, ReadersAssumption DEF World, Views, Counters
<1>4. w.slots \in [SlotIds(w) -> Slot]
  BY <1>1, SlotFacts
<1>5. v \in World /\ SlotIds(v) = SlotIds(w)
  BY <1>1, <1>2, <1>3, <1>4, WorldFields, WorldByFields
<1>6. \A q \in Readers : w.polled[q] <= v.polled[q] /\ v.polled[q] <= counter[q]
  BY <1>1, <1>2, <1>3 DEF RecordsAreOld, World, Views
<1>7. SameTokens(w, v)
  BY <1>2, <1>5, <1>6 DEF SameTokens
<1>8. v.polled[r] = counter[r]
  BY <1>1, <1>2 DEF World, Views
<1>9. QED
  BY <1>2, <1>5, <1>7, <1>8, SameTokensSound DEF v

LEMMA PollType ==
  ASSUME NEW view \in Views, counter \in Views
  PROVE  Poll(view).view \in Views
<1>1. CASE Moved(view) = {}
  BY <1>1 DEF Poll
<1>2. CASE Moved(view) # {}
  <2> DEFINE first == CHOOSE r \in Moved(view) : \A q \in Moved(view) : r <= q
  <2>1. Poll(view).view = [r \in Readers |-> IF r <= first THEN counter[r] ELSE view[r]]
    BY <1>2 DEF Poll
  <2> HIDE DEF first
  <2>2. QED
    BY <2>1 DEF Views
<1>3. QED
  BY <1>1, <1>2

(* The listener of slot s looks.                                             *)
LEMMA LookedSound ==
  ASSUME NEW w, Sound(w), NEW s \in SlotIds(w), NEW view \in Views, counter \in Views
  PROVE  /\ Sound([w EXCEPT !.slots[s].reader_events = view])
         /\ Follows(w, [w EXCEPT !.slots[s].reader_events = view])
         /\ SlotIds([w EXCEPT !.slots[s].reader_events = view]) = SlotIds(w)
<1> DEFINE slot == [w.slots[s] EXCEPT !.reader_events = view]
           f == [w.slots EXCEPT ![s] = slot]
           v == [w EXCEPT !.slots[s].reader_events = view]
<1>1. w \in World /\ RecordsAreOld(w)
  BY DEF Sound
<1>2. /\ slot \in Slot
      /\ slot.reader = w.slots[s].reader /\ slot.p11card = w.slots[s].p11card
      /\ slot.login_user = w.slots[s].login_user /\ slot.logins = w.slots[s].logins
      /\ slot.nsessions = w.slots[s].nsessions
  <2>1. w.slots[s] \in Slot
    BY <1>1, SlotFacts
  <2>2. QED
    BY <2>1 DEF Slot
<1> HIDE DEF slot
<1>3. /\ f \in [SlotIds(w) -> Slot]
      /\ \A t \in SlotIds(w) : f[t] = IF t = s THEN slot ELSE w.slots[t]
  BY <1>1, <1>2, SlotFacts
<1>4. v = [w EXCEPT !.slots = f]
  BY <1>1, WorldFields DEF slot
<1> HIDE DEF f, v
<1>5. /\ v.slots = f /\ v.sessions = w.sessions
      /\ v.polled = w.polled /\ v.retry = w.retry
      /\ v = [slots |-> v.slots, sessions |-> v.sessions, polled |-> v.polled,
              retry |-> v.retry]
  BY <1>1, <1>4, WorldFields
<1>6. v \in World /\ Len(v.slots) = Len(w.slots) /\ SlotIds(v) = SlotIds(w)
  BY <1>1, <1>3, <1>5, WorldFields, WorldByFields
<1>7. \A r \in Readers : w.polled[r] <= v.polled[r] /\ v.polled[r] <= counter[r]
  BY <1>1, <1>5, ReadersAssumption DEF RecordsAreOld, World, Views, Counters
<1>8. SameTokens(w, v)
  BY <1>2, <1>3, <1>5, <1>6, <1>7 DEF SameTokens
<1>9. QED
  BY <1>6, <1>8, SameTokensSound DEF v

LEMMA RetrySound ==
  ASSUME NEW w, Sound(w), NEW n \in 0 .. MaxRetry, counter \in Views
  PROVE  /\ Sound([w EXCEPT !.retry = n]) /\ Follows(w, [w EXCEPT !.retry = n])
         /\ [w EXCEPT !.retry = n].slots = w.slots
         /\ [w EXCEPT !.retry = n].polled = w.polled
<1> DEFINE v == [w EXCEPT !.retry = n]
<1>1. w \in World /\ RecordsAreOld(w)
  BY DEF Sound
<1>2. /\ v.slots = w.slots /\ v.sessions = w.sessions
      /\ v.polled = w.polled /\ v.retry = n
      /\ v = [slots |-> v.slots, sessions |-> v.sessions, polled |-> v.polled,
              retry |-> v.retry]
  BY <1>1, WorldFields
<1> HIDE DEF v
<1>3. w.slots \in [SlotIds(w) -> Slot]
  BY <1>1, SlotFacts
<1>4. v \in World /\ SlotIds(v) = SlotIds(w)
  BY <1>1, <1>2, <1>3, WorldFields, WorldByFields
<1>5. \A r \in Readers : w.polled[r] <= v.polled[r] /\ v.polled[r] <= counter[r]
  BY <1>1, <1>2, ReadersAssumption DEF RecordsAreOld, World, Views, Counters
<1>6. SameTokens(w, v)
  BY <1>2, <1>4, <1>5 DEF SameTokens
<1>7. QED
  BY <1>2, <1>4, <1>6, SameTokensSound DEF v

-----------------------------------------------------------------------------
(* Cards that come.                                                          *)

LEMMA TokenPut ==
  ASSUME NEW slot \in Slot, NEW p \in Counters, NEW b \in BOOLEAN,
         NEW e \in {"none", "inserted", "removed"}
  PROVE  /\ [slot EXCEPT !.p11card = p, !.present = b, !.events = e] \in Slot
         /\ [slot EXCEPT !.p11card = p, !.present = b, !.events = e].p11card = p
BY DEF Slot

(* A reader whose first slot has no card has none in any slot.               *)
LEMMA NoHandle ==
  ASSUME NEW w, Sound(w), NEW r, Handle(w, r) = 0
  PROVE  \A s \in SlotsOf(w, r) : w.slots[s].p11card = 0
<1> SUFFICES ASSUME NEW s \in SlotsOf(w, r) PROVE w.slots[s].p11card = 0
  OBVIOUS
<1> DEFINE first == FirstOf(SlotsOf(w, r))
<1>1. w.slots[first].p11card = 0 /\ first \in SlotsOf(w, r) /\ first <= s
  BY FirstIsLeast DEF Handle, Sound
<1> HIDE DEF first
<1>2. QED
  BY <1>1 DEF SlotsOf, Sound, OneCardPerReader

(* The slots that get a token come before the free ones that get none.       *)
LEMMA TokenSlotsComeFirst ==
  ASSUME NEW w \in World, NEW r \in Readers, Pins[inserted[r]] \in Nat,
         NEW s \in TokenSlots(w, r), NEW t \in FreeSlots(w, r), t <= s
  PROVE  t \in TokenSlots(w, r)
<1> DEFINE Before(u) == {x \in FreeSlots(w, r) : x < u}
<1>1. /\ FreeSlots(w, r) \subseteq 1 .. Len(w.slots) /\ Len(w.slots) \in Nat
      /\ s \in FreeSlots(w, r)
  BY SlotFacts DEF FreeSlots, SlotsOf, TokenSlots
<1>2. IsFiniteSet(Before(s)) /\ Before(t) \subseteq Before(s)
  <2>1. IsFiniteSet(1 .. Len(w.slots))
    BY <1>1, FS_Interval
  <2>2. QED
    BY <1>1, <2>1, FS_Subset
<1>3. /\ Cardinality(Before(t)) <= Cardinality(Before(s))
      /\ Cardinality(Before(t)) \in Nat /\ Cardinality(Before(s)) \in Nat
  BY <1>2, FS_Subset, FS_CardinalityType
<1>4. Cardinality(Before(s)) < Pins[inserted[r]]
  BY DEF TokenSlots
<1>5. QED
  BY <1>3, <1>4 DEF TokenSlots

LEMMA CreateTokensWorld ==
  ASSUME NEW w, Sound(w), NEW r \in Readers, counter \in Views
  PROVE  LET v == CreateTokens(w, r)
         IN  /\ v \in World
             /\ Len(v.slots) = Len(w.slots) /\ SlotIds(v) = SlotIds(w)
             /\ v.polled = w.polled /\ v.retry = w.retry /\ v.sessions = w.sessions
             /\ \A s \in SlotIds(w) :
                  /\ v.slots[s].reader = w.slots[s].reader
                  /\ v.slots[s].login_user = w.slots[s].login_user
                  /\ v.slots[s].logins = w.slots[s].logins
                  /\ v.slots[s].nsessions = w.slots[s].nsessions
                  /\ v.slots[s].p11card =
                       IF s \in TokenSlots(w, r) THEN counter[r] ELSE w.slots[s].p11card
<1> DEFINE New(s) == [w.slots[s] EXCEPT !.p11card = counter[r], !.present = TRUE,
                                        !.events = "inserted"]
           f == [s \in SlotIds(w) |-> IF s \in TokenSlots(w, r) THEN New(s) ELSE w.slots[s]]
           v == CreateTokens(w, r)
<1>1. w \in World /\ \A s \in SlotIds(w) : w.slots[s] \in Slot
  BY SlotFacts DEF Sound
<1>2. counter[r] \in Counters /\ TRUE \in BOOLEAN /\ "inserted" \in {"none", "inserted", "removed"}
  BY DEF Views
<1>3. \A s \in SlotIds(w) : New(s) \in Slot
  BY <1>1, <1>2, TokenPut
<1>4. \A s \in SlotIds(w) :
        /\ New(s).reader = w.slots[s].reader
        /\ New(s).login_user = w.slots[s].login_user
        /\ New(s).logins = w.slots[s].logins
        /\ New(s).nsessions = w.slots[s].nsessions
        /\ New(s).p11card = counter[r]
  BY <1>1 DEF Slot
<1>5. v = [w EXCEPT !.slots = f]
  BY Zenon DEF CreateTokens
<1> HIDE DEF New
<1>6. f \in [SlotIds(w) -> Slot]
  BY <1>1, <1>3
<1> HIDE DEF f, v
<1>7. /\ v.slots = f /\ v.sessions = w.sessions
      /\ v.polled = w.polled /\ v.retry = w.retry
      /\ v = [slots |-> v.slots, sessions |-> v.sessions, polled |-> v.polled,
              retry |-> v.retry]
  BY <1>1, <1>5, WorldFields
<1>8. v \in World /\ Len(v.slots) = Len(w.slots) /\ SlotIds(v) = SlotIds(w)
  BY <1>1, <1>6, <1>7, WorldFields, WorldByFields
<1>9. QED
  BY <1>4, <1>7, <1>8 DEF f, v

LEMMA CreateTokensSound ==
  ASSUME NEW w, Sound(w), NEW r \in Readers, ReadersTypeOK,
         Recognised(r), Present(counter[r]), w.polled[r] = counter[r], Handle(w, r) = 0
  PROVE  Sound(CreateTokens(w, r)) /\ Follows(w, CreateTokens(w, r))
<1> DEFINE v == CreateTokens(w, r)
<1>1. /\ v \in World
      /\ Len(v.slots) = Len(w.slots) /\ SlotIds(v) = SlotIds(w)
      /\ v.polled = w.polled /\ v.sessions = w.sessions
      /\ \A s \in SlotIds(w) :
           /\ v.slots[s].reader = w.slots[s].reader
           /\ v.slots[s].login_user = w.slots[s].login_user
           /\ v.slots[s].logins = w.slots[s].logins
           /\ v.slots[s].nsessions = w.slots[s].nsessions
           /\ v.slots[s].p11card =
                IF s \in TokenSlots(w, r) THEN counter[r] ELSE w.slots[s].p11card
  BY CreateTokensWorld DEF ReadersTypeOK
<1> HIDE DEF v
<1>2. /\ w \in World /\ counter[r] \in Nat /\ counter[r] # 0
      /\ Pins[inserted[r]] \in Nat
  BY ReadersAssumption, SlotsAssumption
     DEF Sound, ReadersTypeOK, Recognised, Views, Counters, Present
<1>3. Listed(v) = Listed(w) /\ \A s : SessionsOf(v, s) = SessionsOf(w, s)
  BY <1>1 DEF Listed, SessionsOf
<1>4. SessionsKnown(v) /\ RecordsAreOld(v)
  BY <1>1, <1>3 DEF Sound, SessionsKnown, RecordsAreOld
<1>5. \A s \in SlotIds(w) : w.slots[s].reader = r => w.slots[s].p11card = 0
  BY NoHandle DEF SlotsOf
<1>6. TokenSlots(w, r) \subseteq FreeSlots(w, r)
  BY DEF TokenSlots
<1>7. OneCardPerReader(v)
  <2> SUFFICES ASSUME NEW s \in SlotIds(w), NEW t \in SlotIds(w), t <= s,
                      w.slots[s].reader = w.slots[t].reader,
                      v.slots[s].p11card # 0
               PROVE  v.slots[t].p11card = v.slots[s].p11card
    BY <1>1 DEF OneCardPerReader
  <2>1. CASE s \in TokenSlots(w, r)
    <3>1. t \in FreeSlots(w, r)
      BY <1>5, <1>6, <2>1 DEF FreeSlots, SlotsOf
    <3>2. t \in TokenSlots(w, r)
      BY <1>2, <2>1, <3>1, TokenSlotsComeFirst
    <3>3. QED
      BY <1>1, <2>1, <3>2
  <2>2. CASE s \notin TokenSlots(w, r)
    <3>1. w.slots[s].reader # r
      BY <1>1, <1>5, <2>2
    <3>2. t \notin TokenSlots(w, r)
      BY <1>6, <3>1 DEF FreeSlots, SlotsOf
    <3>3. QED
      BY <1>1, <2>2, <3>2 DEF Sound, OneCardPerReader
  <2>3. QED
    BY <2>1, <2>2
<1>8. ASSUME NEW s \in SlotIds(w) PROVE SlotOK(v, s) /\ Kept(w, v, s)
  <2>1. SlotOK(w, s)
    BY DEF Sound
  <2>2. CASE s \in TokenSlots(w, r)
    <3>1. w.slots[s].p11card = 0 /\ w.slots[s].reader = r
      BY <1>6, <2>2 DEF FreeSlots, SlotsOf
    <3>2. QED
      BY <1>1, <1>2, <1>3, <2>1, <2>2, <3>1 DEF SlotOK, Kept
  <2>3. CASE s \notin TokenSlots(w, r)
    BY <1>1, <1>3, <2>1, <2>3 DEF SlotOK, Kept
  <2>4. QED
    BY <2>2, <2>3
<1>9. Sound(v)
  BY <1>1, <1>4, <1>7, <1>8 DEF Sound
<1>10. Follows(w, v)
  BY <1>1, <1>3, <1>8 DEF Follows
<1>11. QED
  BY <1>9, <1>10 DEF v

LEMMA NewSlotType ==
  ASSUME NEW r \in Readers, NEW polled \in Views, counter \in Views
  PROVE  NewSlot(r, polled) \in Slot
<1> DEFINE view == Poll(polled).view
<1>1. view \in Views /\ 0 \in Counters /\ <<>> \in Seq(Users)
  BY PollType, ReadersAssumption DEF Counters
<1> HIDE DEF view
<1>2. [reader |-> r, p11card |-> 0, present |-> FALSE, events |-> "none",
       login_user |-> "none", logins |-> <<>>, nsessions |-> 0,
       reader_events |-> view] \in Slot
  BY <1>1 DEF Slot
<1>3. QED
  BY <1>2 DEF NewSlot, view

LEMMA CreateSlotsWorld ==
  ASSUME NEW w, Sound(w), NEW r \in Readers, counter \in Views
  PROVE  LET v == CreateSlots(w, r)
         IN  /\ v \in World
             /\ Len(v.slots) <= MaxVirtualSlots
             /\ SlotIds(w) \subseteq SlotIds(v)
             /\ v.polled = w.polled /\ v.retry = w.retry /\ v.sessions = w.sessions
             /\ \A s \in SlotIds(w) : v.slots[s] = w.slots[s]
             /\ \A s \in SlotIds(v) \ SlotIds(w) :
                  v.slots[s] = NewSlot(r, w.polled) /\ \A t \in SlotIds(w) : t <= s
<1> DEFINE room == MaxVirtualSlots - Len(w.slots)
           n == IF room < SlotsPerCard THEN room ELSE SlotsPerCard
           new == NewSlot(r, w.polled)
           added == [i \in 1 .. n |-> new]
           slots == w.slots \o added
           v == CreateSlots(w, r)
<1>1. w \in World /\ w.polled \in Views /\ w.slots \in Seq(Slot)
  BY WorldFields DEF Sound
<1>2. room \in Nat /\ n \in Nat /\ n <= room /\ Len(w.slots) + n <= MaxVirtualSlots
  <2>1. Len(w.slots) \in Nat /\ Len(w.slots) <= MaxVirtualSlots
    BY <1>1, SlotFacts DEF Sound
  <2>2. MaxVirtualSlots \in Nat /\ SlotsPerCard \in Nat
    BY SlotsAssumption
  <2>3. room \in Nat /\ Len(w.slots) + room = MaxVirtualSlots
    BY <2>1, <2>2
  <2> HIDE DEF room
  <2>4. n \in Nat /\ n <= room
    BY <2>2, <2>3
  <2> HIDE DEF n
  <2>5. QED
    BY <2>1, <2>2, <2>3, <2>4
<1>3. new \in Slot
  BY <1>1, NewSlotType
<1>4. v = [w EXCEPT !.slots = slots]
  BY Zenon DEF CreateSlots
<1> HIDE DEF n, new
<1>5. added \in Seq(Slot) /\ Len(added) = n
  BY <1>2, <1>3
<1> HIDE DEF added
<1>6. /\ slots \in Seq(Slot)
      /\ Len(slots) = Len(w.slots) + n
      /\ \A s \in 1 .. Len(w.slots) : slots[s] = w.slots[s]
      /\ \A s \in Len(w.slots) + 1 .. Len(w.slots) + n :
           slots[s] = added[s - Len(w.slots)]
  BY <1>1, <1>2, <1>5
<1> HIDE DEF slots, v
<1>7. /\ v.slots = slots /\ v.sessions = w.sessions
      /\ v.polled = w.polled /\ v.retry = w.retry
      /\ v = [slots |-> v.slots, sessions |-> v.sessions, polled |-> v.polled,
              retry |-> v.retry]
  BY <1>1, <1>4, WorldFields
<1>8. v \in World
  <2>1. v.sessions \in [Handles -> Session \cup {NoSession}]
        /\ v.polled \in Views /\ v.retry \in 0 .. MaxRetry
    BY <1>1, <1>7, WorldFields
  <2>2. QED
    BY <1>6, <1>7, <2>1 DEF World
<1>9. /\ SlotIds(w) = 1 .. Len(w.slots) /\ SlotIds(v) = 1 .. Len(w.slots) + n
      /\ Len(w.slots) \in Nat
  BY <1>1, <1>6, <1>7, <1>8, SlotFacts
<1>10. \A s \in SlotIds(v) \ SlotIds(w) : v.slots[s] = new
  <2> SUFFICES ASSUME NEW s \in SlotIds(v) \ SlotIds(w) PROVE v.slots[s] = new
    OBVIOUS
  <2>1. s \in Len(w.slots) + 1 .. Len(w.slots) + n /\ s - Len(w.slots) \in 1 .. n
    BY <1>2, <1>9
  <2>2. added[s - Len(w.slots)] = new
    BY <2>1 DEF added
  <2>3. QED
    BY <1>6, <1>7, <2>1, <2>2
<1>11. \A s \in SlotIds(w) : v.slots[s] = w.slots[s]
  BY <1>6, <1>7, <1>9
<1>12. /\ Len(v.slots) <= MaxVirtualSlots
       /\ SlotIds(w) \subseteq SlotIds(v)
       /\ \A s \in SlotIds(v) \ SlotIds(w) : \A t \in SlotIds(w) : t <= s
  BY <1>2, <1>6, <1>7, <1>9
<1>13. QED
  BY <1>7, <1>8, <1>10, <1>11, <1>12 DEF v, new

LEMMA CreateSlotsSound ==
  ASSUME NEW w, Sound(w), NEW r \in Readers, counter \in Views
  PROVE  /\ Sound(CreateSlots(w, r)) /\ Follows(w, CreateSlots(w, r))
         /\ CreateSlots(w, r).polled = w.polled
         /\ SlotsOf(w, r) = {} => Handle(CreateSlots(w, r), r) = 0
<1> DEFINE v == CreateSlots(w, r)
           new == NewSlot(r, w.polled)
<1>1. /\ v \in World
      /\ Len(v.slots) <= MaxVirtualSlots
      /\ SlotIds(w) \subseteq SlotIds(v)
      /\ v.polled = w.polled /\ v.sessions = w.sessions
      /\ \A s \in SlotIds(w) : v.slots[s] = w.slots[s]
      /\ \A s \in SlotIds(v) \ SlotIds(w) :
           v.slots[s] = new /\ \A t \in SlotIds(w) : t <= s
  BY CreateSlotsWorld
<1>2. /\ new.p11card = 0 /\ new.login_user = "none" /\ new.logins = <<>>
      /\ new.nsessions = 0
  BY DEF NewSlot
<1> HIDE DEF v, new
<1>3. Listed(v) = Listed(w) /\ \A s : SessionsOf(v, s) = SessionsOf(w, s)
  BY <1>1 DEF Listed, SessionsOf
<1>4. SessionsKnown(v) /\ RecordsAreOld(v)
  BY <1>1, <1>3 DEF Sound, SessionsKnown, RecordsAreOld
<1>5. /\ w \in World /\ SlotIds(w) = 1 .. Len(w.slots) /\ Len(w.slots) \in Nat
      /\ SlotIds(v) = 1 .. Len(v.slots) /\ Len(v.slots) \in Nat
  BY <1>1, SlotFacts DEF Sound
<1>6. OneCardPerReader(v)
  <2> SUFFICES ASSUME NEW s \in SlotIds(v), NEW t \in SlotIds(v), t <= s,
                      v.slots[s].reader = v.slots[t].reader,
                      v.slots[s].p11card # 0
               PROVE  v.slots[t].p11card = v.slots[s].p11card
    BY DEF OneCardPerReader
  <2>1. s \in SlotIds(w)
    BY <1>1, <1>2
  <2>2. t \in SlotIds(w)
    BY <1>5, <2>1
  <2>3. QED
    BY <1>1, <2>1, <2>2 DEF Sound, OneCardPerReader
<1>7. ASSUME NEW s \in SlotIds(v) PROVE SlotOK(v, s)
  <2>1. CASE s \in SlotIds(w)
    BY <1>1, <1>3, <2>1 DEF Sound, SlotOK
  <2>2. CASE s \notin SlotIds(w)
    <3>1. SessionsOf(v, s) = {}
      BY <1>3, <2>2 DEF SessionsOf, Sound, SessionsKnown
    <3>2. QED
      BY <1>1, <1>2, <2>2, <3>1, FS_EmptySet DEF SlotOK
  <2>3. QED
    BY <2>1, <2>2
<1>8. Sound(v)
  BY <1>1, <1>4, <1>6, <1>7 DEF Sound
<1>9. Follows(w, v)
  <2>1. \A s \in SlotIds(w) : Kept(w, v, s)
    BY <1>1 DEF Kept
  <2>2. \A s \in SlotIds(v) \ SlotIds(w) : v.slots[s].login_user = "none"
    BY <1>1, <1>2
  <2>3. QED
    BY <1>1, <1>3, <2>1, <2>2 DEF Follows
<1>10. ASSUME SlotsOf(w, r) = {}, SlotsOf(v, r) # {} PROVE Handle(v, r) = 0
  <2> DEFINE first == FirstOf(SlotsOf(v, r))
  <2>1. first \in SlotsOf(v, r)
    BY <1>1, <1>10, FirstIsLeast
  <2> HIDE DEF first
  <2>2. first \in SlotIds(v) \ SlotIds(w)
    BY <1>1, <1>10, <2>1 DEF SlotsOf
  <2>3. v.slots[first].p11card = 0
    BY <1>1, <1>2, <2>2
  <2>4. QED
    BY <2>3 DEF Handle, first
<1>11. SlotsOf(w, r) = {} => Handle(v, r) = 0
  BY <1>10 DEF Handle
<1>12. QED
  BY <1>1, <1>8, <1>9, <1>11 DEF v

-----------------------------------------------------------------------------
(* Detection.                                                                *)

LEMMA ConnectSound ==
  ASSUME NEW w, Sound(w), NEW r \in Readers, ReadersTypeOK,
         Present(counter[r]), w.polled[r] = counter[r]
  PROVE  Sound(Connect(w, r).w) /\ Follows(w, Connect(w, r).w)
<1>1. CASE Recognised(r) /\ Handle(w, r) = 0
  <2>1. Connect(w, r).w = CreateTokens(w, r)
    BY <1>1 DEF Connect
  <2>2. QED
    BY <1>1, <2>1, CreateTokensSound
<1>2. CASE ~(Recognised(r) /\ Handle(w, r) = 0)
  <2>1. Connect(w, r).w = w
    BY <1>2 DEF Connect
  <2>2. QED
    BY <2>1, SameWorldFollows DEF Sound
<1>3. QED
  BY <1>1, <1>2

LEMMA DetectedSound ==
  ASSUME NEW w, Sound(w), NEW r \in Readers, ReadersTypeOK,
         w.polled[r] = counter[r], NEW noChange \in BOOLEAN, NEW changed \in BOOLEAN
  PROVE  /\ Sound(Detected(w, r, noChange, changed).w)
         /\ Follows(w, Detected(w, r, noChange, changed).w)
<1> DEFINE d == Detected(w, r, noChange, changed)
           gone == CardRemoved(w, r)
<1>1. /\ Sound(gone) /\ Follows(w, gone) /\ gone.polled = w.polled
      /\ gone.retry = w.retry
  BY CardRemovedSound, CardRemovedWorld
<1>2. counter \in Views /\ w \in World /\ gone \in World /\ w.retry \in 0 .. MaxRetry
  BY <1>1, WorldFields DEF ReadersTypeOK, Sound
<1> HIDE DEF gone
<1>3. CASE ~Present(counter[r])
  <2>1. d.w = gone
    BY <1>3 DEF Detected, gone
  <2>2. QED
    BY <1>1, <2>1
<1>4. CASE Present(counter[r]) /\ noChange
  <2>1. d.w = w
    BY <1>4 DEF Detected
  <2>2. QED
    BY <1>2, <2>1, SameWorldFollows
<1>5. CASE Present(counter[r]) /\ ~noChange /\ ~changed
  <2>1. d = Connect(w, r)
    BY <1>5 DEF Detected
  <2>2. QED
    BY <1>5, <2>1, ConnectSound
<1>6. CASE Present(counter[r]) /\ ~noChange /\ changed /\ w.retry = 0
  <2> DEFINE v == [gone EXCEPT !.retry = MaxRetry]
  <2>1. d.w = v
    BY <1>6 DEF Detected, gone
  <2>2. MaxRetry \in 0 .. MaxRetry
    BY SlotsAssumption
  <2>3. Sound(v) /\ Follows(gone, v)
    BY <1>1, <1>2, <2>2, RetrySound
  <2>4. Follows(w, v)
    <3>1. v \in World
      BY <2>3 DEF Sound
    <3>2. QED
      BY <1>1, <1>2, <2>3, <3>1, FollowsIsTransitive
  <2>5. QED
    BY <2>1, <2>3, <2>4
<1>7. CASE Present(counter[r]) /\ ~noChange /\ changed /\ w.retry # 0
  <2> DEFINE v == [gone EXCEPT !.retry = w.retry - 1]
  <2>1. d = Connect(v, r)
    BY <1>1, <1>7 DEF Detected, gone
  <2>2. w.retry - 1 \in 0 .. MaxRetry
    BY <1>2, <1>7, SlotsAssumption
  <2>3. Sound(v) /\ Follows(gone, v) /\ v.polled[r] = counter[r]
    <3>1. v.polled = gone.polled
      BY <1>1, <1>2, <2>2, RetrySound
    <3>2. Sound(v) /\ Follows(gone, v)
      BY <1>1, <1>2, <2>2, RetrySound
    <3>3. QED
      BY <1>1, <3>1, <3>2
  <2> HIDE DEF v
  <2>4. Sound(d.w) /\ Follows(v, d.w)
    BY <1>7, <2>1, <2>3, ConnectSound
  <2>5. v \in World /\ d.w \in World
    BY <2>3, <2>4 DEF Sound
  <2> HIDE DEF d
  <2>6. Follows(w, v)
    BY <1>1, <1>2, <2>3, <2>5, FollowsIsTransitive
  <2>7. Follows(w, d.w)
    BY <1>2, <2>4, <2>5, <2>6, FollowsIsTransitive
  <2>8. QED
    BY <2>4, <2>7 DEF d
<1>8. QED
  BY <1>3, <1>4, <1>5, <1>6, <1>7

LEMMA CardDetectSound ==
  ASSUME NEW w, Sound(w), NEW s \in SlotIds(w), NEW r \in Readers, ReadersTypeOK
  PROVE  Sound(CardDetect(w, r, s).w) /\ Follows(w, CardDetect(w, r, s).w)
<1> DEFINE p == Poll(w.slots[s].reader_events)
           looked == [w EXCEPT !.slots[s].reader_events = p.view]
           v == Refreshed(looked, r)
           noChange == p.reader # r
           changed == Changed(r, w.polled[r], Handle(w, r))
           d == Detected(v, r, noChange, changed)
<1>1. w \in World /\ counter \in Views
  BY DEF Sound, ReadersTypeOK
<1>2. p.view \in Views
  <2>1. w.slots[s].reader_events \in Views
    BY <1>1, SlotFacts DEF Slot
  <2>2. QED
    BY <1>1, <2>1, PollType
<1>3. noChange \in BOOLEAN /\ changed \in BOOLEAN
  BY DEF Changed
<1>4. CardDetect(w, r, s) = d
  BY DEF CardDetect
<1> HIDE DEF p, noChange, changed
<1>5. Sound(looked) /\ Follows(w, looked)
  BY <1>1, <1>2, LookedSound
<1> HIDE DEF looked
<1>6. Sound(v) /\ Follows(looked, v) /\ v.polled[r] = counter[r]
  BY <1>1, <1>5, RefreshedSound
<1> HIDE DEF v
<1>7. Sound(d.w) /\ Follows(v, d.w)
  BY <1>3, <1>6, DetectedSound
<1> HIDE DEF d
<1>8. looked \in World /\ v \in World /\ d.w \in World
  BY <1>5, <1>6, <1>7 DEF Sound
<1>9. Follows(w, v)
  BY <1>1, <1>5, <1>6, <1>8, FollowsIsTransitive
<1>10. Follows(w, d.w)
  BY <1>1, <1>7, <1>8, <1>9, FollowsIsTransitive
<1>11. QED
  BY <1>4, <1>7, <1>10

LEMMA CardDetectNewSound ==
  ASSUME NEW w, Sound(w), NEW r \in Readers, ReadersTypeOK
  PROVE  Sound(CardDetectNew(w, r).w) /\ Follows(w, CardDetectNew(w, r).w)
<1> DEFINE v == Refreshed(w, r)
           changed == Changed(r, w.polled[r], Handle(w, r))
           d == Detected(v, r, FALSE, changed)
<1>1. w \in World /\ counter \in Views /\ changed \in BOOLEAN
  BY DEF Sound, ReadersTypeOK, Changed
<1>2. CardDetectNew(w, r) = d
  BY DEF CardDetectNew
<1> HIDE DEF changed
<1>3. Sound(v) /\ Follows(w, v) /\ v.polled[r] = counter[r]
  BY <1>1, RefreshedSound
<1> HIDE DEF v
<1>4. Sound(d.w) /\ Follows(v, d.w)
  BY <1>1, <1>3, DetectedSound
<1> HIDE DEF d
<1>5. v \in World /\ d.w \in World
  BY <1>3, <1>4 DEF Sound
<1>6. Follows(w, d.w)
  BY <1>1, <1>3, <1>4, <1>5, FollowsIsTransitive
<1>7. QED
  BY <1>2, <1>4, <1>6

(* What card_detect_all has come to after the first readers, from w.         *)
Passed(w) == {b \in [full : BOOLEAN, w : World] : Sound(b.w) /\ Follows(w, b.w)}

LEMMA DetectNextSound ==
  ASSUME NEW w, Sound(w), NEW b \in Passed(w), NEW r \in Readers, ReadersTypeOK
  PROVE  DetectNext(b, r) \in Passed(w)
<1> DEFINE c == CreateSlots(b.w, r)
           d == CardDetect(b.w, r, FirstOf(SlotsOf(b.w, r)))
           n == CardDetectNew(c, r)
           next == DetectNext(b, r)
<1>1. /\ b \in [full : BOOLEAN, w : World] /\ b.full \in BOOLEAN
      /\ Sound(b.w) /\ Follows(w, b.w)
      /\ w \in World /\ b.w \in World /\ counter \in Views
  BY DEF Passed, Sound, ReadersTypeOK
<1>2. ASSUME NEW full \in BOOLEAN, NEW v, Sound(v), Follows(b.w, v)
      PROVE  [full |-> full, w |-> v] \in Passed(w)
  <2>1. v \in World
    BY <1>2 DEF Sound
  <2>2. Follows(w, v)
    BY <1>1, <1>2, <2>1, FollowsIsTransitive
  <2>3. [full |-> full, w |-> v] \in [full : BOOLEAN, w : World]
    BY <2>1
  <2>4. QED
    BY <1>2, <2>2, <2>3 DEF Passed
<1>3. CASE b.full
  BY <1>3 DEF DetectNext
<1>4. CASE ~b.full /\ SlotsOf(b.w, r) # {}
  <2>1. FirstOf(SlotsOf(b.w, r)) \in SlotIds(b.w)
    <3>1. FirstOf(SlotsOf(b.w, r)) \in SlotsOf(b.w, r)
      BY <1>1, <1>4, FirstIsLeast
    <3>2. SlotsOf(b.w, r) \subseteq SlotIds(b.w)
      BY DEF SlotsOf
    <3>3. QED
      BY <3>1, <3>2
  <2>2. Sound(d.w) /\ Follows(b.w, d.w)
    BY <1>1, <2>1, CardDetectSound
  <2>3. next = [full |-> FALSE, w |-> d.w]
    BY <1>4 DEF DetectNext
  <2> HIDE DEF d, next
  <2>4. next \in Passed(w)
    BY <1>2, <2>2, <2>3
  <2>5. QED
    BY <2>4 DEF next
<1>5. CASE ~b.full /\ SlotsOf(b.w, r) = {}
  <2>1. Sound(c) /\ Follows(b.w, c) /\ c \in World
    BY <1>1, CreateSlotsSound DEF Sound
  <2>2. next = IF Len(c.slots) - Len(b.w.slots) < SlotsPerCard
               THEN [full |-> TRUE, w |-> c] ELSE [full |-> FALSE, w |-> n.w]
    BY <1>5 DEF DetectNext
  <2> HIDE DEF c
  <2>3. Sound(n.w) /\ Follows(c, n.w)
    BY <2>1, CardDetectNewSound
  <2>4. n.w \in World
    BY <2>3 DEF Sound
  <2> HIDE DEF n, next
  <2>5. Follows(b.w, n.w)
    BY <1>1, <2>1, <2>3, <2>4, FollowsIsTransitive
  <2>6. next \in Passed(w)
    BY <1>2, <2>1, <2>2, <2>3, <2>5
  <2>7. QED
    BY <2>6 DEF next
<1>6. QED
  BY <1>1, <1>3, <1>4, <1>5

(* card_detect_all's state after each reader, as the recursion defines it.   *)
Passes(n, w, f) ==
    f = [r \in 0 .. n |->
            IF r = 0 THEN [full |-> FALSE, w |-> w] ELSE DetectNext(f[r - 1], r)]

LEMMA PassesExist ==
  ASSUME NEW w
  PROVE  \E f : Passes(NReaders, w, f)
<1> DEFINE S == {n \in Nat : \E f : Passes(n, w, f)}
<1>1. 0 \in S
  <2> DEFINE f == [r \in 0 .. 0 |-> [full |-> FALSE, w |-> w]]
  <2>1. f = [r \in 0 .. 0 |->
               IF r = 0 THEN [full |-> FALSE, w |-> w] ELSE DetectNext(f[r - 1], r)]
    <3>1. \A r \in 0 .. 0 : r = 0
      OBVIOUS
    <3>2. QED
      BY <3>1
  <2>2. QED
    BY <2>1 DEF Passes
<1>2. ASSUME NEW i \in Nat, i \in S PROVE i + 1 \in S
  <2>1. PICK f : Passes(i, w, f)
    BY <1>2
  <2> DEFINE g == [r \in 0 .. i + 1 |-> IF r = i + 1 THEN DetectNext(f[i], r) ELSE f[r]]
  <2>2. \A r \in 0 .. i : f[r] =
          IF r = 0 THEN [full |-> FALSE, w |-> w] ELSE DetectNext(f[r - 1], r)
    BY <2>1 DEF Passes
  <2>3. \A r \in 0 .. i + 1 : g[r] =
          IF r = 0 THEN [full |-> FALSE, w |-> w] ELSE DetectNext(g[r - 1], r)
    <3> SUFFICES ASSUME NEW r \in 0 .. i + 1
                 PROVE  g[r] = IF r = 0 THEN [full |-> FALSE, w |-> w]
                               ELSE DetectNext(g[r - 1], r)
      OBVIOUS
    <3>1. CASE r = 0
      <4>1. 0 \in 0 .. i /\ r # i + 1
        BY <3>1
      <4>2. g[r] = f[0] /\ f[0] = [full |-> FALSE, w |-> w]
        BY <2>2, <3>1, <4>1
      <4>3. QED
        BY <3>1, <4>2, Zenon
    <3>2. CASE r # 0 /\ r # i + 1
      <4>1. r \in 0 .. i /\ r - 1 \in 0 .. i
        BY <3>2
      <4>2. g[r] = f[r] /\ g[r - 1] = f[r - 1]
        BY <3>2, <4>1
      <4>3. f[r] = DetectNext(f[r - 1], r)
        BY <2>2, <3>2, <4>1
      <4>4. QED
        BY <3>2, <4>2, <4>3, Zenon
    <3>3. CASE r = i + 1
      <4>1. r # 0 /\ r - 1 = i /\ i \in 0 .. i + 1 /\ i # i + 1
        BY <3>3
      <4>2. g[r] = DetectNext(f[i], r) /\ g[r - 1] = f[i]
        BY <3>3, <4>1
      <4>3. QED
        BY <4>1, <4>2, Zenon
    <3>4. QED
      BY <3>1, <3>2, <3>3
  <2>4. g = [r \in 0 .. i + 1 |-> g[r]]
    OBVIOUS
  <2> HIDE DEF g
  <2>5. Passes(i + 1, w, g)
    BY <2>3, <2>4, Zenon DEF Passes
  <2>6. QED
    BY <2>5
<1> HIDE DEF S
<1>3. NReaders \in S
  <2>1. \A i \in 0 .. NReaders - 1 : i \in S => i + 1 \in S
    BY <1>2
  <2>2. NReaders \in Nat /\ 0 \in Nat /\ NReaders \in 0 .. NReaders
    BY ReadersAssumption
  <2>3. QED
    BY <1>1, <2>1, <2>2, IntervalInduction
<1>4. QED
  BY <1>3 DEF S

LEMMA CardDetectAllSound ==
  ASSUME NEW w, Sound(w), ReadersTypeOK
  PROVE  Sound(CardDetectAll(w)) /\ Follows(w, CardDetectAll(w))
<1> DEFINE after == CHOOSE f : Passes(NReaders, w, f)
<1>1. CardDetectAll(w) = after[NReaders].w
  BY Zenon DEF CardDetectAll, Passes
<1>2. Passes(NReaders, w, after)
  BY PassesExist, Zenon
<1> HIDE DEF after
<1>3. NReaders \in Nat /\ Readers = 1 .. NReaders
  BY ReadersAssumption DEF Readers
<1>4. \A r \in 0 .. NReaders : after[r] =
        IF r = 0 THEN [full |-> FALSE, w |-> w] ELSE DetectNext(after[r - 1], r)
  BY <1>2 DEF Passes
<1> DEFINE S == {r \in 0 .. NReaders : after[r] \in Passed(w)}
<1>5. 0 \in S
  <2>1. Follows(w, w) /\ w \in World
    BY SameWorldFollows DEF Sound
  <2>2. [full |-> FALSE, w |-> w] \in Passed(w)
    BY <2>1 DEF Passed
  <2>3. QED
    BY <1>3, <1>4, <2>2
<1>6. ASSUME NEW i \in 0 .. NReaders - 1, i \in S PROVE i + 1 \in S
  <2>1. i + 1 \in Readers /\ i + 1 \in 0 .. NReaders /\ i + 1 # 0 /\ (i + 1) - 1 = i
    BY <1>3
  <2>2. after[i + 1] = DetectNext(after[i], i + 1)
    BY <1>4, <2>1
  <2>3. after[i + 1] \in Passed(w)
    BY <1>6, <2>1, <2>2, DetectNextSound
  <2>4. QED
    BY <2>1, <2>3
<1> HIDE DEF S
<1>7. NReaders \in S
  <2>1. 0 \in Nat /\ NReaders \in 0 .. NReaders
    BY <1>3
  <2>2. QED
    BY <1>3, <1>5, <1>6, <2>1, IntervalInduction
<1>8. after[NReaders] \in Passed(w)
  BY <1>7 DEF S
<1>9. QED
  BY <1>1, <1>8 DEF Passed

LEMMA SlotGetTokenSound ==
  ASSUME NEW w, Sound(w), NEW s \in SlotIds(w), ReadersTypeOK
  PROVE  Sound(SlotGetToken(w, s).w) /\ Follows(w, SlotGetToken(w, s).w)
<1> DEFINE d == CardDetect(w, w.slots[s].reader, s)
<1>1. w \in World /\ w.slots[s].reader \in Readers
  BY SlotFacts DEF Sound, Slot
<1>2. Sound(d.w) /\ Follows(w, d.w) /\ Follows(w, w)
  BY <1>1, CardDetectSound, SameWorldFollows
<1>3. SlotGetToken(w, s).w = IF w.slots[s].present THEN w ELSE d.w
  BY DEF SlotGetToken
<1> HIDE DEF d
<1>4. QED
  BY <1>2, <1>3

LEMMA EventForgotten ==
  ASSUME NEW slot \in Slot, NEW e \in {"none", "inserted", "removed"}
  PROVE  /\ [slot EXCEPT !.events = e] \in Slot
         /\ [slot EXCEPT !.events = e].reader = slot.reader
         /\ [slot EXCEPT !.events = e].p11card = slot.p11card
         /\ [slot EXCEPT !.events = e].login_user = slot.login_user
         /\ [slot EXCEPT !.events = e].logins = slot.logins
         /\ [slot EXCEPT !.events = e].nsessions = slot.nsessions
BY DEF Slot

LEMMA ReportedSound ==
  ASSUME NEW w, Sound(w), NEW first, counter \in Views
  PROVE  Sound(Reported(w, first).w) /\ Follows(w, Reported(w, first).w)
<1> DEFINE New(s) == [w.slots[s] EXCEPT !.events = "none"]
           Told(s) == s = first \/ (/\ w.slots[s].events = "inserted"
                                    /\ ~w.slots[s].present
                                    /\ first = 0 \/ s < first)
           f == [s \in SlotIds(w) |-> IF Told(s) THEN New(s) ELSE w.slots[s]]
           v == Reported(w, first).w
<1>1. w \in World /\ RecordsAreOld(w) /\ \A s \in SlotIds(w) : w.slots[s] \in Slot
  BY SlotFacts DEF Sound
<1>2. \A s \in SlotIds(w) :
        /\ New(s) \in Slot
        /\ New(s).reader = w.slots[s].reader
        /\ New(s).p11card = w.slots[s].p11card
        /\ New(s).login_user = w.slots[s].login_user
        /\ New(s).logins = w.slots[s].logins
        /\ New(s).nsessions = w.slots[s].nsessions
  BY <1>1, EventForgotten
<1>3. v = [w EXCEPT !.slots = f]
  BY DEF Reported
<1> HIDE DEF New, Told
<1>4. f \in [SlotIds(w) -> Slot]
  BY <1>1, <1>2
<1> HIDE DEF f, v
<1>5. /\ v.slots = f /\ v.sessions = w.sessions
      /\ v.polled = w.polled /\ v.retry = w.retry
      /\ v = [slots |-> v.slots, sessions |-> v.sessions, polled |-> v.polled,
              retry |-> v.retry]
  BY <1>1, <1>3, WorldFields
<1>6. v \in World /\ Len(v.slots) = Len(w.slots) /\ SlotIds(v) = SlotIds(w)
  BY <1>1, <1>4, <1>5, WorldFields, WorldByFields
<1>7. \A r \in Readers : w.polled[r] <= v.polled[r] /\ v.polled[r] <= counter[r]
  BY <1>1, <1>5, ReadersAssumption DEF RecordsAreOld, World, Views, Counters
<1>8. \A s \in SlotIds(w) : v.slots[s] = New(s) \/ v.slots[s] = w.slots[s]
  BY <1>5 DEF f
<1>9. SameTokens(w, v)
  BY <1>2, <1>5, <1>6, <1>7, <1>8 DEF SameTokens
<1>10. QED
  BY <1>6, <1>9, SameTokensSound DEF v

LEMMA SlotFindChangedSound ==
  ASSUME NEW w, Sound(w), ReadersTypeOK
  PROVE  Sound(SlotFindChanged(w).w) /\ Follows(w, SlotFindChanged(w).w)
<1> DEFINE all == CardDetectAll(w)
           first == IF Pending(all) = {} THEN 0 ELSE FirstOf(Pending(all))
           v == Reported(all, first).w
<1>1. SlotFindChanged(w).w = v
  BY DEF SlotFindChanged, FirstReported
<1>2. Sound(all) /\ Follows(w, all) /\ counter \in Views
  BY CardDetectAllSound DEF ReadersTypeOK
<1> HIDE DEF first, all
<1>3. Sound(v) /\ Follows(all, v)
  BY <1>2, ReportedSound
<1> HIDE DEF v
<1>4. w \in World /\ all \in World /\ v \in World
  BY <1>2, <1>3 DEF Sound
<1>5. Follows(w, v)
  BY <1>2, <1>3, <1>4, FollowsIsTransitive
<1>6. QED
  BY <1>1, <1>3, <1>5

-----------------------------------------------------------------------------
(* Calls that change one slot and its sessions.                              *)

(* The shape of w with slot s and the session list replaced.                 *)
Replaced(w, v, s, slot, sessions) ==
    /\ v = [slots |-> v.slots, sessions |-> v.sessions, polled |-> v.polled,
            retry |-> v.retry]
    /\ v.slots = [w.slots EXCEPT ![s] = slot]
    /\ v.sessions = sessions
    /\ v.polled = w.polled /\ v.retry = w.retry

LEMMA SlotReplaced ==
  ASSUME NEW w \in World, NEW s \in SlotIds(w), NEW slot \in Slot,
         NEW sessions \in [Handles -> Session \cup {NoSession}], NEW v,
         Replaced(w, v, s, slot, sessions)
  PROVE  /\ v \in World
         /\ Len(v.slots) = Len(w.slots) /\ SlotIds(v) = SlotIds(w)
         /\ v.polled = w.polled /\ v.sessions = sessions
         /\ v.slots[s] = slot
         /\ \A t \in SlotIds(w) : t # s => v.slots[t] = w.slots[t]
<1>1. /\ v = [slots |-> v.slots, sessions |-> v.sessions, polled |-> v.polled,
              retry |-> v.retry]
      /\ v.slots = [w.slots EXCEPT ![s] = slot]
      /\ v.sessions = sessions /\ v.polled = w.polled /\ v.retry = w.retry
  BY DEF Replaced
<1>2. /\ v.slots \in [SlotIds(w) -> Slot]
      /\ \A t \in SlotIds(w) : v.slots[t] = IF t = s THEN slot ELSE w.slots[t]
  BY <1>1, SlotFacts
<1>3. v \in World /\ Len(v.slots) = Len(w.slots) /\ SlotIds(v) = SlotIds(w)
  BY <1>1, <1>2, WorldFields, WorldByFields
<1>4. QED
  BY <1>1, <1>2, <1>3

(* Slot s keeps its reader and card, and the other slots keep everything.    *)
OnlySlot(w, v, s) ==
    /\ v \in World
    /\ Len(v.slots) = Len(w.slots) /\ SlotIds(v) = SlotIds(w)
    /\ v.polled = w.polled
    /\ v.slots[s].reader = w.slots[s].reader
    /\ v.slots[s].p11card = w.slots[s].p11card
    /\ \A t \in SlotIds(w) : t # s =>
        v.slots[t] = w.slots[t] /\ SessionsOf(v, t) = SessionsOf(w, t)

LEMMA OnlySlotSound ==
  ASSUME NEW w, Sound(w), NEW s \in SlotIds(w), NEW v, OnlySlot(w, v, s),
         SessionsKnown(v), SlotOK(v, s)
  PROVE  Sound(v)
<1>1. RecordsAreOld(v) /\ OneCardPerReader(v)
  BY DEF OnlySlot, Sound, RecordsAreOld, OneCardPerReader
<1>2. ASSUME NEW t \in SlotIds(w) PROVE SlotOK(v, t)
  <2>1. CASE t = s
    BY <2>1
  <2>2. CASE t # s
    <3>1. v.slots[t] = w.slots[t] /\ SessionsOf(v, t) = SessionsOf(w, t)
          /\ v.polled = w.polled /\ SlotOK(w, t)
      BY <2>2 DEF OnlySlot, Sound
    <3>2. QED
      BY <3>1 DEF SlotOK
  <2>3. QED
    BY <2>1, <2>2
<1>3. QED
  BY <1>1, <1>2 DEF Sound, OnlySlot

LEMMA LoginChanged ==
  ASSUME NEW w, Sound(w), NEW s \in SlotIds(w), NEW slot \in Slot, NEW v,
         Replaced(w, v, s, slot, w.sessions),
         slot.reader = w.slots[s].reader, slot.p11card = w.slots[s].p11card,
         slot.nsessions = w.slots[s].nsessions,
         slot.login_user # "none" => slot.p11card # 0 /\ slot.nsessions > 0,
         atomic /\ slot.login_user # "none" => slot.logins = <<slot.login_user>>,
         slot.p11card = 0 => slot.logins = <<>>,
         slot.login_user = "none" /\ slot.logins # <<>> =>
            slot.p11card # counter[slot.reader]
  PROVE  Sound(v) /\ OnlySlot(w, v, s)
<1>1. w \in World /\ w.sessions \in [Handles -> Session \cup {NoSession}] /\ SlotOK(w, s)
  BY WorldFields DEF Sound
<1>2. /\ v \in World
      /\ Len(v.slots) = Len(w.slots) /\ SlotIds(v) = SlotIds(w)
      /\ v.slots[s] = slot
      /\ \A t \in SlotIds(w) : t # s => v.slots[t] = w.slots[t]
  BY <1>1, SlotReplaced
<1>3. /\ v.sessions = w.sessions /\ v.polled = w.polled
      /\ Listed(v) = Listed(w) /\ \A t : SessionsOf(v, t) = SessionsOf(w, t)
  BY DEF Replaced, Listed, SessionsOf
<1>4. OnlySlot(w, v, s)
  BY <1>2, <1>3 DEF OnlySlot
<1>5. SessionsKnown(v)
  BY <1>2, <1>3 DEF Sound, SessionsKnown
<1>6. SlotOK(v, s)
  BY <1>1, <1>2, <1>3 DEF SlotOK
<1>7. QED
  BY <1>4, <1>5, <1>6, OnlySlotSound

LEMMA LoginPut ==
  ASSUME NEW slot \in Slot, NEW u \in Users \cup {"none"}, NEW l \in Seq(Users)
  PROVE  [slot EXCEPT !.login_user = u, !.logins = l] \in Slot
BY DEF Slot

(* What the calls on one session leave of the library's state: a login       *)
(* forgotten with those kept for it, a login forgotten that the kept ones    *)
(* outlive, a login, a session opened, and a session closed.                 *)
LoginReset(w, s) == [w EXCEPT !.slots[s].login_user = "none", !.slots[s].logins = <<>>]

LoginLost(w, s) == [w EXCEPT !.slots[s].login_user = "none"]

LoggedIn(w, s, user) ==
    [w EXCEPT !.slots[s].login_user = user,
              !.slots[s].logins = IF atomic THEN Append(@, user) ELSE @]

SessionOpened(w, s, h, rw) ==
    [w EXCEPT !.slots[s].nsessions = @ + 1,
              !.sessions[h] = [slot |-> s, rw |-> rw]]

SessionClosed(w, h) ==
    LET s == w.sessions[h].slot
        slot == w.slots[s]
        out == slot.nsessions = 1 /\ slot.login_user # "none"
    IN  [w EXCEPT
            !.slots[s].nsessions = @ - 1,
            !.slots[s].login_user = IF out THEN "none" ELSE @,
            !.slots[s].logins = IF out THEN <<>> ELSE @,
            !.sessions[h] = IF out /\ ~atomic /\ slot.p11card = 0 THEN @ ELSE NoSession]

(* The login of slot s and those kept for it are forgotten.                  *)
LEMMA LoginForgotten ==
  ASSUME NEW w, Sound(w), NEW s \in SlotIds(w)
  PROVE  Sound(LoginReset(w, s)) /\ OnlySlot(w, LoginReset(w, s), s)
<1> DEFINE v == LoginReset(w, s)
           slot == [w.slots[s] EXCEPT !.login_user = "none", !.logins = <<>>]
<1>1. w \in World /\ w.slots[s] \in Slot /\ w.slots \in [SlotIds(w) -> Slot]
  BY SlotFacts DEF Sound
<1>2. /\ slot \in Slot
      /\ slot.reader = w.slots[s].reader /\ slot.p11card = w.slots[s].p11card
      /\ slot.nsessions = w.slots[s].nsessions
      /\ slot.login_user = "none" /\ slot.logins = <<>>
  <2>1. "none" \in Users \cup {"none"} /\ <<>> \in Seq(Users)
    OBVIOUS
  <2>2. slot \in Slot
    BY <1>1, <2>1, LoginPut
  <2>3. QED
    BY <1>1, <2>2 DEF Slot
<1>3. v = [w EXCEPT !.slots = [w.slots EXCEPT ![s] = slot]]
  BY <1>1, WorldFields DEF LoginReset
<1> HIDE DEF slot, v
<1>4. Replaced(w, v, s, slot, w.sessions)
  <2>1. v = [slots |-> v.slots, sessions |-> v.sessions, polled |-> v.polled,
             retry |-> v.retry]
    BY <1>1, <1>3, WorldFields
  <2>2. /\ v.slots = [w.slots EXCEPT ![s] = slot] /\ v.sessions = w.sessions
        /\ v.polled = w.polled /\ v.retry = w.retry
    BY <1>1, <1>3, WorldFields
  <2>3. QED
    BY <2>1, <2>2 DEF Replaced
<1>5. Sound(v) /\ OnlySlot(w, v, s)
  BY <1>2, <1>4, LoginChanged
<1>6. QED
  BY <1>5 DEF v

(* The login of slot s is forgotten and those kept for it stay, which only a *)
(* session does whose card is gone.                                          *)
LEMMA LoginDropped ==
  ASSUME NEW w, Sound(w), NEW s \in SlotIds(w),
         w.slots[s].p11card # 0 => w.slots[s].p11card # counter[w.slots[s].reader]
  PROVE  Sound(LoginLost(w, s)) /\ OnlySlot(w, LoginLost(w, s), s)
<1> DEFINE v == LoginLost(w, s)
           slot == [w.slots[s] EXCEPT !.login_user = "none"]
<1>1. w \in World /\ w.slots[s] \in Slot /\ w.slots \in [SlotIds(w) -> Slot] /\ SlotOK(w, s)
  BY SlotFacts DEF Sound
<1>2. /\ slot \in Slot
      /\ slot.reader = w.slots[s].reader /\ slot.p11card = w.slots[s].p11card
      /\ slot.nsessions = w.slots[s].nsessions
      /\ slot.login_user = "none" /\ slot.logins = w.slots[s].logins
  BY <1>1 DEF Slot
<1>3. v = [w EXCEPT !.slots = [w.slots EXCEPT ![s] = slot]]
  BY <1>1, WorldFields DEF LoginLost
<1> HIDE DEF slot, v
<1>4. Replaced(w, v, s, slot, w.sessions)
  <2>1. v = [slots |-> v.slots, sessions |-> v.sessions, polled |-> v.polled,
             retry |-> v.retry]
    BY <1>1, <1>3, WorldFields
  <2>2. /\ v.slots = [w.slots EXCEPT ![s] = slot] /\ v.sessions = w.sessions
        /\ v.polled = w.polled /\ v.retry = w.retry
    BY <1>1, <1>3, WorldFields
  <2>3. QED
    BY <2>1, <2>2 DEF Replaced
<1>5. slot.p11card = 0 => slot.logins = <<>>
  BY <1>1, <1>2 DEF SlotOK
<1>6. slot.login_user = "none" /\ slot.logins # <<>> => slot.p11card # counter[slot.reader]
  BY <1>2, <1>5
<1>7. Sound(v) /\ OnlySlot(w, v, s)
  BY <1>2, <1>4, <1>5, <1>6, LoginChanged
<1>8. QED
  BY <1>7 DEF v

(* A user logs in, in a session of the slot.                                 *)
LEMMA LoggedInSound ==
  ASSUME NEW w, Sound(w), NEW s \in SlotIds(w), NEW user \in Users, atomic \in BOOLEAN,
         w.slots[s].p11card # 0, SessionsOf(w, s) # {}, w.slots[s].logins = <<>>
  PROVE  Sound(LoggedIn(w, s, user)) /\ OnlySlot(w, LoggedIn(w, s, user), s)
<1> DEFINE l == IF atomic THEN Append(w.slots[s].logins, user) ELSE w.slots[s].logins
           v == LoggedIn(w, s, user)
           slot == [w.slots[s] EXCEPT !.login_user = user, !.logins = l]
<1>1. w \in World /\ w.slots[s] \in Slot /\ w.slots \in [SlotIds(w) -> Slot] /\ SlotOK(w, s)
  BY SlotFacts DEF Sound
<1>2. l \in Seq(Users) /\ l = IF atomic THEN <<user>> ELSE <<>>
  <2>1. <<>> \in Seq(Users) /\ <<user>> \in Seq(Users) /\ Append(<<>>, user) = <<user>>
    OBVIOUS
  <2>2. QED
    BY <2>1
<1>3. v = [w EXCEPT !.slots = [w.slots EXCEPT ![s] = slot]]
  BY <1>1, WorldFields DEF LoggedIn
<1> HIDE DEF l
<1>4. slot \in Slot
  BY <1>1, <1>2, LoginPut
<1>5. /\ slot.reader = w.slots[s].reader /\ slot.p11card = w.slots[s].p11card
      /\ slot.nsessions = w.slots[s].nsessions
      /\ slot.login_user = user /\ slot.logins = l
  BY <1>1 DEF Slot
<1>6. slot.nsessions > 0
  <2>1. IsFiniteSet(SessionsOf(w, s))
    BY FS_Subset DEF Sound, SessionsKnown, SessionsOf
  <2>2. Cardinality(SessionsOf(w, s)) \in Nat /\ Cardinality(SessionsOf(w, s)) # 0
    BY <2>1, FS_CardinalityType, FS_EmptySet
  <2>3. QED
    BY <1>1, <1>5, <2>2 DEF SlotOK
<1> HIDE DEF slot, v
<1>7. Replaced(w, v, s, slot, w.sessions)
  <2>1. v = [slots |-> v.slots, sessions |-> v.sessions, polled |-> v.polled,
             retry |-> v.retry]
    BY <1>1, <1>3, WorldFields
  <2>2. /\ v.slots = [w.slots EXCEPT ![s] = slot] /\ v.sessions = w.sessions
        /\ v.polled = w.polled /\ v.retry = w.retry
    BY <1>1, <1>3, WorldFields
  <2>3. QED
    BY <2>1, <2>2 DEF Replaced
<1>8. user # "none"
  BY DEF Users
<1>9. /\ slot.login_user # "none" => slot.p11card # 0 /\ slot.nsessions > 0
      /\ atomic /\ slot.login_user # "none" => slot.logins = <<slot.login_user>>
      /\ slot.p11card = 0 => slot.logins = <<>>
      /\ slot.login_user = "none" /\ slot.logins # <<>> => slot.p11card # counter[slot.reader]
  BY <1>2, <1>5, <1>6, <1>8
<1>10. Sound(v) /\ OnlySlot(w, v, s)
  BY <1>4, <1>5, <1>7, <1>9, LoginChanged
<1>11. QED
  BY <1>10 DEF v

(* C_GetSlotInfo reports a token.                                            *)
LEMMA PresentedSound ==
  ASSUME NEW w, Sound(w), NEW s \in SlotIds(w), counter \in Views
  PROVE  /\ Sound([w EXCEPT !.slots[s].present = TRUE])
         /\ Follows(w, [w EXCEPT !.slots[s].present = TRUE])
<1> DEFINE v == [w EXCEPT !.slots[s].present = TRUE]
           slot == [w.slots[s] EXCEPT !.present = TRUE]
<1>1. /\ w \in World /\ w.slots[s] \in Slot /\ w.slots \in [SlotIds(w) -> Slot]
      /\ RecordsAreOld(w) /\ w.sessions \in [Handles -> Session \cup {NoSession}]
  BY SlotFacts, WorldFields DEF Sound
<1>2. /\ slot \in Slot
      /\ slot.reader = w.slots[s].reader /\ slot.p11card = w.slots[s].p11card
      /\ slot.nsessions = w.slots[s].nsessions
      /\ slot.login_user = w.slots[s].login_user /\ slot.logins = w.slots[s].logins
  BY <1>1 DEF Slot
<1>3. v = [w EXCEPT !.slots = [w.slots EXCEPT ![s] = slot]]
  BY <1>1, WorldFields
<1> HIDE DEF slot, v
<1>4. Replaced(w, v, s, slot, w.sessions)
  <2>1. v = [slots |-> v.slots, sessions |-> v.sessions, polled |-> v.polled,
             retry |-> v.retry]
    BY <1>1, <1>3, WorldFields
  <2>2. /\ v.slots = [w.slots EXCEPT ![s] = slot] /\ v.sessions = w.sessions
        /\ v.polled = w.polled /\ v.retry = w.retry
    BY <1>1, <1>3, WorldFields
  <2>3. QED
    BY <2>1, <2>2 DEF Replaced
<1>5. /\ v \in World
      /\ Len(v.slots) = Len(w.slots) /\ SlotIds(v) = SlotIds(w)
      /\ v.polled = w.polled /\ v.sessions = w.sessions
      /\ v.slots[s] = slot
      /\ \A t \in SlotIds(w) : t # s => v.slots[t] = w.slots[t]
  BY <1>1, <1>2, <1>4, SlotReplaced
<1>6. \A r \in Readers : w.polled[r] <= v.polled[r] /\ v.polled[r] <= counter[r]
  BY <1>1, <1>5, ReadersAssumption DEF RecordsAreOld, World, Views, Counters
<1>7. SameTokens(w, v)
  BY <1>2, <1>5, <1>6 DEF SameTokens
<1>8. QED
  BY <1>5, <1>7, SameTokensSound DEF v

LEMMA SessionsFinite ==
  ASSUME NEW w, Sound(w), NEW s
  PROVE  /\ IsFiniteSet(SessionsOf(w, s)) /\ Cardinality(SessionsOf(w, s)) \in Nat
         /\ \A h \in SessionsOf(w, s) : Cardinality(SessionsOf(w, s)) > 0
<1>1. IsFiniteSet(SessionsOf(w, s))
  BY FS_Subset DEF Sound, SessionsKnown, SessionsOf
<1>2. /\ Cardinality(SessionsOf(w, s)) \in Nat
      /\ Cardinality(SessionsOf(w, s)) = 0 <=> SessionsOf(w, s) = {}
  BY <1>1, FS_CardinalityType, FS_EmptySet
<1>3. QED
  BY <1>1, <1>2

LEMMA CountPut ==
  ASSUME NEW slot \in Slot, NEW n \in Int
  PROVE  /\ [slot EXCEPT !.nsessions = n] \in Slot
         /\ [slot EXCEPT !.nsessions = n].reader = slot.reader
         /\ [slot EXCEPT !.nsessions = n].p11card = slot.p11card
         /\ [slot EXCEPT !.nsessions = n].login_user = slot.login_user
         /\ [slot EXCEPT !.nsessions = n].logins = slot.logins
         /\ [slot EXCEPT !.nsessions = n].nsessions = n
BY DEF Slot

(* A session is opened with a handle that was not in use.                    *)
LEMMA OpenedSound ==
  ASSUME NEW w, Sound(w), NEW s \in SlotIds(w), NEW h \in Handles, h \notin Listed(w),
         NEW rw \in BOOLEAN
  PROVE  LET v == SessionOpened(w, s, h, rw)
         IN  /\ Sound(v) /\ OnlySlot(w, v, s)
             /\ v.slots[s].login_user = w.slots[s].login_user
             /\ \A g \in Handles : g # h => v.sessions[g] = w.sessions[g]
<1> DEFINE v == SessionOpened(w, s, h, rw)
           n == w.slots[s].nsessions + 1
           slot == [w.slots[s] EXCEPT !.nsessions = n]
           session == [slot |-> s, rw |-> rw]
           sessions == [w.sessions EXCEPT ![h] = session]
<1>1. /\ w \in World /\ w.slots[s] \in Slot /\ w.slots \in [SlotIds(w) -> Slot]
      /\ SlotOK(w, s) /\ w.sessions \in [Handles -> Session \cup {NoSession}]
  BY SlotFacts, WorldFields DEF Sound
<1>2. n \in Int
  BY <1>1 DEF Slot
<1>3. session \in Session /\ session # NoSession /\ session.slot = s
  <2>1. s \in Nat \ {0}
    BY <1>1, SlotFacts
  <2>2. session \in Session
    BY <2>1 DEF Session
  <2>3. QED
    BY <2>2, NoSessionAssumption
<1>4. v = [w EXCEPT !.slots = [w.slots EXCEPT ![s] = slot], !.sessions = sessions]
  BY <1>1, WorldFields DEF SessionOpened
<1> HIDE DEF n
<1>5. /\ slot \in Slot
      /\ slot.reader = w.slots[s].reader /\ slot.p11card = w.slots[s].p11card
      /\ slot.nsessions = n
      /\ slot.login_user = w.slots[s].login_user /\ slot.logins = w.slots[s].logins
  BY <1>1, <1>2, CountPut
<1> HIDE DEF session
<1>6. /\ sessions \in [Handles -> Session \cup {NoSession}]
      /\ sessions[h] = session /\ \A g \in Handles : g # h => sessions[g] = w.sessions[g]
  BY <1>1, <1>3
<1> HIDE DEF slot, sessions, v
<1>7. Replaced(w, v, s, slot, sessions)
  <2>1. v = [slots |-> v.slots, sessions |-> v.sessions, polled |-> v.polled,
             retry |-> v.retry]
    BY <1>1, <1>4, WorldFields
  <2>2. v.slots = [w.slots EXCEPT ![s] = slot] /\ v.sessions = sessions
    BY <1>1, <1>4, WorldFields
  <2>3. v.polled = w.polled /\ v.retry = w.retry
    BY <1>1, <1>4, WorldFields
  <2>4. QED
    BY <2>1, <2>2, <2>3 DEF Replaced
<1>8. /\ v \in World
      /\ Len(v.slots) = Len(w.slots) /\ SlotIds(v) = SlotIds(w)
      /\ v.polled = w.polled /\ v.sessions = sessions
      /\ v.slots[s] = slot
      /\ \A t \in SlotIds(w) : t # s => v.slots[t] = w.slots[t]
  BY <1>1, <1>5, <1>6, <1>7, SlotReplaced
<1>9. /\ Listed(v) = Listed(w) \cup {h}
      /\ \A t : SessionsOf(v, t) = IF t = s THEN SessionsOf(w, s) \cup {h} ELSE SessionsOf(w, t)
      /\ h \notin SessionsOf(w, s)
  <2>1. Listed(v) = Listed(w) \cup {h}
    BY <1>3, <1>6, <1>8 DEF Listed
  <2>2. QED
    BY <1>3, <1>6, <1>8, <2>1 DEF SessionsOf, Listed
<1>10. OnlySlot(w, v, s)
  BY <1>5, <1>8, <1>9 DEF OnlySlot
<1>11. SessionsKnown(v)
  <2>1. IsFiniteSet(Listed(v))
    BY <1>9, FS_AddElement DEF Sound, SessionsKnown
  <2>2. \A g \in Listed(v) : v.sessions[g].slot \in SlotIds(v)
    BY <1>3, <1>6, <1>8, <1>9 DEF Sound, SessionsKnown, Listed
  <2>3. QED
    BY <2>1, <2>2 DEF SessionsKnown
<1>12. /\ Cardinality(SessionsOf(v, s)) = n
       /\ n \in Nat /\ n > 0
  <2>1. /\ IsFiniteSet(SessionsOf(w, s)) /\ Cardinality(SessionsOf(w, s)) \in Nat
        /\ w.slots[s].nsessions = Cardinality(SessionsOf(w, s))
    BY <1>1, SessionsFinite DEF SlotOK
  <2>2. Cardinality(SessionsOf(v, s)) = Cardinality(SessionsOf(w, s)) + 1
    BY <1>9, <2>1, FS_AddElement
  <2>3. QED
    BY <2>1, <2>2 DEF n
<1>13. SlotOK(v, s)
  BY <1>1, <1>5, <1>8, <1>12 DEF SlotOK
<1>14. Sound(v)
  BY <1>10, <1>11, <1>13, OnlySlotSound
<1>15. QED
  BY <1>5, <1>6, <1>8, <1>10, <1>14 DEF v

(* sc_pkcs11_close_session of one session: the handle is always freed.       *)
LEMMA SessionClosedSound ==
  ASSUME NEW w, Sound(w), NEW h \in Listed(w)
  PROVE  LET v == SessionClosed(w, h)
         IN  Sound(v) /\ OnlySlot(w, v, w.sessions[h].slot)
<1> DEFINE s == w.sessions[h].slot
           slot == w.slots[s]
           out == slot.nsessions = 1 /\ slot.login_user # "none"
           v == SessionClosed(w, h)
           n == slot.nsessions - 1
           u == IF out THEN "none" ELSE slot.login_user
           l == IF out THEN <<>> ELSE slot.logins
           freed == IF out /\ ~atomic /\ slot.p11card = 0 THEN w.sessions[h] ELSE NoSession
           new == [slot EXCEPT !.nsessions = n, !.login_user = u, !.logins = l]
           sessions == [w.sessions EXCEPT ![h] = NoSession]
<1>1. /\ w \in World /\ s \in SlotIds(w) /\ h \in Handles
      /\ w.slots \in [SlotIds(w) -> Slot] /\ w.slots[s] \in Slot
      /\ SlotOK(w, s) /\ w.sessions \in [Handles -> Session \cup {NoSession}]
  <2>1. w \in World /\ s \in SlotIds(w) /\ h \in Handles
    BY DEF Sound, SessionsKnown, Listed
  <2>2. QED
    BY <2>1, SlotFacts, WorldFields DEF Sound
<1>2. ~(out /\ ~atomic /\ slot.p11card = 0)
  BY <1>1 DEF SlotOK
<1>3. n \in Int /\ u \in Users \cup {"none"} /\ l \in Seq(Users)
  <2>1. <<>> \in Seq(Users)
    OBVIOUS
  <2>2. QED
    BY <1>1, <2>1 DEF Slot
<1>4. v = [w EXCEPT !.slots = [w.slots EXCEPT ![s] = new], !.sessions = sessions]
  <2>1. v = [w EXCEPT !.slots[s].nsessions = n, !.slots[s].login_user = u,
                      !.slots[s].logins = l, !.sessions[h] = freed]
    BY Zenon DEF SessionClosed
  <2>2. freed = NoSession
    BY <1>2
  <2> HIDE DEF s, n, u, l, freed, v
  <2>3. [w EXCEPT !.slots[s].nsessions = n, !.slots[s].login_user = u,
                  !.slots[s].logins = l, !.sessions[h] = NoSession]
        = [w EXCEPT !.slots = [w.slots EXCEPT ![s] = new], !.sessions = sessions]
    <3> DEFINE f == [w.slots EXCEPT ![s].nsessions = n, ![s].login_user = u,
                                    ![s].logins = l]
    <3>1. [w EXCEPT !.slots[s].nsessions = n, !.slots[s].login_user = u,
                    !.slots[s].logins = l, !.sessions[h] = NoSession]
          = [w EXCEPT !.slots = f, !.sessions = sessions]
      BY <1>1, WorldFields
    <3>2. f = [w.slots EXCEPT ![s] = new]
      BY <1>1 DEF Slot
    <3>3. QED
      BY <3>1, <3>2
  <2>4. QED
    BY <2>1, <2>2, <2>3
<1>5. /\ u = IF slot.nsessions = 1 THEN "none" ELSE slot.login_user
      /\ l = IF slot.nsessions = 1 /\ slot.login_user # "none" THEN <<>> ELSE slot.logins
  OBVIOUS
<1> HIDE DEF n, u, l
<1>6. new \in Slot
  BY <1>1, <1>3, LoginReplaced
<1>7. /\ new.reader = slot.reader /\ new.p11card = slot.p11card
      /\ new.nsessions = n /\ new.login_user = u /\ new.logins = l
  BY <1>1 DEF Slot
<1>8. /\ sessions \in [Handles -> Session \cup {NoSession}]
      /\ sessions[h] = NoSession /\ \A g \in Handles : g # h => sessions[g] = w.sessions[g]
  BY <1>1
<1> HIDE DEF new, sessions, v
<1>9. Replaced(w, v, s, new, sessions)
  <2>1. v = [slots |-> v.slots, sessions |-> v.sessions, polled |-> v.polled,
             retry |-> v.retry]
    BY <1>1, <1>4, WorldFields
  <2>2. v.slots = [w.slots EXCEPT ![s] = new] /\ v.sessions = sessions
    BY <1>1, <1>4, WorldFields
  <2>3. v.polled = w.polled /\ v.retry = w.retry
    BY <1>1, <1>4, WorldFields
  <2>4. QED
    BY <2>1, <2>2, <2>3 DEF Replaced
<1>10. /\ v \in World
       /\ Len(v.slots) = Len(w.slots) /\ SlotIds(v) = SlotIds(w)
       /\ v.polled = w.polled /\ v.sessions = sessions
       /\ v.slots[s] = new
       /\ \A t \in SlotIds(w) : t # s => v.slots[t] = w.slots[t]
  BY <1>1, <1>6, <1>8, <1>9, SlotReplaced
<1>11. h \in SessionsOf(w, s)
  BY DEF SessionsOf
<1> HIDE DEF s
<1>12. /\ Listed(v) = Listed(w) \ {h}
       /\ SessionsOf(v, s) = SessionsOf(w, s) \ {h}
       /\ \A t : t # s => SessionsOf(v, t) = SessionsOf(w, t)
  <2>1. Listed(v) = Listed(w) \ {h}
    BY <1>8, <1>10 DEF Listed
  <2>2. SessionsOf(v, s) = SessionsOf(w, s) \ {h}
    BY <1>8, <1>10, <2>1 DEF SessionsOf, Listed
  <2>3. ASSUME NEW t, t # s PROVE SessionsOf(v, t) = SessionsOf(w, t)
    BY <1>8, <1>10, <1>11, <2>1, <2>3 DEF SessionsOf, Listed
  <2>4. QED
    BY <2>1, <2>2, <2>3
<1>13. OnlySlot(w, v, s)
  BY <1>7, <1>10, <1>12 DEF OnlySlot
<1>14. SessionsKnown(v)
  <2>1. IsFiniteSet(Listed(v))
    BY <1>12, FS_Subset DEF Sound, SessionsKnown
  <2>2. \A g \in Listed(v) : v.sessions[g].slot \in SlotIds(v)
    BY <1>8, <1>10, <1>12 DEF Sound, SessionsKnown, Listed
  <2>3. QED
    BY <2>1, <2>2 DEF SessionsKnown
<1>15. n = Cardinality(SessionsOf(v, s)) /\ n \in Int /\ (slot.nsessions # 1 => n > 0)
  <2>1. /\ IsFiniteSet(SessionsOf(w, s)) /\ Cardinality(SessionsOf(w, s)) \in Nat
        /\ Cardinality(SessionsOf(w, s)) > 0
        /\ slot.nsessions = Cardinality(SessionsOf(w, s))
    BY <1>1, <1>11, SessionsFinite DEF SlotOK
  <2>2. Cardinality(SessionsOf(v, s)) = Cardinality(SessionsOf(w, s)) - 1
    BY <1>11, <1>12, <2>1, FS_RemoveElement
  <2>3. QED
    BY <2>1, <2>2 DEF n
<1>16. SlotOK(v, s)
  BY <1>1, <1>5, <1>7, <1>10, <1>15 DEF SlotOK
<1>17. Sound(v)
  BY <1>1, <1>13, <1>14, <1>16, OnlySlotSound
<1>18. QED
  BY <1>13, <1>17 DEF v, s

-----------------------------------------------------------------------------
(* The invariant of the specification, and what every step does to it.       *)

WatchingHasView == pc = "watching" => readerStates \in Views

IInv ==
    /\ TypeOK
    /\ Sound(lib)
    /\ ~open => SlotIds(lib) = {}
    /\ WatchingHasView

(* What CardChangeEndsSessions says of a step.                               *)
SessionsEnd ==
    \A s \in SlotIds(lib) :
        LET card == lib.slots[s].p11card
            gone == s \notin DOMAIN lib'.slots \/ lib'.slots[s].p11card # card
        IN  card # 0 /\ gone =>
            /\ \A h \in SessionsOf(lib, s) : lib'.sessions[h] = NoSession
            /\ s \in DOMAIN lib'.slots => lib'.slots[s].login_user = "none"

SameCards(w, v) ==
    /\ SlotIds(v) = SlotIds(w)
    /\ \A s \in SlotIds(w) : v.slots[s].p11card = w.slots[s].p11card

LEMMA FollowsEnds ==
  ASSUME Follows(lib, lib')
  PROVE  SessionsEnd
BY DEF Follows, Kept, SessionsEnd, SlotIds

LEMMA SameCardsEnds ==
  ASSUME SameCards(lib, lib')
  PROVE  SessionsEnd
BY DEF SameCards, SessionsEnd, SlotIds

LEMMA OnlySlotCards ==
  ASSUME NEW w, NEW v, NEW s, OnlySlot(w, v, s)
  PROVE  SameCards(w, v)
BY DEF OnlySlot, SameCards

(* The invariant of the library in the next state, in which no card moved and*)
(* the mode stayed.                                                          *)
LEMMA SoundPrimed ==
  ASSUME Sound(lib'), counter' = counter, atomic' = atomic
  PROVE  Sound(lib)'
<1>1. (SlotIds(lib))' = SlotIds(lib') /\ (Listed(lib))' = Listed(lib')
  BY DEF SlotIds, Listed
<1>2. \A s : (SessionsOf(lib, s))' = SessionsOf(lib', s)
  BY <1>1 DEF SessionsOf
<1>3. SessionsKnown(lib)' /\ RecordsAreOld(lib)' /\ OneCardPerReader(lib)'
  BY <1>1 DEF Sound, SessionsKnown, RecordsAreOld, OneCardPerReader
<1>4. \A s \in SlotIds(lib') : SlotOK(lib, s)'
  BY <1>2 DEF Sound, SlotOK
<1>5. QED
  BY <1>1, <1>3, <1>4 DEF Sound

LEMMA AnswerKeeps ==
  ASSUME IInv, NEW w, Sound(w), Answer(w)
  PROVE  IInv'
<1>1. /\ lib' = w /\ open /\ open' = open /\ counter' = counter /\ inserted' = inserted
      /\ atomic' = atomic
  BY DEF Answer, Locked, readerVars, libraryVars
<1>2. Sound(lib)'
  BY <1>1, SoundPrimed
<1>3. TypeOK' /\ WatchingHasView'
  BY <1>1 DEF IInv, TypeOK, WatchingHasView, Answer, libraryVars, waitVars, Sound, ReadersTypeOK
<1>4. QED
  BY <1>1, <1>2, <1>3 DEF IInv

(* A call whose operators only follow the library's state.                   *)
LEMMA AnswerFollows ==
  ASSUME IInv, NEW w, Sound(w), Follows(lib, w), Answer(w)
  PROVE  IInv' /\ SessionsEnd
<1>1. lib' = w
  BY DEF Answer
<1>2. QED
  BY <1>1, AnswerKeeps, FollowsEnds

LEMMA AnswerSameCards ==
  ASSUME IInv, NEW w, Sound(w), SameCards(lib, w), Answer(w)
  PROVE  IInv' /\ SessionsEnd
<1>1. lib' = w
  BY DEF Answer
<1>2. QED
  BY <1>1, AnswerKeeps, SameCardsEnds

LEMMA LibraryUnchanged ==
  ASSUME Sound(lib), lib' = lib, counter' = counter, atomic' = atomic
  PROVE  Sound(lib)' /\ SessionsEnd
<1>1. Sound(lib')
  BY Zenon
<1>2. SameCards(lib, lib')
  BY DEF SameCards
<1>3. QED
  BY <1>1, <1>2, SoundPrimed, SameCardsEnds

LEMMA EmptySound ==
  ASSUME NEW retry \in 0 .. MaxRetry, NEW polled \in Views,
         \A r \in Readers : polled[r] <= counter[r]
  PROVE  /\ Sound([slots |-> <<>>, sessions |-> [h \in Handles |-> NoSession],
                   polled |-> polled, retry |-> retry])
         /\ SlotIds([slots |-> <<>>, sessions |-> [h \in Handles |-> NoSession],
                     polled |-> polled, retry |-> retry]) = {}
<1> DEFINE w == [slots |-> <<>>, sessions |-> [h \in Handles |-> NoSession],
                 polled |-> polled, retry |-> retry]
<1>1. /\ w.slots = <<>> /\ w.sessions = [h \in Handles |-> NoSession]
      /\ w.polled = polled
  OBVIOUS
<1>2. w \in World
  <2>1. <<>> \in Seq(Slot)
    OBVIOUS
  <2>2. [h \in Handles |-> NoSession] \in [Handles -> Session \cup {NoSession}]
    OBVIOUS
  <2>3. QED
    BY <2>1, <2>2 DEF World
<1> HIDE DEF w
<1>3. SlotIds(w) = {} /\ Len(w.slots) = 0 /\ Listed(w) = {}
  BY <1>1 DEF SlotIds, Listed
<1>4. SessionsKnown(w) /\ RecordsAreOld(w) /\ OneCardPerReader(w)
  BY <1>1, <1>3, FS_EmptySet DEF SessionsKnown, RecordsAreOld, OneCardPerReader
<1>5. Sound(w)
  BY <1>2, <1>3, <1>4, SlotsAssumption DEF Sound
<1>6. QED
  BY <1>3, <1>5 DEF w

LEMMA CardMovesStep ==
  ASSUME IInv, CardMoves
  PROVE  IInv' /\ SessionsEnd
<1>1. /\ lib' = lib /\ open' = open /\ atomic' = atomic
      /\ counter \in Views /\ inserted \in [Readers -> Kinds \cup {NoCard}]
      /\ lib \in World /\ Sound(lib)
  BY DEF CardMoves, libraryVars, IInv, TypeOK, ReadersTypeOK
<1>2. PICK r \in Readers : (\E k \in Kinds : Insert(r, k)) \/ Remove(r)
  BY DEF CardMoves
<1>3. counter' = [counter EXCEPT ![r] = @ + 1] /\ counter[r] < MaxEvents
  BY <1>2 DEF Insert, Remove
<1>4. /\ counter' \in Views
      /\ \A q \in Readers : /\ counter[q] \in Nat /\ counter'[q] \in Nat
                            /\ counter[q] <= counter'[q]
                            /\ counter'[q] # counter[q] => counter[q] < counter'[q]
  BY <1>1, <1>3, ReadersAssumption DEF Views, Counters
<1>5. inserted' \in [Readers -> Kinds \cup {NoCard}]
  BY <1>1, <1>2 DEF Insert, Remove
<1>6. ASSUME NEW s \in SlotIds(lib) PROVE SlotOK(lib, s)'
  <2>1. SlotOK(lib, s) /\ lib.slots[s] \in Slot
    BY <1>1, SlotFacts DEF Sound
  <2> DEFINE q == lib.slots[s].reader
             card == lib.slots[s].p11card
  <2>2. q \in Readers /\ card \in Nat /\ lib.polled[q] \in Nat
    <3>1. q \in Readers /\ card \in Nat
      BY <2>1, ReadersAssumption DEF Slot, Counters
    <3>2. lib.polled \in Views
      BY <1>1, WorldFields
    <3>3. QED
      BY <3>1, <3>2, ReadersAssumption DEF Views, Counters
  <2>3. card # 0 => card <= lib.polled[q] /\ lib.polled[q] <= counter[q]
    BY <1>1, <2>1, <2>2 DEF SlotOK, Sound, RecordsAreOld
  <2>4. card # 0 /\ card # counter[q] => card # counter'[q]
    BY <1>4, <2>2, <2>3
  <2>5. (SessionsOf(lib, s))' = SessionsOf(lib, s)
    BY <1>1 DEF SessionsOf, Listed
  <2>6. QED
    BY <1>1, <2>1, <2>4, <2>5 DEF SlotOK
<1>7. /\ (SlotIds(lib))' = SlotIds(lib) /\ (Listed(lib))' = Listed(lib)
  BY <1>1 DEF SlotIds, Listed
<1>8. RecordsAreOld(lib)'
  <2>1. \A q \in Readers : lib.polled[q] \in Nat /\ lib.polled[q] <= counter[q]
    BY <1>1, ReadersAssumption DEF Sound, RecordsAreOld, World, Views, Counters
  <2>2. QED
    BY <1>1, <1>4, <2>1 DEF RecordsAreOld
<1>9. SessionsKnown(lib)' /\ OneCardPerReader(lib)'
  BY <1>1, <1>7 DEF Sound, SessionsKnown, OneCardPerReader
<1>10. Sound(lib)'
  BY <1>1, <1>6, <1>7, <1>8, <1>9 DEF Sound
<1>11. TypeOK' /\ WatchingHasView'
  BY <1>1, <1>4, <1>5 DEF IInv, TypeOK, WatchingHasView, CardMoves, libraryVars, waitVars, ReadersTypeOK
<1>12. SessionsEnd
  <2>1. SameCards(lib, lib')
    BY <1>1 DEF SameCards
  <2>2. QED
    BY <2>1, SameCardsEnds
<1>13. QED
  BY <1>1, <1>7, <1>10, <1>11, <1>12 DEF IInv

LEMMA InitializeStep ==
  ASSUME IInv, C_Initialize
  PROVE  IInv' /\ SessionsEnd
<1> DEFINE w == [Emptied(lib.retry) EXCEPT !.polled = counter]
<1>1. /\ ~open /\ open' = TRUE /\ lib' = CardDetectAll(w) /\ lib \in World
      /\ ReadersTypeOK /\ SlotIds(lib) = {} /\ counter' = counter /\ inserted' = inserted
  BY DEF C_Initialize, IInv, TypeOK, readerVars
<1>2. lib.retry \in 0 .. MaxRetry /\ counter \in Views
  BY <1>1, WorldFields DEF ReadersTypeOK
<1>3. w = [slots |-> <<>>, sessions |-> [h \in Handles |-> NoSession],
           polled |-> counter, retry |-> lib.retry]
  BY DEF Emptied
<1> HIDE DEF w
<1>4. Sound(w) /\ SlotIds(w) = {}
  <2>1. \A r \in Readers : counter[r] <= counter[r]
    BY <1>2, ReadersAssumption DEF Views, Counters
  <2>2. QED
    BY <1>2, <1>3, <2>1, EmptySound
<1>5. Sound(lib') /\ Follows(w, lib')
  BY <1>1, <1>4, CardDetectAllSound
<1>6. \A s \in SlotIds(lib') : lib'.slots[s].login_user = "none"
  BY <1>4, <1>5 DEF Follows
<1>7. (SlotIds(lib))' = SlotIds(lib') /\ (Listed(lib))' = Listed(lib')
  BY DEF SlotIds, Listed
<1>8. \A s : (SessionsOf(lib, s))' = SessionsOf(lib', s)
  BY <1>7 DEF SessionsOf
<1>9. Sound(lib)'
  <2>1. \A s \in SlotIds(lib') : SlotOK(lib, s)'
    BY <1>1, <1>5, <1>6, <1>8 DEF Sound, SlotOK
  <2>2. SessionsKnown(lib)' /\ RecordsAreOld(lib)' /\ OneCardPerReader(lib)'
    BY <1>1, <1>5, <1>7 DEF Sound, SessionsKnown, RecordsAreOld, OneCardPerReader
  <2>3. QED
    BY <1>5, <1>7, <2>1, <2>2 DEF Sound
<1>10. TypeOK' /\ WatchingHasView'
  <2>1. inits' \in 1 .. MaxInits /\ inits' \in 0 .. MaxInits
    BY Pkcs11Assumption DEF C_Initialize, IInv, TypeOK
  <2>2. atomic' \in BOOLEAN
    BY <2>1, Pkcs11Assumption DEF C_Initialize
  <2>3. inFinalize' \in BOOLEAN /\ lock' = lock /\ pc' = pc
        /\ readerStates' = readerStates /\ woke' = woke
    BY DEF C_Initialize, waitVars
  <2>4. lib' \in World
    BY <1>5 DEF Sound
  <2>5. QED
    BY <1>1, <2>1, <2>2, <2>3, <2>4 DEF IInv, TypeOK, WatchingHasView, ReadersTypeOK
<1>11. QED
  BY <1>1, <1>9, <1>10 DEF IInv, SessionsEnd

LEMMA FinalizeStep ==
  ASSUME IInv, C_Finalize
  PROVE  IInv' /\ SessionsEnd
<1>1. /\ lib' = Emptied(lib.retry) /\ lib \in World /\ open' = FALSE
      /\ counter' = counter /\ inserted' = inserted /\ atomic' = atomic
      /\ counter \in Views
  BY DEF C_Finalize, IInv, TypeOK, ReadersTypeOK, readerVars
<1>2. lib.retry \in 0 .. MaxRetry
  BY <1>1, WorldFields
<1>3. lib' = [slots |-> <<>>, sessions |-> [h \in Handles |-> NoSession],
              polled |-> NoView, retry |-> lib.retry]
  BY <1>1 DEF Emptied
<1>4. NoView \in Views /\ \A r \in Readers : NoView[r] <= counter[r]
  BY <1>1, ReadersAssumption DEF NoView, Views, Counters
<1>5. Sound(lib') /\ SlotIds(lib') = {}
  BY <1>2, <1>3, <1>4, EmptySound
<1>6. Sound(lib)'
  BY <1>1, <1>5, SoundPrimed
<1>7. TypeOK' /\ WatchingHasView'
  <2>1. lib' \in World
    BY <1>5 DEF Sound
  <2>2. /\ inFinalize' \in BOOLEAN /\ lock' = lock /\ inits' = inits
    BY DEF C_Finalize
  <2>3. /\ pc' \in Places /\ readerStates' \in Views \cup {<<>>}
        /\ woke' \in {"event", "cancelled"}
        /\ WatchingHasView'
    <3>1. CASE pc = "watching"
      BY <3>1 DEF C_Finalize, CancelWait, Places, IInv, TypeOK, WatchingHasView
    <3>2. CASE pc # "watching"
      BY <3>2 DEF C_Finalize, CancelWait, waitVars, IInv, TypeOK, WatchingHasView
    <3>3. QED
      BY <3>1, <3>2
  <2>4. QED
    BY <1>1, <2>1, <2>2, <2>3 DEF IInv, TypeOK, WatchingHasView, ReadersTypeOK
<1>8. SessionsEnd
  <2>1. \A h \in Handles : lib'.sessions[h] = NoSession
    BY <1>3
  <2>2. DOMAIN lib'.slots = {}
    BY <1>5 DEF SlotIds
  <2>3. QED
    BY <2>1, <2>2 DEF SessionsEnd, SessionsOf, Listed
<1>9. QED
  BY <1>5, <1>6, <1>7, <1>8 DEF IInv, SlotIds

-----------------------------------------------------------------------------
(* The slot calls.                                                           *)

LEMMA LibraryIsSound ==
  ASSUME IInv
  PROVE  Sound(lib) /\ lib \in World /\ ReadersTypeOK /\ counter \in Views
BY DEF IInv, TypeOK, WatchingHasView, ReadersTypeOK

LEMMA GetSlotInfoStep ==
  ASSUME IInv, NEW s \in SlotIds(lib), C_GetSlotInfo(s)
  PROVE  IInv' /\ SessionsEnd
<1> DEFINE all == CardDetectAll(lib)
           d == CardDetect(all, all.slots[s].reader, s)
           v == [d.w EXCEPT !.slots[s].present = TRUE]
           w == IF d.rv = "absent" THEN d.w ELSE v
<1>1. Sound(lib) /\ lib \in World /\ ReadersTypeOK /\ counter \in Views
  BY LibraryIsSound
<1>2. Sound(all) /\ Follows(lib, all) /\ all \in World
  BY <1>1, CardDetectAllSound DEF Sound
<1>3. Answer(w)
  BY DEF C_GetSlotInfo
<1> HIDE DEF all
<1>4. s \in SlotIds(all)
  BY <1>2 DEF Follows
<1>5. all.slots[s].reader \in Readers
  BY <1>2, <1>4, SlotFacts DEF Slot
<1>6. Sound(d.w) /\ Follows(all, d.w) /\ d.w \in World
  <2>1. Sound(d.w) /\ Follows(all, d.w)
    BY <1>1, <1>2, <1>4, <1>5, CardDetectSound
  <2>2. QED
    BY <2>1 DEF Sound
<1> HIDE DEF d
<1>7. s \in SlotIds(d.w) /\ Follows(lib, d.w)
  BY <1>1, <1>2, <1>4, <1>6, FollowsIsTransitive DEF Follows
<1>8. Sound(v) /\ Follows(d.w, v)
  BY <1>1, <1>6, <1>7, PresentedSound
<1> HIDE DEF v
<1>9. v \in World
  BY <1>8 DEF Sound
<1>10. Follows(lib, v)
  BY <1>1, <1>6, <1>7, <1>8, <1>9, FollowsIsTransitive
<1>11. Sound(w) /\ Follows(lib, w)
  BY <1>6, <1>7, <1>8, <1>10
<1> HIDE DEF w
<1>12. QED
  BY <1>3, <1>11, AnswerFollows

LEMMA GetTokenInfoStep ==
  ASSUME IInv, NEW s \in SlotIds(lib), C_GetTokenInfo(s)
  PROVE  IInv' /\ SessionsEnd
<1> DEFINE w == SlotGetToken(lib, s).w
<1>1. Sound(w) /\ Follows(lib, w)
  BY LibraryIsSound, SlotGetTokenSound
<1>2. Answer(w)
  BY DEF C_GetTokenInfo
<1> HIDE DEF w
<1>3. QED
  BY <1>1, <1>2, AnswerFollows

LEMMA InitTokenStep ==
  ASSUME IInv, NEW s \in SlotIds(lib), C_InitToken(s)
  PROVE  IInv' /\ SessionsEnd
<1> DEFINE t == SlotGetToken(lib, s).w
           gone == CardRemoved(t, lib.slots[s].reader)
           w == CardDetectAll(gone)
<1>1. Sound(lib) /\ lib \in World /\ ReadersTypeOK
  BY LibraryIsSound
<1>2. Sound(t) /\ Follows(lib, t)
  BY <1>1, SlotGetTokenSound
<1>3. Answer(w)
  BY DEF C_InitToken
<1> HIDE DEF t
<1>4. Sound(gone) /\ Follows(t, gone)
  BY <1>2, CardRemovedSound
<1> HIDE DEF gone
<1>5. Sound(w) /\ Follows(gone, w)
  BY <1>1, <1>4, CardDetectAllSound
<1> HIDE DEF w
<1>6. t \in World /\ gone \in World /\ w \in World
  BY <1>2, <1>4, <1>5 DEF Sound
<1>7. Follows(lib, gone)
  BY <1>1, <1>2, <1>4, <1>6, FollowsIsTransitive
<1>8. Follows(lib, w)
  BY <1>1, <1>5, <1>6, <1>7, FollowsIsTransitive
<1>9. QED
  BY <1>3, <1>5, <1>8, AnswerFollows

LEMMA CloseAllSessionsStep ==
  ASSUME IInv, NEW s \in SlotIds(lib), C_CloseAllSessions(s)
  PROVE  IInv' /\ SessionsEnd
<1> DEFINE t == SlotGetToken(lib, s)
           v == CloseAll(t.w, {s})
           w == IF t.rv = "ok" THEN v ELSE t.w
<1>1. Sound(lib) /\ lib \in World /\ ReadersTypeOK
  BY LibraryIsSound
<1>2. Sound(t.w) /\ Follows(lib, t.w)
  BY <1>1, SlotGetTokenSound
<1>3. Answer(w)
  BY DEF C_CloseAllSessions
<1> HIDE DEF t
<1>4. Sound(v) /\ Follows(t.w, v)
  BY <1>2, CloseAllSound
<1> HIDE DEF v
<1>5. t.w \in World /\ v \in World
  BY <1>2, <1>4 DEF Sound
<1>6. Follows(lib, v)
  BY <1>1, <1>2, <1>4, <1>5, FollowsIsTransitive
<1>7. Sound(w) /\ Follows(lib, w)
  BY <1>2, <1>4, <1>6
<1> HIDE DEF w
<1>8. QED
  BY <1>3, <1>7, AnswerFollows

LEMMA OpenSessionStep ==
  ASSUME IInv, NEW s \in SlotIds(lib), NEW h \in Handles, NEW rw \in BOOLEAN,
         C_OpenSession(s, h, rw)
  PROVE  IInv' /\ SessionsEnd
<1> DEFINE t == SlotGetToken(lib, s).w
           w == SessionOpened(t, s, h, rw)
<1>1. Sound(lib) /\ lib \in World /\ ReadersTypeOK /\ h \notin Listed(lib)
  BY LibraryIsSound DEF C_OpenSession
<1>2. Sound(t) /\ Follows(lib, t)
  BY <1>1, SlotGetTokenSound
<1>3. Answer(w) /\ lib' = w
  BY DEF C_OpenSession, Answer, SessionOpened
<1> HIDE DEF t
<1>4. s \in SlotIds(t) /\ h \notin Listed(t)
  BY <1>1, <1>2 DEF Follows, Listed
<1>5. /\ Sound(w) /\ OnlySlot(t, w, s)
      /\ w.slots[s].login_user = t.slots[s].login_user
      /\ \A g \in Handles : g # h => w.sessions[g] = t.sessions[g]
  BY <1>2, <1>4, OpenedSound
<1> HIDE DEF w
<1>6. IInv'
  BY <1>3, <1>5, AnswerKeeps
<1>7. SessionsEnd
  <2>1. \A r \in SlotIds(t) : /\ w.slots[r].p11card = t.slots[r].p11card
                              /\ w.slots[r].login_user = t.slots[r].login_user
    BY <1>5 DEF OnlySlot
  <2>2. \A r \in SlotIds(lib) : h \notin SessionsOf(lib, r) /\ SessionsOf(lib, r) \subseteq Handles
    BY <1>1 DEF SessionsOf, Listed
  <2>3. ASSUME NEW r \in SlotIds(lib), lib.slots[r].p11card # 0,
               w.slots[r].p11card # lib.slots[r].p11card
        PROVE  /\ \A g \in SessionsOf(lib, r) : w.sessions[g] = NoSession
               /\ w.slots[r].login_user = "none"
    <3>1. r \in SlotIds(t) /\ Kept(lib, t, r)
      BY <1>2 DEF Follows
    <3>2. /\ \A g \in SessionsOf(lib, r) : t.sessions[g] = NoSession
          /\ t.slots[r].login_user = "none"
      BY <2>1, <2>3, <3>1 DEF Kept
    <3>3. QED
      BY <1>5, <2>1, <2>2, <3>1, <3>2
  <2>4. SlotIds(lib) \subseteq DOMAIN lib'.slots
    BY <1>2, <1>3, <1>5 DEF Follows, OnlySlot, SlotIds
  <2>5. QED
    BY <1>3, <2>3, <2>4 DEF SessionsEnd
<1>8. QED
  BY <1>6, <1>7

-----------------------------------------------------------------------------
(* The session calls.                                                        *)

LEMMA SessionOfSlot ==
  ASSUME NEW w, Sound(w), NEW h \in Listed(w)
  PROVE  /\ w.sessions[h].slot \in SlotIds(w)
         /\ h \in SessionsOf(w, w.sessions[h].slot)
BY DEF Sound, SessionsKnown, SessionsOf

LEMMA CloseSessionStep ==
  ASSUME IInv, NEW h \in Handles, C_CloseSession(h)
  PROVE  IInv' /\ SessionsEnd
<1> DEFINE w == SessionClosed(lib, h)
<1>1. Sound(lib) /\ h \in Listed(lib)
  BY LibraryIsSound DEF C_CloseSession
<1>2. Answer(w)
  BY DEF C_CloseSession, SessionClosed
<1>3. Sound(w) /\ SameCards(lib, w)
  BY <1>1, SessionClosedSound, OnlySlotCards
<1> HIDE DEF w
<1>4. QED
  BY <1>2, <1>3, AnswerSameCards

(* The slot of a session that is refused has no card, or one that is no      *)
(* longer inside.                                                            *)
LEMMA RefusedIsStale ==
  ASSUME NEW w, Sound(w), NEW s \in SlotIds(w), counter \in Views,
         w.slots[s].p11card # 0,
         LET r == w.slots[s].reader
         IN  ~Present(counter[r]) \/ Changed(r, w.polled[r], Handle(w, r))
  PROVE  w.slots[s].p11card # counter[w.slots[s].reader]
<1> DEFINE r == w.slots[s].reader
           card == w.slots[s].p11card
<1>1. w \in World /\ SlotOK(w, s) /\ w.slots[s] \in Slot
  BY SlotFacts DEF Sound
<1>2. Present(card) /\ card <= w.polled[r]
  BY <1>1 DEF SlotOK
<1>3. r \in Readers /\ card \in Nat /\ counter[r] \in Nat
  BY <1>1, ReadersAssumption DEF Slot, Views, Counters
<1>4. w.polled[r] \in Nat /\ w.polled[r] <= counter[r]
  <2>1. w.polled \in Views
    BY <1>1, WorldFields
  <2>2. QED
    BY <1>3, <2>1, ReadersAssumption DEF Views, Counters, Sound, RecordsAreOld
<1>5. Handle(w, r) = card
  <2> DEFINE first == FirstOf(SlotsOf(w, r))
  <2>1. s \in SlotsOf(w, r)
    BY DEF SlotsOf
  <2>2. first \in SlotsOf(w, r) /\ first <= s
    BY <1>1, <2>1, FirstIsLeast
  <2>3. Handle(w, r) = w.slots[first].p11card
    BY <2>1 DEF Handle
  <2> HIDE DEF first
  <2>4. w.slots[first].p11card = card
    BY <2>2 DEF SlotsOf, Sound, OneCardPerReader
  <2>5. QED
    BY <2>3, <2>4
<1>6. ~Present(counter[r]) \/ w.polled[r] # counter[r] \/ card # counter[r]
  BY <1>5 DEF Changed
<1> HIDE DEF r, card
<1>7. card # counter[r]
  BY <1>2, <1>3, <1>4, <1>6
<1>8. QED
  BY <1>7 DEF r, card

LEMMA GetSessionInfoStep ==
  ASSUME IInv, NEW h \in Handles, C_GetSessionInfo(h)
  PROVE  IInv' /\ SessionsEnd
<1> DEFINE s == lib.sessions[h].slot
           r == lib.slots[s].reader
           card == lib.slots[s].p11card
           seen == IF card = 0 THEN lib ELSE Refreshed(lib, r)
           valid == /\ card # 0
                    /\ Present(counter[r])
                    /\ ~Changed(r, lib.polled[r], Handle(lib, r))
           lost == LoginLost(seen, s)
           v == CloseAll(lost, {s})
           w == IF valid THEN seen ELSE v
<1>1. Sound(lib) /\ counter \in Views /\ lib \in World /\ h \in Listed(lib)
  BY LibraryIsSound DEF C_GetSessionInfo
<1>2. s \in SlotIds(lib)
  BY <1>1, SessionOfSlot
<1>3. Answer(w)
  BY DEF C_GetSessionInfo, LoginLost
<1> HIDE DEF s
<1>4. r \in Readers
  BY <1>1, <1>2, SlotFacts DEF Slot
<1>5. ~valid /\ card # 0 => card # counter[r]
  BY <1>1, <1>2, RefusedIsStale
<1>6. Sound(seen) /\ seen.slots = lib.slots
  BY <1>1, <1>4, RefreshedSound
<1> HIDE DEF valid, seen
<1>7. s \in SlotIds(seen)
  BY <1>2, <1>6 DEF SlotIds
<1>8. SameCards(lib, seen)
  BY <1>6 DEF SameCards, SlotIds
<1>9. CASE valid
  BY <1>3, <1>6, <1>8, <1>9, AnswerSameCards
<1>10. CASE ~valid
  <2>1. seen.slots[s].p11card # 0 => seen.slots[s].p11card # counter[seen.slots[s].reader]
    BY <1>5, <1>6, <1>10
  <2>2. Sound(lost) /\ OnlySlot(seen, lost, s)
    BY <1>6, <1>7, <2>1, LoginDropped
  <2>3. SameCards(seen, lost)
    BY <2>2, OnlySlotCards
  <2> HIDE DEF lost
  <2>4. Sound(v)
    BY <2>2, CloseAllSound
  <2>5. SameCards(lost, v)
    <3>1. /\ SlotIds(v) = SlotIds(lost)
          /\ \A t \in SlotIds(lost) : v.slots[t] =
               IF t \in {s} /\ SessionsOf(lost, t) # {} THEN Closed(lost, t) ELSE lost.slots[t]
      BY <2>2, ClosedWorld
    <3>2. \A t \in SlotIds(lost) : Closed(lost, t).p11card = lost.slots[t].p11card
      BY <2>2, ClosedKeepsCard
    <3>3. QED
      BY <3>1, <3>2 DEF SameCards
  <2> HIDE DEF v
  <2>6. SameCards(lib, v)
    BY <1>8, <2>3, <2>5 DEF SameCards
  <2>7. QED
    BY <1>3, <1>10, <2>4, <2>6, AnswerSameCards
<1>11. QED
  BY <1>9, <1>10

LEMMA ResetLoginSound ==
  ASSUME NEW w, Sound(w), NEW s \in SlotIds(w), NEW result
  PROVE  Sound(ResetLogin(w, s, result)) /\ SameCards(w, ResetLogin(w, s, result))
<1>1. CASE result = "notLoggedIn"
  <2>1. ResetLogin(w, s, result) = LoginReset(w, s)
    BY <1>1 DEF ResetLogin, LoginReset
  <2>2. QED
    BY <2>1, LoginForgotten, OnlySlotCards
<1>2. CASE result # "notLoggedIn"
  <2>1. ResetLogin(w, s, result) = w
    BY <1>2 DEF ResetLogin
  <2>2. QED
    BY <2>1 DEF SameCards
<1>3. QED
  BY <1>1, <1>2

LEMMA LeaveLockedStep ==
  ASSUME IInv, LeaveLocked
  PROVE  IInv' /\ SessionsEnd
<1>1. /\ lib' = lib /\ open' = open /\ atomic' = atomic
      /\ counter' = counter /\ inserted' = inserted
  BY DEF LeaveLocked, libraryVars, readerVars
<1>2. Sound(lib)' /\ SessionsEnd
  BY <1>1, LibraryIsSound, LibraryUnchanged
<1>3. TypeOK' /\ WatchingHasView'
  BY <1>1 DEF IInv, TypeOK, WatchingHasView, LeaveLocked, libraryVars, waitVars, ReadersTypeOK
<1>4. (SlotIds(lib))' = SlotIds(lib)
  BY <1>1 DEF SlotIds
<1>5. QED
  BY <1>1, <1>2, <1>3, <1>4 DEF IInv

LEMMA LoginStep ==
  ASSUME IInv, NEW h \in Handles, NEW user \in Users, C_Login(h, user)
  PROVE  IInv' /\ SessionsEnd
<1> DEFINE s == lib.sessions[h].slot
           slot == lib.slots[s]
<1>1. /\ Sound(lib) /\ h \in Listed(lib) /\ atomic \in BOOLEAN /\ slot.login_user = "none"
  BY LibraryIsSound DEF C_Login, IInv, TypeOK
<1>2. s \in SlotIds(lib) /\ SessionsOf(lib, s) # {}
  BY <1>1, SessionOfSlot
<1>3. CASE LeaveLocked
  BY <1>3, LeaveLockedStep
<1>4. ASSUME slot.p11card # 0,
             NEW replay \in Replays(slot), NEW verdict \in LoginVerdicts(slot, user),
             IF replay = "ok" /\ verdict = "ok"
             THEN Answer(LoggedIn(lib, s, user))
             ELSE Answer(ResetLogin(lib, s, IF replay = "ok" THEN verdict ELSE replay))
      PROVE  IInv' /\ SessionsEnd
  <2>1. CASE replay = "ok" /\ verdict = "ok"
    <3>1. slot.logins = <<>>
      <4>1. slot.logins # <<>> => slot.p11card # counter[slot.reader]
        BY <1>1, <1>2 DEF Sound, SlotOK
      <4>2. slot.logins # <<>> => replay = "failed"
        BY <1>4, <4>1 DEF Replays, Verdicts, Answers
      <4>3. QED
        BY <2>1, <4>2
    <3> DEFINE w == LoggedIn(lib, s, user)
    <3>2. Sound(w) /\ SameCards(lib, w)
      BY <1>1, <1>2, <1>4, <3>1, LoggedInSound, OnlySlotCards
    <3>3. Answer(w)
      BY <1>4, <2>1
    <3> HIDE DEF w
    <3>4. QED
      BY <3>2, <3>3, AnswerSameCards
  <2>2. CASE ~(replay = "ok" /\ verdict = "ok")
    <3> DEFINE result == IF replay = "ok" THEN verdict ELSE replay
               w == ResetLogin(lib, s, result)
    <3>1. Answer(w)
      BY <1>4, <2>2
    <3> HIDE DEF s, result
    <3>2. Sound(w) /\ SameCards(lib, w)
      BY <1>1, <1>2, ResetLoginSound
    <3> HIDE DEF w
    <3>3. QED
      BY <3>1, <3>2, AnswerSameCards
  <2>3. QED
    BY <2>1, <2>2
<1>5. QED
  BY <1>3, <1>4 DEF C_Login, LoggedIn

LEMMA LogoutStep ==
  ASSUME IInv, NEW h \in Handles, C_Logout(h)
  PROVE  IInv' /\ SessionsEnd
<1> DEFINE s == lib.sessions[h].slot
           w == LoginReset(lib, s)
<1>1. /\ Sound(lib) /\ h \in Listed(lib) /\ open /\ lib' = w /\ counter' = counter
      /\ inserted' = inserted /\ open' = open /\ atomic' = atomic
  BY LibraryIsSound
     DEF C_Logout, LoginReset, Locked, readerVars, libraryVars
<1>2. s \in SlotIds(lib)
  BY <1>1, SessionOfSlot
<1> HIDE DEF s
<1>3. Sound(w) /\ SameCards(lib, w)
  BY <1>1, <1>2, LoginForgotten, OnlySlotCards
<1> HIDE DEF w
<1>4. Sound(lib)' /\ SessionsEnd
  BY <1>1, <1>3, SoundPrimed, SameCardsEnds
<1>5. TypeOK' /\ WatchingHasView'
  <2>1. lock' \in {"free", "stuck"}
    BY DEF C_Logout, IInv, TypeOK
  <2>2. w \in World
    BY <1>3 DEF Sound
  <2>3. QED
    BY <1>1, <2>1, <2>2 DEF IInv, TypeOK, WatchingHasView, C_Logout, libraryVars, waitVars, ReadersTypeOK
<1>6. QED
  BY <1>1, <1>4, <1>5 DEF IInv

LEMMA CardCommandStep ==
  ASSUME IInv, NEW h \in Handles, CardCommand(h)
  PROVE  IInv' /\ SessionsEnd
<1> DEFINE s == lib.sessions[h].slot
<1>1. Sound(lib) /\ h \in Listed(lib)
  BY LibraryIsSound DEF CardCommand
<1>2. s \in SlotIds(lib)
  BY <1>1, SessionOfSlot
<1>3. PICK result : Answer(ResetLogin(lib, s, result))
  BY DEF CardCommand
<1> DEFINE w == ResetLogin(lib, s, result)
<1> HIDE DEF s
<1>4. Sound(w) /\ SameCards(lib, w)
  BY <1>1, <1>2, ResetLoginSound
<1>5. Answer(w)
  BY <1>3
<1> HIDE DEF w
<1>6. QED
  BY <1>4, <1>5, AnswerSameCards

LEMMA SetPINStep ==
  ASSUME IInv, NEW h \in Handles, C_SetPIN(h)
  PROVE  IInv' /\ SessionsEnd
<1> DEFINE s == lib.sessions[h].slot
<1>1. Sound(lib) /\ h \in Listed(lib)
  BY LibraryIsSound DEF C_SetPIN
<1>2. s \in SlotIds(lib)
  BY <1>1, SessionOfSlot
<1>3. CASE LeaveLocked
  BY <1>3, LeaveLockedStep
<1>4. ASSUME NEW result, Answer(ResetLogin(lib, s, result))
      PROVE  IInv' /\ SessionsEnd
  <2> DEFINE w == ResetLogin(lib, s, result)
  <2> HIDE DEF s
  <2>1. Sound(w) /\ SameCards(lib, w)
    BY <1>1, <1>2, ResetLoginSound
  <2>2. Answer(w)
    BY <1>4
  <2> HIDE DEF w
  <2>3. QED
    BY <2>1, <2>2, AnswerSameCards
<1>5. QED
  BY <1>3, <1>4 DEF C_SetPIN

-----------------------------------------------------------------------------
(* The wait for a slot event.                                                *)

LEMMA BeginWaitStep ==
  ASSUME IInv, BeginWait \/ RelockChanged
  PROVE  IInv' /\ SessionsEnd
<1> DEFINE w == SlotFindChanged(lib).w
<1>1. /\ lib' = w /\ open /\ open' = open /\ atomic' = atomic
      /\ counter' = counter /\ inserted' = inserted
  BY DEF BeginWait, RelockChanged, Locked, readerVars, libraryVars
<1>2. Sound(w) /\ Follows(lib, w)
  BY LibraryIsSound, SlotFindChangedSound
<1> HIDE DEF w
<1>3. Sound(lib)' /\ SessionsEnd
  BY <1>1, <1>2, SoundPrimed, FollowsEnds
<1>4. TypeOK' /\ WatchingHasView'
  <2>1. w \in World
    BY <1>2 DEF Sound
  <2>2. /\ pc' \in Places /\ pc' # "watching"
        /\ readerStates' \in Views \cup {<<>>} /\ woke' \in {"event", "cancelled"}
    BY DEF BeginWait, RelockChanged, Returned, Places, IInv, TypeOK
  <2>3. lock' = lock /\ inFinalize' = inFinalize /\ inits' = inits
    BY DEF BeginWait, RelockChanged, libraryVars
  <2>4. QED
    BY <1>1, <2>1, <2>2, <2>3 DEF IInv, TypeOK, WatchingHasView, ReadersTypeOK
<1>5. QED
  BY <1>1, <1>3, <1>4 DEF IInv

LEMMA InterruptedStep ==
  ASSUME IInv, Interrupted
  PROVE  IInv' /\ SessionsEnd
<1>1. /\ lib' = lib /\ open' = open /\ atomic' = atomic
      /\ counter' = counter /\ inserted' = inserted
      /\ lock' = lock /\ inFinalize' = inFinalize /\ inits' = inits
  BY DEF Interrupted, Watch, Wake, CheckFinalize, RelockInterrupted, readerVars, libraryVars
<1>2. Sound(lib)' /\ SessionsEnd
  BY <1>1, LibraryIsSound, LibraryUnchanged
<1>3. /\ pc' \in Places /\ readerStates' \in Views \cup {<<>>}
      /\ woke' \in {"event", "cancelled"}
      /\ pc' = "watching" => readerStates' \in Views
  <2>1. /\ pc \in Places /\ readerStates \in Views \cup {<<>>} /\ woke \in {"event", "cancelled"}
        /\ counter \in Views /\ lib.polled \in Views
    BY LibraryIsSound, WorldFields DEF IInv, TypeOK
  <2>2. CASE Watch
    <3> DEFINE view == IF readerStates = <<>> THEN lib.polled ELSE readerStates
               p == Poll(view)
    <3>1. view \in Views
      BY <2>1
    <3>2. p.view \in Views
      BY <2>1, <3>1, PollType
    <3>3. \/ readerStates' = p.view /\ woke' = "event" /\ pc' \in {"watching", "woken"}
          \/ pc' = "undefined" /\ UNCHANGED <<readerStates, woke>>
      BY <2>2 DEF Watch
    <3> HIDE DEF p
    <3>4. QED
      BY <2>1, <3>2, <3>3 DEF Places
  <2>3. CASE Wake
    <3>1. readerStates # <<>> => Poll(readerStates).view \in Views
      BY <2>1, PollType
    <3>2. readerStates # <<>>
      <4>1. pc = "watching"
        BY <2>3 DEF Wake
      <4>2. QED
        BY <4>1, ReadersAssumption DEF IInv, WatchingHasView, Views, Readers
    <3>3. readerStates' = Poll(readerStates).view /\ woke' = woke /\ pc' \in {pc, "woken"}
      BY <2>3 DEF Wake
    <3>4. QED
      BY <2>1, <3>1, <3>2, <3>3 DEF Places
  <2>4. CASE CheckFinalize \/ RelockInterrupted
    BY <2>1, <2>4 DEF CheckFinalize, RelockInterrupted, Returned, Places
  <2>5. QED
    BY <2>2, <2>3, <2>4 DEF Interrupted
<1>4. (SlotIds(lib))' = SlotIds(lib)
  BY <1>1 DEF SlotIds
<1>5. TypeOK' /\ WatchingHasView'
  BY <1>1, <1>3 DEF IInv, TypeOK, WatchingHasView, ReadersTypeOK
<1>6. QED
  BY <1>1, <1>2, <1>4, <1>5 DEF IInv

-----------------------------------------------------------------------------
(* The invariant holds, and with it what the runs check.                     *)

LEMMA InitSound == Init => IInv
<1> SUFFICES ASSUME Init PROVE IInv
  OBVIOUS
<1>1. /\ lib = [slots |-> <<>>, sessions |-> [h \in Handles |-> NoSession],
                polled |-> NoView, retry |-> MaxRetry]
      /\ counter = [r \in Readers |-> 0] /\ inserted = [r \in Readers |-> NoCard]
  BY DEF Init, Emptied, ReadersInit
<1>2. /\ MaxRetry \in 0 .. MaxRetry /\ NoView \in Views
      /\ \A r \in Readers : NoView[r] <= counter[r]
  BY <1>1, ReadersAssumption, SlotsAssumption DEF NoView, Views, Counters
<1>3. Sound(lib) /\ SlotIds(lib) = {}
  BY <1>1, <1>2, EmptySound
<1>4. ReadersTypeOK
  BY <1>1, ReadersAssumption DEF ReadersTypeOK, Views, Counters
<1>5. TypeOK
  <2>1. lib \in World /\ inits \in 0 .. MaxInits
    BY <1>3, Pkcs11Assumption DEF Sound, Init
  <2>2. /\ open \in BOOLEAN /\ inFinalize \in BOOLEAN /\ atomic \in BOOLEAN
        /\ lock = "free" /\ pc = "idle" /\ readerStates = <<>> /\ woke = "event"
    BY DEF Init
  <2>3. QED
    BY <1>4, <2>1, <2>2 DEF TypeOK, Places
<1>6. QED
  BY <1>3, <1>5 DEF IInv, WatchingHasView, Init

LEMMA SlotCallStep ==
  ASSUME IInv, SlotCall
  PROVE  IInv' /\ SessionsEnd
<1> PICK s \in SlotIds(lib) :
        \/ C_GetSlotInfo(s)
        \/ C_GetTokenInfo(s)
        \/ C_InitToken(s)
        \/ C_CloseAllSessions(s)
        \/ \E h \in Handles : \E rw \in SessionFlags[h] : C_OpenSession(s, h, rw)
  BY DEF SlotCall
<1>1. CASE C_GetSlotInfo(s)
  BY <1>1, GetSlotInfoStep
<1>2. CASE C_GetTokenInfo(s)
  BY <1>2, GetTokenInfoStep
<1>3. CASE C_InitToken(s)
  BY <1>3, InitTokenStep
<1>4. CASE C_CloseAllSessions(s)
  BY <1>4, CloseAllSessionsStep
<1>5. ASSUME NEW h \in Handles, NEW rw \in SessionFlags[h], C_OpenSession(s, h, rw)
      PROVE  IInv' /\ SessionsEnd
  <2>1. rw \in BOOLEAN
    BY Pkcs11Assumption
  <2>2. QED
    BY <1>5, <2>1, OpenSessionStep
<1>6. QED
  BY <1>1, <1>2, <1>3, <1>4, <1>5

LEMMA SessionCallStep ==
  ASSUME IInv, SessionCall
  PROVE  IInv' /\ SessionsEnd
<1> PICK h \in Handles :
        \/ C_CloseSession(h)
        \/ C_GetSessionInfo(h)
        \/ \E user \in Users : C_Login(h, user)
        \/ C_Logout(h)
        \/ CardCommand(h)
        \/ C_SetPIN(h)
  BY DEF SessionCall
<1>1. CASE C_CloseSession(h)
  BY <1>1, CloseSessionStep
<1>2. CASE C_GetSessionInfo(h)
  BY <1>2, GetSessionInfoStep
<1>3. CASE \E user \in Users : C_Login(h, user)
  BY <1>3, LoginStep
<1>4. CASE C_Logout(h)
  BY <1>4, LogoutStep
<1>5. CASE CardCommand(h)
  BY <1>5, CardCommandStep
<1>6. CASE C_SetPIN(h)
  BY <1>6, SetPINStep
<1>7. QED
  BY <1>1, <1>2, <1>3, <1>4, <1>5, <1>6

LEMMA NextSound ==
  ASSUME IInv, [Next]_vars
  PROVE  IInv' /\ SessionsEnd
<1>1. CASE CardMoves
  BY <1>1, CardMovesStep
<1>2. CASE C_Initialize
  BY <1>2, InitializeStep
<1>3. CASE C_Finalize
  BY <1>3, FinalizeStep
<1>4. CASE C_GetSlotList
  <2> DEFINE w == CardDetectAll(lib)
  <2>1. Sound(w) /\ Follows(lib, w)
    BY LibraryIsSound, CardDetectAllSound
  <2>2. Answer(w)
    BY <1>4 DEF C_GetSlotList
  <2> HIDE DEF w
  <2>3. QED
    BY <2>1, <2>2, AnswerFollows
<1>5. CASE PollSlotEvent
  <2> DEFINE w == SlotFindChanged(lib).w
  <2>1. Sound(w) /\ Follows(lib, w)
    BY LibraryIsSound, SlotFindChangedSound
  <2>2. Answer(w)
    BY <1>5 DEF PollSlotEvent
  <2> HIDE DEF w
  <2>3. QED
    BY <2>1, <2>2, AnswerFollows
<1>6. CASE SlotCall
  BY <1>6, SlotCallStep
<1>7. CASE SessionCall
  BY <1>7, SessionCallStep
<1>8. CASE BeginWait \/ RelockChanged
  BY <1>8, BeginWaitStep
<1>9. CASE Interrupted
  BY <1>9, InterruptedStep
<1>10. CASE UNCHANGED vars
  <2>1. /\ lib' = lib /\ open' = open /\ atomic' = atomic
        /\ counter' = counter /\ inserted' = inserted
        /\ lock' = lock /\ inFinalize' = inFinalize /\ inits' = inits
        /\ pc' = pc /\ readerStates' = readerStates /\ woke' = woke
    BY <1>10 DEF vars, readerVars, libraryVars, waitVars
  <2>2. Sound(lib)' /\ SessionsEnd
    BY <2>1, LibraryIsSound, LibraryUnchanged
  <2>3. TypeOK' /\ WatchingHasView' /\ (SlotIds(lib))' = SlotIds(lib)
    BY <2>1 DEF IInv, TypeOK, WatchingHasView, ReadersTypeOK, SlotIds
  <2>4. QED
    BY <2>1, <2>2, <2>3 DEF IInv
<1>11. QED
  BY <1>1, <1>2, <1>3, <1>4, <1>5, <1>6, <1>7, <1>8, <1>9, <1>10 DEF Next

(* The library's state stays as the calls of this module expect it: the slots*)
(* of a reader that have a card come first and share it, a card a slot has   *)
(* was recorded by the driver, every session listed is counted by its slot.  *)
THEOREM LibraryStaysSound == Spec => []IInv
<1>1. Init => IInv
  BY InitSound
<1>2. IInv /\ [Next]_vars => IInv'
  BY NextSound
<1>3. QED
  BY <1>1, <1>2, PTL DEF Spec

(* Every variable keeps its type, whatever calls are made and whatever cards *)
(* come and go between them.                                                 *)
THEOREM TypeCorrect == Spec => []TypeOK
<1>1. IInv => TypeOK
  BY DEF IInv
<1>2. QED
  BY <1>1, LibraryStaysSound, PTL

(* A slot's counter is the number of sessions listed for it: no path that    *)
(* opens or closes sessions loses one, so the last close logs out.           *)
THEOREM SessionsCounted == Spec => []SessionsAreCounted
<1>1. IInv => SessionsAreCounted
  BY DEF IInv, Sound, SlotOK, SessionsAreCounted
<1>2. QED
  BY <1>1, LibraryStaysSound, PTL

(* A login exists only while a session and a card do: C_Logout and the close *)
(* of the last session never meet a slot that has lost its card.             *)
THEOREM LoginHasCard == Spec => []LoginNeedsCard
<1>1. IInv => LoginNeedsCard
  BY DEF IInv, Sound, SlotOK, LoginNeedsCard
<1>2. QED
  BY <1>1, LibraryStaysSound, PTL

(* In atomic mode the logins replayed before a command are those of the user *)
(* who is logged in, although a session whose card was exchanged leaves the  *)
(* logins of the user before it.                                             *)
THEOREM ReplaysOwnLogin == Spec => []ReplaysCurrentLogin
<1>1. IInv => ReplaysCurrentLogin
  BY DEF IInv, Sound, SlotOK, ReplaysCurrentLogin
<1>2. QED
  BY <1>1, LibraryStaysSound, PTL

(* Whatever call notices that a slot's card is gone or replaced, no session  *)
(* of the slot and no login survives the step.                               *)
THEOREM CardChangeEnds == Spec => CardChangeEndsSessions
<1>1. IInv /\ [Next]_vars => [SessionsEnd]_vars
  BY NextSound
<1>2. Spec => [][SessionsEnd]_vars
  BY <1>1, LibraryStaysSound, PTL DEF Spec
<1>3. QED
  BY <1>2 DEF CardChangeEndsSessions, SessionsEnd

=============================================================================
