-------------------------- MODULE SymmetricStreams --------------------------
(* C_Encrypt* and C_Decrypt* with an AES key of a MyEID card.  The PKCS#11   *)
(* layer keeps one operation per session and kind; what has been given and   *)
(* not yet been processed is kept by the card driver, once for the card, and *)
(* the key, the IV and the chaining are the card's security environment,     *)
(* which is set by the Init call and used by the calls after it.             *)
EXTENDS Integers, Sequences

CONSTANTS
    Streams,      \* the encryptions and decryptions of all sessions
    Decryptions,  \* those of them that decrypt
    BlockSize,    \* bytes of a block (16)
    Foreign,      \* another application's security environment
    NoEnv,
    NoBlock,
    OtherMode,    \* the algorithm of a signature in the driver's data
    MaxBytes,     \* bound: bytes given to a stream
    Parts         \* bound: lengths of the parts given

VARIABLES
    op,       \* stream -> its operation, NoOperation when there is none
    driver,   \* the private data of the card driver
    card      \* the card's security environment and chaining, the PIN's status

vars == <<op, driver, card>>

Modes == {"ECB", "CBC", "CBC_PAD"}

(* mode is what Init asked for; the rest is history: the bytes given since,  *)
(* the texts handed out, and what has befallen the stream.  "short": a part  *)
(* completed no block where bytes were held.  "crossed": another operation   *)
(* of this process used the driver, another process used the card, or a PIN  *)
(* was asked for while bytes were held; its texts are no longer recorded.    *)
NoOperation == [phase |-> "idle", mode |-> "ECB", given |-> 0, out |-> <<>>,
                fate |-> "whole"]

Started(m) == [NoOperation EXCEPT !.phase = "open", !.mode = m]

Open == {s \in Streams : op[s].phase = "open"}

-----------------------------------------------------------------------------
(* Data.  A byte is named by its stream and its place, 0 for padding; those  *)
(* of crossed streams are not told apart.  A text is a block the card made,  *)
(* named by what it was made from.                                           *)

Bytes(s, n) == [i \in 1 .. n |-> <<s, i>>]
Part(s, n) ==
    [i \in 1 .. n |-> IF op[s].fate = "crossed" THEN <<Foreign, 0>> ELSE <<s, op[s].given + i>>]
Padding(s, n) == [i \in 1 .. n |-> <<s, 0>>]

Byte == (Streams \cup {Foreign}) \X Nat
Block == {b \in Seq(Byte) : Len(b) = BlockSize}
Text == [env : Streams \cup {Foreign, NoEnv}, prior : Seq(Block), block : Block]

ASSUME SymmetricStreamsAssumption ==
    /\ Decryptions \subseteq Streams
    /\ BlockSize \in Nat \ {0}
    /\ Foreign \notin Streams /\ NoEnv \notin Streams \cup {Foreign}
    /\ NoBlock \notin Text
    /\ MaxBytes \in Nat
    /\ Parts \subseteq Nat \ {0}

Whole(n) == n - (n % BlockSize)
Cut(bytes) == [i \in 1 .. (Len(bytes) \div BlockSize) |->
                  SubSeq(bytes, (i - 1) * BlockSize + 1, i * BlockSize)]

(* What the next block depends on after these: in CBC all blocks so far when *)
(* encrypting, the last one when decrypting.                                 *)
Chained(m, s, chain, blocks) ==
    IF m = "ECB" \/ blocks = <<>> THEN chain
    ELSE IF s \in Decryptions THEN <<blocks[Len(blocks)]>> ELSE chain \o blocks

(* The texts a card with this environment makes of a sequence of blocks.     *)
Texts(env, m, s, chain, blocks) ==
    [i \in 1 .. Len(blocks) |->
        [env |-> env,
         prior |-> Chained(m, s, chain, SubSeq(blocks, 1, i - 1)),
         block |-> blocks[i]]]

-----------------------------------------------------------------------------
(* myeid_enc_dec_sym.  An answer has the driver and the card after the call, *)
(* the texts handed out and how many bytes they are.                         *)

Answer(a, d, c, texts, bytes) ==
    [answer |-> a, driver |-> d, card |-> c, texts |-> texts, bytes |-> bytes]

Refused(a, d, c) == Answer(a, d, c, <<>>, 0)

(* The blocks go to the card; before the first of them the driver takes what *)
(* it had kept out of its buffer.                                            *)
Processed(s, d, c, bytes) ==
    LET taken == [d EXCEPT !.crypt = <<>>]
        blocks == Cut(bytes)
    IN  IF bytes = <<>> THEN Answer("ok", d, c, <<>>, 0)
        ELSE IF c.env = NoEnv THEN Refused("error", taken, c)
        ELSE IF c.pin = "lost" THEN Refused("pin", taken, c)
        ELSE Answer("ok", taken, [c EXCEPT !.chain = Chained(d.mode, s, @, blocks)],
                    Texts(c.env, d.mode, s, c.chain, blocks), Len(bytes))

(* Mutants: what is left of a part is taken from its start, or is the part.  *)
RestFromStart(d, part) ==
    SubSeq(part, 1, (Len(d.crypt) + Len(part)) % BlockSize)

RestUncut(d, part) == part

(* "save rest of data for next run": the part's own bytes that were not      *)
(* processed, over whatever the buffer held.                                 *)
Rest(d, part) ==
    LET all == Len(d.crypt) + Len(part)
    IN  IF all < BlockSize THEN part
        ELSE SubSeq(part, Len(part) - (all % BlockSize) + 1, Len(part))

(* A part.  The last block deciphered is held back, and the one held before  *)
(* goes out first; a part that completes no block leaves none.               *)
Update(s, d, c, part) ==
    LET all == d.crypt \o part
        r == Processed(s, d, c, SubSeq(all, 1, Whole(Len(all))))
        n == Len(r.texts)
        kept == [r.driver EXCEPT !.crypt = Rest(d, part)]
        held == IF d.plain = NoBlock THEN <<>> ELSE <<d.plain>>
        shown == held \o SubSeq(r.texts, 1, n - 1)
    IN  IF r.answer # "ok" THEN r
        ELSE IF s \notin Decryptions THEN [r EXCEPT !.driver = kept]
        ELSE IF n = 0 THEN [r EXCEPT !.driver = [kept EXCEPT !.plain = NoBlock]]
        ELSE Answer("ok", [kept EXCEPT !.plain = r.texts[n]], r.card,
                    shown, Len(shown) * BlockSize)

(* The end of an encryption: the block that completes the padding.           *)
EncryptEnd(s, d, c) ==
    IF d.mode = "CBC_PAD"
    THEN Processed(s, d, c, d.crypt \o Padding(s, BlockSize - Len(d.crypt)))
    ELSE IF d.crypt # <<>> THEN Refused("error", d, c)
    ELSE Answer("ok", d, c, <<>>, 0)

(* What the padding of the last block deciphered may turn out to be.         *)
Pads(s) == IF s \in Decryptions THEN 0 .. BlockSize ELSE {0}

(* The end of a decryption: the block held back, without the pad bytes at    *)
(* its end; 0 stands for wrong padding.                                      *)
DecryptEnd(d, c, pad) ==
    IF d.plain = NoBlock \/ d.crypt # <<>> THEN Refused("error", d, c)
    ELSE IF d.mode # "CBC_PAD" THEN Answer("ok", d, c, <<d.plain>>, BlockSize)
    ELSE IF pad = 0 THEN Refused("error", d, c)
    ELSE Answer("ok", d, c, <<d.plain>>, BlockSize - pad)

(* One call: a part, or the end where there is none.                         *)
Call(s, d, c, part, pad) ==
    IF d.mode = OtherMode THEN Refused("error", d, c)
    ELSE IF part # <<>> THEN Update(s, d, c, part)
    ELSE IF s \in Decryptions THEN DecryptEnd(d, c, pad)
    ELSE EncryptEnd(s, d, c)

(* Mutant: the kept block is left out of the answer. *)
SizeOfPart(s, d, part, pad) == Whole(Len(part))

(* The answer of the same call without a buffer, -1 for an error.            *)
Size(s, d, part, pad) ==
    IF d.mode = OtherMode THEN -1
    ELSE IF part # <<>> THEN Whole(Len(d.crypt) + Len(part))
    ELSE IF s \in Decryptions THEN
        LET r == DecryptEnd(d, card, pad) IN IF r.answer = "ok" THEN r.bytes ELSE -1
    ELSE IF d.mode = "CBC_PAD" THEN BlockSize
    ELSE IF d.crypt # <<>> THEN -1 ELSE 0

(* sc_pkcs15_encrypt_sym and sc_pkcs15_decrypt_sym: where the card asks for  *)
(* the PIN and the cached one is accepted, the call is made once more.       *)
WithPin(s, d, c, part, pad, cached) ==
    LET r == Call(s, d, c, part, pad)
    IN  IF r.answer # "pin" THEN r
        ELSE IF cached
        THEN Call(s, r.driver, [r.card EXCEPT !.pin = "verified"], part, pad)
        ELSE [r EXCEPT !.answer = "error"]

(* What a call does to the stream that makes it.                             *)
Short(s, d, part) ==
    /\ part # <<>>
    /\ Len(d.crypt) + Len(part) < BlockSize
    /\ d.crypt # <<>> \/ (s \in Decryptions /\ d.plain # NoBlock)

AskedForPin(s, d, c, part, pad) ==
    d.crypt # <<>> /\ Call(s, d, c, part, pad).answer = "pin"

Fate(s, d, c, part, pad, fate) ==
    IF fate = "crossed" \/ AskedForPin(s, d, c, part, pad) THEN "crossed"
    ELSE IF Short(s, d, part) THEN "short" ELSE fate

-----------------------------------------------------------------------------
Init ==
    /\ op = [s \in Streams |-> NoOperation]
    /\ driver = [mode |-> OtherMode, crypt |-> <<>>, plain |-> NoBlock]
    /\ card = [env |-> NoEnv, chain |-> <<>>, pin |-> "verified"]

(* A stream is not told that something used what it shares; the record of a  *)
(* finished one is kept until then.                                          *)
Crossed(o) ==
    IF o.phase = "open" THEN [o EXCEPT !.mode = "ECB", !.out = <<>>, !.fate = "crossed"]
    ELSE NoOperation

AllCrossed == [s \in Streams |-> Crossed(op[s])]

(* The operation of s becomes o; the others are crossed where a call changed *)
(* the driver or the card.                                                   *)
Becomes(s, o) ==
    op' = [t \in Streams |->
              IF t = s THEN IF o.fate = "crossed" THEN Crossed(o) ELSE o
              ELSE IF <<driver, card>>' = <<driver, card>> THEN op[t]
              ELSE Crossed(op[t])]

(* C_EncryptInit, C_DecryptInit: the key file is selected, the environment   *)
(* set and the driver's buffers cleared, whatever other sessions had there.  *)
StreamInit(s, m) ==
    /\ op[s].phase # "open"
    /\ driver' = [mode |-> m, crypt |-> <<>>, plain |-> NoBlock]
    /\ card' = [card EXCEPT !.env = s, !.chain = <<>>]
    /\ Becomes(s, Started(m))

(* Init failing: selecting the key may have cost the card its environment,   *)
(* and the driver may have noted the mode before the card refused it.        *)
StreamInitFails(s, m) ==
    /\ op[s].phase # "open"
    /\ card' \in {card, [card EXCEPT !.env = NoEnv]}
    /\ driver' \in {driver, [driver EXCEPT !.mode = m]}
    /\ Becomes(s, NoOperation)

(* C_EncryptUpdate, C_DecryptUpdate with a buffer of the size reported: any  *)
(* error ends the operation.                                                 *)
StreamUpdate(s, n, cached) ==
    LET part == Part(s, n)
        r == WithPin(s, driver, card, part, 0, cached)
    IN  /\ op[s].phase = "open"
        /\ op[s].given + n <= MaxBytes
        /\ driver' = r.driver /\ card' = r.card
        /\ Becomes(s, IF r.answer # "ok" THEN NoOperation
                      ELSE [op[s] EXCEPT
                               !.given = @ + n, !.out = @ \o r.texts,
                               !.fate = Fate(s, driver, card, part, 0, @)])

(* C_EncryptFinal, C_DecryptFinal.                                           *)
StreamFinal(s, pad, cached) ==
    LET r == WithPin(s, driver, card, <<>>, pad, cached)
    IN  /\ op[s].phase = "open"
        /\ driver' = r.driver /\ card' = r.card
        /\ Becomes(s, IF r.answer # "ok" THEN NoOperation
                      ELSE [op[s] EXCEPT
                               !.phase = "done", !.out = @ \o r.texts,
                               !.fate = Fate(s, driver, card, <<>>, pad, @)])

(* Final without a buffer: an error ends the operation.                      *)
FinalSize(s, pad) ==
    /\ op[s].phase = "open"
    /\ Size(s, driver, <<>>, pad) < 0
    /\ op' = [op EXCEPT ![s] = NoOperation]
    /\ UNCHANGED <<driver, card>>

(* C_Encrypt, C_Decrypt: one part and the end under one lock.                *)
StreamWhole(s, n, pad, cached) ==
    LET part == Part(s, n)
        r == WithPin(s, driver, card, part, pad, cached)
        e == WithPin(s, r.driver, r.card, <<>>, pad, cached)
        last == IF r.answer = "ok" THEN e ELSE r
        fate == Fate(s, driver, card, part, pad, op[s].fate)
    IN  /\ op[s].phase = "open" /\ op[s].given = 0
        /\ n <= MaxBytes
        /\ driver' = last.driver /\ card' = last.card
        /\ Becomes(s, IF last.answer # "ok" THEN NoOperation
                      ELSE [op[s] EXCEPT
                               !.phase = "done", !.given = n,
                               !.out = @ \o r.texts \o e.texts,
                               !.fate = Fate(s, r.driver, r.card, <<>>, pad, fate)])

(* C_CloseSession: the operation is freed, the driver is not told.           *)
StreamClosed(s) ==
    /\ op[s].phase = "open"
    /\ op' = [op EXCEPT ![s] = NoOperation]
    /\ UNCHANGED <<driver, card>>

(* A signature or another use of an RSA or EC key by this process.           *)
UseOtherKey ==
    /\ driver' = [driver EXCEPT !.mode = OtherMode]
    /\ card' = [card EXCEPT !.env = NoEnv]
    /\ op' = AllCrossed

(* Between two calls the card is not locked, and another process may set its *)
(* own environment or reset the card, which takes the PIN's status with it.  *)
OtherApplication ==
    /\ \E env \in {Foreign, NoEnv}, pin \in {card.pin, "lost"} :
           card' = [card EXCEPT !.env = env, !.pin = pin]
    /\ op' = AllCrossed
    /\ UNCHANGED driver

(* The PIN's status is lost and the environment is not.                      *)
LosePin ==
    /\ card.pin = "verified"
    /\ card' = [card EXCEPT !.pin = "lost"]
    /\ UNCHANGED <<op, driver>>

Next ==
    \/ \E s \in Streams :
        \/ \E m \in Modes : StreamInit(s, m) \/ StreamInitFails(s, m)
        \/ \E n \in Parts, cached \in BOOLEAN : StreamUpdate(s, n, cached)
        \/ \E pad \in Pads(s), cached \in BOOLEAN : StreamFinal(s, pad, cached)
        \/ \E pad \in Pads(s) : FinalSize(s, pad)
        \/ \E n \in Parts, pad \in Pads(s), cached \in BOOLEAN :
               StreamWhole(s, n, pad, cached)
        \/ StreamClosed(s)
    \/ UseOtherKey
    \/ OtherApplication
    \/ LosePin

Spec == Init /\ [][Next]_vars

-----------------------------------------------------------------------------
Operation ==
    [phase : {"idle", "open", "done"}, mode : Modes, given : 0 .. MaxBytes,
     out : Seq(Text), fate : {"whole", "short", "crossed"}]

Driver ==
    {d \in [mode : Modes \cup {OtherMode}, crypt : Seq(Byte), plain : Text \cup {NoBlock}] :
        Len(d.crypt) < BlockSize}

Card ==
    [env : Streams \cup {Foreign, NoEnv}, chain : Seq(Block), pin : {"verified", "lost"}]

(* The driver keeps less than a block of what it was given, and the card     *)
(* processes whole blocks.                                                   *)
TypeOK == op \in [Streams -> Operation] /\ driver \in Driver /\ card \in Card

(* What the card should have made of the whole of a stream so far, the       *)
(* padding included once it is finished.                                     *)
Due(s) ==
    LET padding == IF op[s].phase = "done" /\ op[s].mode = "CBC_PAD" /\ s \notin Decryptions
                   THEN Padding(s, BlockSize - (op[s].given % BlockSize)) ELSE <<>>
    IN  Texts(s, op[s].mode, s, <<>>, Cut(Bytes(s, op[s].given) \o padding))

(* A stream that nothing befell is what one call over all its bytes would    *)
(* have made: under its own key and IV, chained in order, no byte lost or    *)
(* repeated at any place the parts were cut.  A decryption in progress lags  *)
(* by the block held back, and a finished one has delivered it.              *)
StreamsAreWhole ==
    \A s \in Streams : op[s].fate = "whole" =>
        /\ op[s].phase = "open" =>
             op[s].out = IF s \in Decryptions /\ Due(s) # <<>>
                         THEN SubSeq(Due(s), 1, Len(Due(s)) - 1) ELSE Due(s)
        /\ op[s].phase = "done" =>
             /\ op[s].out = Due(s)
             /\ s \in Decryptions \/ op[s].mode # "CBC_PAD" =>
                  op[s].given % BlockSize = 0

(* The size a call without a buffer reports holds what the same call would   *)
(* then deliver, padding and the blocks held back by earlier calls included. *)
SizesSuffice ==
    \A s \in Open : \A n \in Parts \cup {0}, pad \in Pads(s) :
        LET r == WithPin(s, driver, card, Part(s, n), pad, FALSE)
        IN  r.answer = "ok" => r.bytes <= Size(s, driver, Part(s, n), pad)

(* The driver's comments say the rest of a part is saved for the next run    *)
(* and the last block deciphered is returned by the next call: while nothing *)
(* crosses a stream, the bytes given are those delivered and those held.     *)
NothingIsDropped ==
    \A s \in Open : op[s].fate # "crossed" =>
        op[s].given = Len(op[s].out) * BlockSize + Len(driver.crypt)
                        + (IF driver.plain = NoBlock THEN 0 ELSE BlockSize)

=============================================================================
