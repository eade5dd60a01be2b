----------------------- MODULE SymmetricStreamsProofs -----------------------
(***************************************************************************)
(* Proofs about the symmetric streams, for every set of sessions, block    *)
(* size and lengths of parts.                                              *)
(***************************************************************************)
EXTENDS SymmetricStreams, TLAPS

-----------------------------------------------------------------------------
(* Lengths. *)

LEMMA SizeIsPositive == BlockSize \in Nat /\ BlockSize > 0
BY SymmetricStreamsAssumption

LEMMA Division ==
  ASSUME NEW n \in Nat
  PROVE  /\ n \div BlockSize \in Nat /\ n % BlockSize \in 0 .. BlockSize - 1
         /\ n = BlockSize * (n \div BlockSize) + (n % BlockSize)
         /\ Whole(n) = BlockSize * (n \div BlockSize)
         /\ Whole(n) \in 0 .. n
BY SizeIsPositive DEF Whole

LEMMA Quotient ==
  ASSUME NEW S, NEW f \in Seq(S)
  PROVE  \E l \in Nat, q \in Nat, r \in 0 .. BlockSize - 1 :
           /\ l = Len(f) /\ q = l \div BlockSize /\ r = l % BlockSize
           /\ l = BlockSize * q + r /\ BlockSize * q \in Nat
<1>1. Len(f) \in Nat
  OBVIOUS
<1>2. /\ Len(f) \div BlockSize \in Nat /\ Len(f) % BlockSize \in 0 .. BlockSize - 1
      /\ Len(f) = BlockSize * (Len(f) \div BlockSize) + (Len(f) % BlockSize)
  BY <1>1, Division
<1>3. BlockSize * (Len(f) \div BlockSize) \in Nat
  BY <1>2, SizeIsPositive
<1>4. QED
  BY <1>1, <1>2, <1>3

LEMMA DivisionIsUnique ==
  ASSUME NEW n \in Nat, NEW q \in Nat, NEW r \in 0 .. BlockSize - 1, n = BlockSize * q + r
  PROVE  n \div BlockSize = q /\ n % BlockSize = r /\ Whole(n) = BlockSize * q
<1> USE SizeIsPositive
<1>1. PICK p \in Nat, t \in 0 .. BlockSize - 1 :
         /\ p = n \div BlockSize /\ t = n % BlockSize /\ n = BlockSize * p + t
         /\ Whole(n) = BlockSize * p
  BY Division
<1>2. ASSUME NEW u \in Nat, NEW v \in Nat, u < v
      PROVE  BlockSize * v - BlockSize * u >= BlockSize
  <2>1. v - u \in Nat /\ v - u >= 1
    BY <1>2
  <2>2. BlockSize * (v - u) >= BlockSize
    BY <2>1
  <2>3. BlockSize * (v - u) = BlockSize * v - BlockSize * u
    OBVIOUS
  <2>4. QED
    BY <2>2, <2>3
<1>3. BlockSize * p \in Nat /\ BlockSize * q \in Nat
  OBVIOUS
<1>4. ~(p < q)
  BY <1>1, <1>2, <1>3
<1>5. ~(q < p)
  BY <1>1, <1>2, <1>3
<1>6. p = q /\ t = r
  BY <1>1, <1>4, <1>5
<1>7. QED
  BY <1>1, <1>6

\* What is left of some bytes goes on with the next ones.
LEMMA WholeAfter ==
  ASSUME NEW g \in Nat, NEW n \in Nat
  PROVE  LET r == (g % BlockSize) + n IN
         /\ Whole(g + n) = Whole(g) + Whole(r)
         /\ (g + n) % BlockSize = r % BlockSize
<1> USE SizeIsPositive
<1>1. PICK q \in Nat, t \in 0 .. BlockSize - 1 :
         /\ q = g \div BlockSize /\ t = g % BlockSize /\ g = BlockSize * q + t
         /\ Whole(g) = BlockSize * q
  BY Division
<1>2. t + n \in Nat
  OBVIOUS
<1>3. PICK p \in Nat, u \in 0 .. BlockSize - 1 :
         /\ p = (t + n) \div BlockSize /\ u = (t + n) % BlockSize
         /\ t + n = BlockSize * p + u /\ Whole(t + n) = BlockSize * p
  BY <1>2, Division
<1>4. q + p \in Nat /\ BlockSize * (q + p) = BlockSize * q + BlockSize * p
  OBVIOUS
<1>5. PICK k \in Nat, m \in Nat : k = g + n /\ m = q + p
  OBVIOUS
<1>6. k = BlockSize * m + u
  BY <1>1, <1>3, <1>4, <1>5
<1>7. k % BlockSize = u /\ Whole(k) = BlockSize * m
  BY <1>6, DivisionIsUnique
<1>8. QED
  BY <1>1, <1>3, <1>4, <1>5, <1>7

LEMMA ShortIsRest ==
  ASSUME NEW n \in Nat
  PROVE  /\ n < BlockSize <=> n \div BlockSize = 0
         /\ n < BlockSize => n % BlockSize = n /\ Whole(n) = 0
         /\ n >= BlockSize => Whole(n) >= BlockSize
<1> USE SizeIsPositive
<1>1. ASSUME n < BlockSize PROVE n \div BlockSize = 0 /\ n % BlockSize = n /\ Whole(n) = 0
  <2>1. n = BlockSize * 0 + n /\ n \in 0 .. BlockSize - 1 /\ BlockSize * 0 = 0
    BY <1>1
  <2>2. QED
    BY <2>1, DivisionIsUnique
<1>2. ASSUME n >= BlockSize PROVE n \div BlockSize # 0 /\ Whole(n) >= BlockSize
  <2>1. PICK q \in Nat, t \in 0 .. BlockSize - 1 :
           q = n \div BlockSize /\ n = BlockSize * q + t /\ Whole(n) = BlockSize * q
    BY Division
  <2>2. q # 0
    BY <1>2, <2>1
  <2>3. BlockSize * q >= BlockSize
    BY <2>2
  <2>4. QED
    BY <2>1, <2>2, <2>3
<1>3. QED
  BY <1>1, <1>2

\* The lengths that have no rest are the multiples of the block size.
LEMMA MultipleOfSize ==
  ASSUME NEW q \in Nat
  PROVE  /\ BlockSize * q \in Nat
         /\ (BlockSize * q) % BlockSize = 0 /\ (BlockSize * q) \div BlockSize = q
         /\ Whole(BlockSize * q) = BlockSize * q
<1> USE SizeIsPositive
<1>1. PICK n \in Nat : n = BlockSize * q
  OBVIOUS
<1>2. n = BlockSize * q + 0 /\ 0 \in 0 .. BlockSize - 1
  BY <1>1
<1>3. QED
  BY <1>1, <1>2, DivisionIsUnique

LEMMA DivisionOfSum ==
  ASSUME NEW a \in Nat, NEW b \in Nat, a % BlockSize = 0
  PROVE  /\ (a + b) \div BlockSize = (a \div BlockSize) + (b \div BlockSize)
         /\ (a + b) % BlockSize = b % BlockSize
<1> USE SizeIsPositive
<1>1. PICK n \in Nat : n = a \div BlockSize /\ a = BlockSize * n
  BY Division
<1>2. PICK m \in Nat, t \in 0 .. BlockSize - 1 :
         m = b \div BlockSize /\ t = b % BlockSize /\ b = BlockSize * m + t
  BY Division
<1>3. PICK k \in Nat, l \in Nat : k = n + m /\ l = a + b
  OBVIOUS
<1>4. BlockSize * k = BlockSize * n + BlockSize * m
  BY <1>3
<1>5. l = BlockSize * k + t
  BY <1>1, <1>2, <1>3, <1>4
<1>6. l \div BlockSize = k /\ l % BlockSize = t
  BY <1>5, DivisionIsUnique
<1>7. QED
  BY <1>1, <1>2, <1>3, <1>6

\* Where the j-th byte of the i-th block lies.
At(i, j) == (i - 1) * BlockSize + j

LEMMA AtInside ==
  ASSUME NEW n \in Nat, NEW r \in Nat, NEW i \in 1 .. n, NEW j \in 1 .. BlockSize
  PROVE  At(i, j) \in 1 .. BlockSize * n + r
<1> USE SizeIsPositive
<1>1. PICK k \in Nat : k = i - 1
  OBVIOUS
<1>2. k * BlockSize >= 0 /\ k * BlockSize \in Int
  OBVIOUS
<1>3. n - k - 1 >= 0 /\ BlockSize * (n - k - 1) >= 0
  BY <1>1
<1>4. BlockSize * (n - k - 1) = BlockSize * n - k * BlockSize - BlockSize
  BY <1>1
<1>5. k * BlockSize + j \in 1 .. BlockSize * n + r
  BY <1>2, <1>3, <1>4
<1>6. QED
  BY <1>1, <1>5 DEF At

LEMMA AtAfter ==
  ASSUME NEW n \in Nat, NEW i \in Nat, NEW j \in Nat
  PROVE  At(n + i, j) = BlockSize * n + At(i, j)
<1> USE SizeIsPositive
<1>1. (n + i - 1) * BlockSize = BlockSize * n + (i - 1) * BlockSize
  OBVIOUS
<1>2. QED
  BY <1>1 DEF At

-----------------------------------------------------------------------------
(* Cutting bytes into blocks, and what the card makes of them. *)

LEMMA SubSeqOf ==
  ASSUME NEW S, NEW f \in Seq(S), NEW a \in Nat, NEW b \in Nat, a <= b, b <= Len(f)
  PROVE  /\ SubSeq(f, a + 1, b) \in Seq(S)
         /\ Len(SubSeq(f, a + 1, b)) = b - a
         /\ \A j \in 1 .. b - a : SubSeq(f, a + 1, b)[j] = f[a + j]
OBVIOUS

LEMMA SeqOf ==
  ASSUME NEW S, NEW n \in Nat, NEW f \in [1 .. n -> S]
  PROVE  f \in Seq(S) /\ Len(f) = n
OBVIOUS

LEMMA JoinOf ==
  ASSUME NEW S, NEW f \in Seq(S), NEW g \in Seq(S)
  PROVE  /\ f \o g \in Seq(S) /\ Len(f \o g) = Len(f) + Len(g)
         /\ \A i \in 1 .. Len(f) : (f \o g)[i] = f[i]
         /\ \A i \in 1 .. Len(g) : (f \o g)[Len(f) + i] = g[i]
OBVIOUS

LEMMA CutOf ==
  ASSUME NEW bytes \in Seq(Byte)
  PROVE  /\ Cut(bytes) \in Seq(Block)
         /\ Len(Cut(bytes)) = Len(bytes) \div BlockSize
         /\ \A i \in 1 .. Len(Cut(bytes)), j \in 1 .. BlockSize :
              Cut(bytes)[i][j] = bytes[At(i, j)]
<1> USE SizeIsPositive
<1>1. PICK l \in Nat, n \in Nat, r \in 0 .. BlockSize - 1 :
         /\ l = Len(bytes) /\ n = l \div BlockSize
         /\ l = BlockSize * n + r /\ BlockSize * n \in Nat
  BY Quotient
<1>2. ASSUME NEW i \in 1 .. n
      PROVE  LET b == SubSeq(bytes, (i - 1) * BlockSize + 1, i * BlockSize) IN
             /\ b \in Block
             /\ \A j \in 1 .. BlockSize : b[j] = bytes[(i - 1) * BlockSize + j]
  <2>1. PICK k \in Nat : k = (i - 1) * BlockSize
    BY <1>2
  <2>2. i * BlockSize = k + BlockSize
    BY <2>1
  <2>3. k + BlockSize <= BlockSize * n
    <3>1. i * BlockSize <= n * BlockSize
      BY <1>1, <1>2
    <3>2. QED
      BY <2>2, <3>1
  <2>4. k + BlockSize \in Nat /\ k + BlockSize <= Len(bytes) /\ k + BlockSize - k = BlockSize
    BY <1>1, <2>3
  <2>5. LET b == SubSeq(bytes, k + 1, k + BlockSize) IN
          /\ b \in Seq(Byte) /\ Len(b) = BlockSize
          /\ \A j \in 1 .. BlockSize : b[j] = bytes[k + j]
    BY <2>4, SubSeqOf
  <2>6. QED
    BY <2>1, <2>2, <2>5 DEF Block
<1>3. Cut(bytes) = [i \in 1 .. n |-> SubSeq(bytes, (i - 1) * BlockSize + 1, i * BlockSize)]
  BY <1>1 DEF Cut
<1>4. Cut(bytes) \in [1 .. n -> Block]
  BY <1>2, <1>3
<1>5. Cut(bytes) \in Seq(Block) /\ Len(Cut(bytes)) = n
  BY <1>4, SeqOf
<1>6. \A i \in 1 .. n, j \in 1 .. BlockSize : Cut(bytes)[i][j] = bytes[At(i, j)]
  BY <1>2, <1>3 DEF At
<1>7. QED
  BY <1>1, <1>5, <1>6

LEMMA SameBlocks ==
  ASSUME NEW b \in Block, NEW c \in Block, \A j \in 1 .. BlockSize : b[j] = c[j]
  PROVE  b = c
BY SizeIsPositive DEF Block

LEMMA SameSeqs ==
  ASSUME NEW S, NEW f \in Seq(S), NEW g \in Seq(S), Len(f) = Len(g),
         \A i \in 1 .. Len(f) : f[i] = g[i]
  PROVE  f = g
OBVIOUS

\* Bytes after whole blocks begin a block.
LEMMA CutJoin ==
  ASSUME NEW x \in Seq(Byte), NEW y \in Seq(Byte), Len(x) % BlockSize = 0
  PROVE  Cut(x \o y) = Cut(x) \o Cut(y)
<1> DEFINE z == x \o y
           n == Len(x) \div BlockSize
           m == Len(y) \div BlockSize
           w == Cut(x) \o Cut(y)
<1>1. /\ z \in Seq(Byte) /\ Len(z) = Len(x) + Len(y)
      /\ \A i \in 1 .. Len(x) : z[i] = x[i]
      /\ \A i \in 1 .. Len(y) : z[Len(x) + i] = y[i]
  BY JoinOf
<1>2. n \in Nat /\ Len(x) = BlockSize * n /\ Len(x) \in Nat
  BY Quotient, SizeIsPositive
<1>3. PICK t \in 0 .. BlockSize - 1 :
         m \in Nat /\ Len(y) = BlockSize * m + t /\ Len(y) \in Nat
  BY Quotient
<1>4. Len(z) \div BlockSize = n + m
  BY <1>1, <1>2, <1>3, DivisionOfSum
<1>5. /\ Cut(x) \in Seq(Block) /\ Len(Cut(x)) = n
      /\ \A i \in 1 .. n , j \in 1 .. BlockSize : Cut(x)[i][j] = x[At(i, j)]
  BY CutOf
<1>6. /\ Cut(y) \in Seq(Block) /\ Len(Cut(y)) = m
      /\ \A i \in 1 .. m , j \in 1 .. BlockSize : Cut(y)[i][j] = y[At(i, j)]
  BY CutOf
<1>7. /\ Cut(z) \in Seq(Block) /\ Len(Cut(z)) = n + m
      /\ \A i \in 1 .. n + m , j \in 1 .. BlockSize : Cut(z)[i][j] = z[At(i, j)]
  <2> HIDE DEF z, n, m
  <2>1. z \in Seq(Byte)
    BY <1>1
  <2>2. /\ Cut(z) \in Seq(Block) /\ Len(Cut(z)) = Len(z) \div BlockSize
        /\ \A i \in 1 .. Len(Cut(z)), j \in 1 .. BlockSize : Cut(z)[i][j] = z[At(i, j)]
    BY <2>1, CutOf
  <2>3. QED
    BY <1>4, <2>2
<1>8. /\ w \in Seq(Block) /\ Len(w) = n + m
      /\ \A i \in 1 .. n : w[i] = Cut(x)[i]
      /\ \A i \in 1 .. m : w[n + i] = Cut(y)[i]
  <2> HIDE DEF n, m
  <2>1. Cut(x) \in Seq(Block) /\ Cut(y) \in Seq(Block)
    BY <1>5, <1>6
  <2>2. /\ w \in Seq(Block) /\ Len(w) = Len(Cut(x)) + Len(Cut(y))
        /\ \A i \in 1 .. Len(Cut(x)) : w[i] = Cut(x)[i]
        /\ \A i \in 1 .. Len(Cut(y)) : w[Len(Cut(x)) + i] = Cut(y)[i]
    BY <2>1, JoinOf
  <2>3. QED
    BY <1>5, <1>6, <2>2
<1> HIDE DEF z, n, m, w
<1>9. ASSUME NEW i \in 1 .. n PROVE Cut(z)[i] = w[i]
  <2>1. i \in 1 .. n + m /\ Cut(z)[i] \in Block /\ Cut(x)[i] \in Block
    BY <1>2, <1>3, <1>5, <1>7
  <2>2. ASSUME NEW j \in 1 .. BlockSize PROVE Cut(z)[i][j] = Cut(x)[i][j]
    <3>1. At(i, j) \in 1 .. BlockSize * n + 0
      BY <1>2, AtInside
    <3>2. At(i, j) \in 1 .. Len(x)
      BY <1>2, <3>1
    <3>3. QED
      BY <1>1, <1>5, <1>7, <2>1, <3>2
  <2>3. Cut(z)[i] = Cut(x)[i]
    BY <2>1, <2>2, SameBlocks
  <2>4. QED
    BY <1>8, <2>3
<1>10. ASSUME NEW i \in 1 .. m PROVE Cut(z)[n + i] = w[n + i]
  <2>1. n + i \in 1 .. n + m /\ Cut(z)[n + i] \in Block /\ Cut(y)[i] \in Block
    BY <1>2, <1>3, <1>6, <1>7
  <2>2. ASSUME NEW j \in 1 .. BlockSize PROVE Cut(z)[n + i][j] = Cut(y)[i][j]
    <3>1. At(i, j) \in 1 .. BlockSize * m + t
      BY <1>3, AtInside
    <3>2. At(i, j) \in 1 .. Len(y)
      BY <1>3, <3>1
    <3>3. At(n + i, j) = Len(x) + At(i, j)
      BY <1>2, <1>3, AtAfter
    <3>4. Cut(z)[n + i][j] = z[At(n + i, j)]
      BY <1>7, <2>1
    <3>5. z[Len(x) + At(i, j)] = y[At(i, j)]
      BY <1>1, <3>2
    <3>6. QED
      BY <1>6, <3>3, <3>4, <3>5
  <2>3. Cut(z)[n + i] = Cut(y)[i]
    BY <2>1, <2>2, SameBlocks
  <2>4. QED
    BY <1>8, <2>3
<1>11. ASSUME NEW i \in 1 .. n + m PROVE Cut(z)[i] = w[i]
  <2>1. CASE i <= n
    BY <1>2, <1>3, <1>9, <2>1
  <2>2. CASE i > n
    <3>1. PICK j \in 1 .. m : i = n + j
      BY <1>2, <1>3, <2>2
    <3>2. QED
      BY <1>10, <3>1
  <2>3. QED
    BY <1>2, <1>3, <2>1, <2>2
<1>12. Cut(z) = w
  BY <1>7, <1>8, <1>11, SameSeqs
<1>13. QED
  BY <1>12 DEF z, w


LEMMA JoinIsAssociative ==
  ASSUME NEW S, NEW f \in Seq(S), NEW g \in Seq(S), NEW h \in Seq(S)
  PROVE  (f \o g) \o h = f \o (g \o h)
OBVIOUS

LEMMA JoinOfNone ==
  ASSUME NEW S, NEW f \in Seq(S)
  PROVE  /\ <<>> \o f = f /\ f \o <<>> = f
         /\ f = <<>> <=> Len(f) = 0
OBVIOUS

\* The beginnings of a sequence and of one that follows it.
LEMMA BeginningOfJoin ==
  ASSUME NEW S, NEW f \in Seq(S), NEW g \in Seq(S)
  PROVE  /\ \A i \in 0 .. Len(f) : SubSeq(f \o g, 1, i) = SubSeq(f, 1, i)
         /\ \A i \in 0 .. Len(g) : SubSeq(f \o g, 1, Len(f) + i) = f \o SubSeq(g, 1, i)
<1>1. /\ f \o g \in Seq(S) /\ Len(f \o g) = Len(f) + Len(g)
      /\ \A i \in 1 .. Len(f) : (f \o g)[i] = f[i]
      /\ \A i \in 1 .. Len(g) : (f \o g)[Len(f) + i] = g[i]
  BY JoinOf
<1>2. ASSUME NEW i \in 0 .. Len(f) PROVE SubSeq(f \o g, 1, i) = SubSeq(f, 1, i)
  <2>1. /\ SubSeq(f, 0 + 1, i) \in Seq(S) /\ Len(SubSeq(f, 0 + 1, i)) = i - 0
        /\ \A j \in 1 .. i - 0 : SubSeq(f, 0 + 1, i)[j] = f[0 + j]
    BY SubSeqOf
  <2>2. /\ SubSeq(f \o g, 0 + 1, i) \in Seq(S) /\ Len(SubSeq(f \o g, 0 + 1, i)) = i - 0
        /\ \A j \in 1 .. i - 0 : SubSeq(f \o g, 0 + 1, i)[j] = (f \o g)[0 + j]
    <3>1. i \in Nat /\ 0 <= i /\ i <= Len(f \o g)
      BY <1>1
    <3> DEFINE fg == f \o g
    <3>2. fg \in Seq(S) /\ i <= Len(fg)
      BY <1>1, <3>1
    <3> HIDE DEF fg
    <3>3. /\ SubSeq(fg, 0 + 1, i) \in Seq(S) /\ Len(SubSeq(fg, 0 + 1, i)) = i - 0
          /\ \A j \in 1 .. i - 0 : SubSeq(fg, 0 + 1, i)[j] = fg[0 + j]
      BY <3>1, <3>2, SubSeqOf
    <3>4. QED
      BY <3>3 DEF fg
  <2>3. \A j \in 1 .. i : SubSeq(f \o g, 0 + 1, i)[j] = SubSeq(f, 0 + 1, i)[j]
    BY <1>1, <2>1, <2>2
  <2>4. QED
    BY <2>1, <2>2, <2>3, SameSeqs
<1>3. ASSUME NEW i \in 0 .. Len(g)
      PROVE  SubSeq(f \o g, 1, Len(f) + i) = f \o SubSeq(g, 1, i)
  <2> DEFINE fg == f \o g
             l == Len(f) + i
             b == SubSeq(g, 0 + 1, i)
             fb == f \o b
             sub == SubSeq(fg, 0 + 1, l)
  <2>1. /\ fg \in Seq(S) /\ l \in Nat /\ 0 <= l /\ l <= Len(fg)
        /\ \A j \in 1 .. Len(f) : fg[j] = f[j]
        /\ \A j \in 1 .. Len(g) : fg[Len(f) + j] = g[j]
    BY <1>1
  <2>2. /\ b \in Seq(S) /\ Len(b) = i
        /\ \A j \in 1 .. i : b[j] = g[j]
    BY SubSeqOf
  <2>3. /\ fb \in Seq(S) /\ Len(fb) = l
        /\ \A j \in 1 .. Len(f) : fb[j] = f[j]
        /\ \A j \in 1 .. i : fb[Len(f) + j] = b[j]
    <3> HIDE DEF b
    <3>1. /\ fb \in Seq(S) /\ Len(fb) = Len(f) + Len(b)
          /\ \A j \in 1 .. Len(f) : fb[j] = f[j]
          /\ \A j \in 1 .. Len(b) : fb[Len(f) + j] = b[j]
      <4>1. b \in Seq(S)
        BY <2>2
      <4>2. QED
        BY <4>1, JoinOf
    <3>2. QED
      BY <2>2, <3>1
  <2>4. /\ sub \in Seq(S) /\ Len(sub) = l
        /\ \A j \in 1 .. l : sub[j] = fg[j]
    <3> HIDE DEF fg, l
    <3>1. QED
      BY <2>1, SubSeqOf
  <2> HIDE DEF fg, b, fb, sub
  <2>5. ASSUME NEW j \in 1 .. l PROVE sub[j] = fb[j]
    <3>1. CASE j <= Len(f)
      BY <2>1, <2>3, <2>4, <3>1
    <3>2. CASE j > Len(f)
      <4>1. PICK k \in 1 .. i : j = Len(f) + k
        BY <3>2
      <4>2. k \in 1 .. Len(g)
        OBVIOUS
      <4>3. QED
        BY <2>1, <2>2, <2>3, <2>4, <4>1, <4>2
    <3>3. QED
      BY <3>1, <3>2
  <2>6. sub = fb
    BY <2>3, <2>4, <2>5, SameSeqs
  <2>7. QED
    BY <2>6 DEF sub, fb, fg, b
<1>4. QED
  BY <1>2, <1>3

Env == Streams \cup {Foreign, NoEnv}

LEMMA ChainedOf ==
  ASSUME NEW m, NEW s, NEW chain \in Seq(Block), NEW blocks \in Seq(Block)
  PROVE  Chained(m, s, chain, blocks) \in Seq(Block)
<1>1. blocks # <<>> => blocks[Len(blocks)] \in Block
  OBVIOUS
<1>2. \A b \in Block : <<b>> \in Seq(Block)
  OBVIOUS
<1>3. chain \o blocks \in Seq(Block)
  BY JoinOf
<1>4. QED
  BY <1>1, <1>2, <1>3 DEF Chained

\* The chaining goes on from call to call.
LEMMA ChainedJoin ==
  ASSUME NEW m, NEW s, NEW chain \in Seq(Block), NEW x \in Seq(Block), NEW y \in Seq(Block)
  PROVE  Chained(m, s, chain, x \o y) = Chained(m, s, Chained(m, s, chain, x), y)
<1>1. /\ x \o y \in Seq(Block) /\ Len(x \o y) = Len(x) + Len(y)
      /\ \A i \in 1 .. Len(y) : (x \o y)[Len(x) + i] = y[i]
  BY JoinOf
<1>2. CASE m = "ECB"
  BY <1>2 DEF Chained
<1>3. CASE x = <<>>
  <2>1. x \o y = y
    BY <1>3, JoinOfNone
  <2>2. QED
    BY <1>3, <2>1 DEF Chained
<1>4. CASE y = <<>>
  <2>1. x \o y = x
    BY <1>4, JoinOfNone
  <2>2. QED
    BY <1>4, <2>1 DEF Chained
<1>5. CASE m # "ECB" /\ x # <<>> /\ y # <<>>
  <2>1. Len(y) \in 1 .. Len(y) /\ Len(x) # 0 /\ Len(x) \in Nat
    BY <1>5, JoinOfNone
  <2>2. x \o y # <<>>
    BY <1>1, <2>1
  <2>3. (x \o y)[Len(x \o y)] = y[Len(y)]
    BY <1>1, <2>1
  <2>4. (chain \o x) \o y = chain \o (x \o y)
    BY JoinIsAssociative
  <2>5. QED
    BY <1>5, <2>2, <2>3, <2>4 DEF Chained
<1>6. QED
  BY <1>2, <1>3, <1>4, <1>5

TextAt(env, m, s, chain, blocks, i) ==
  [env |-> env, prior |-> Chained(m, s, chain, SubSeq(blocks, 1, i - 1)),
   block |-> blocks[i]]

LEMMA TextsOf ==
  ASSUME NEW env \in Env, NEW m, NEW s, NEW chain \in Seq(Block), NEW blocks \in Seq(Block)
  PROVE  /\ Texts(env, m, s, chain, blocks) \in Seq(Text)
         /\ Len(Texts(env, m, s, chain, blocks)) = Len(blocks)
         /\ \A i \in 1 .. Len(blocks) :
              Texts(env, m, s, chain, blocks)[i] = TextAt(env, m, s, chain, blocks, i)
<1> DEFINE n == Len(blocks)
           text(i) == [env |-> env, prior |-> Chained(m, s, chain, SubSeq(blocks, 1, i - 1)),
                       block |-> blocks[i]]
           texts == [i \in 1 .. n |-> text(i)]
<1>1. n \in Nat
  OBVIOUS
<1>2. ASSUME NEW i \in 1 .. n PROVE text(i) \in Text
  <2>1. blocks[i] \in Block
    OBVIOUS
  <2>2. SubSeq(blocks, 1, i - 1) \in Seq(Block)
    <3>1. PICK k \in Nat : k = i - 1 /\ k <= Len(blocks)
      OBVIOUS
    <3>2. SubSeq(blocks, 0 + 1, k) \in Seq(Block)
      BY <3>1, SubSeqOf
    <3>3. QED
      BY <3>1, <3>2
  <2>3. Chained(m, s, chain, SubSeq(blocks, 1, i - 1)) \in Seq(Block)
    BY <2>2, ChainedOf
  <2>4. QED
    BY <2>1, <2>3 DEF Text, Env
<1>3. Texts(env, m, s, chain, blocks) = texts
  BY DEF Texts
<1> HIDE DEF n, text
<1>4. texts \in [1 .. n -> Text]
  BY <1>2
<1>5. texts \in Seq(Text) /\ Len(texts) = n
  <2> HIDE DEF texts
  <2>1. QED
    BY <1>1, <1>4, SeqOf
<1>6. \A i \in 1 .. n : texts[i] = text(i)
  OBVIOUS
<1>7. QED
  BY <1>3, <1>5, <1>6 DEF n, text, TextAt


\* And so do the texts that are made.
TextsJoins(env, m, s, chain, x, y) ==
  Texts(env, m, s, chain, x \o y) =
    Texts(env, m, s, chain, x) \o Texts(env, m, s, Chained(m, s, chain, x), y)

LEMMA TextsJoin ==
  ASSUME NEW env \in Env, NEW m, NEW s, NEW chain \in Seq(Block),
         NEW x \in Seq(Block), NEW y \in Seq(Block)
  PROVE  TextsJoins(env, m, s, chain, x, y)
<1> DEFINE mid == Chained(m, s, chain, x)
           tx == Texts(env, m, s, chain, x)
           ty == Texts(env, m, s, mid, y)
           z == x \o y
           tz == Texts(env, m, s, chain, z)
           w == tx \o ty
<1>1. /\ z \in Seq(Block) /\ Len(z) = Len(x) + Len(y)
      /\ \A i \in 1 .. Len(x) : z[i] = x[i]
      /\ \A i \in 1 .. Len(y) : z[Len(x) + i] = y[i]
  BY JoinOf
<1>2. mid \in Seq(Block)
  BY ChainedOf
<1>3. /\ tx \in Seq(Text) /\ Len(tx) = Len(x)
      /\ \A i \in 1 .. Len(x) :
           tx[i] = TextAt(env, m, s, chain, x, i)
  BY TextsOf
<1>4. /\ ty \in Seq(Text) /\ Len(ty) = Len(y)
      /\ \A i \in 1 .. Len(y) :
           ty[i] = TextAt(env, m, s, mid, y, i)
  <2> HIDE DEF mid
  <2>1. QED
    BY <1>2, TextsOf
<1>5. /\ tz \in Seq(Text) /\ Len(tz) = Len(z)
      /\ \A i \in 1 .. Len(z) :
           tz[i] = TextAt(env, m, s, chain, z, i)
  <2> HIDE DEF z
  <2>1. z \in Seq(Block)
    BY <1>1
  <2>2. QED
    BY <2>1, TextsOf
<1>6. /\ \A i \in 0 .. Len(x) : SubSeq(z, 1, i) = SubSeq(x, 1, i)
      /\ \A i \in 0 .. Len(y) : SubSeq(z, 1, Len(x) + i) = x \o SubSeq(y, 1, i)
  BY BeginningOfJoin
<1>7. Len(x) \in Nat /\ Len(y) \in Nat
  OBVIOUS
<1>8. /\ w \in Seq(Text) /\ Len(w) = Len(x) + Len(y)
      /\ \A i \in 1 .. Len(x) : w[i] = tx[i]
      /\ \A i \in 1 .. Len(y) : w[Len(x) + i] = ty[i]
  <2> HIDE DEF tx, ty
  <2>0. tx \in Seq(Text) /\ ty \in Seq(Text)
    BY <1>3, <1>4
  <2>1. /\ w \in Seq(Text) /\ Len(w) = Len(tx) + Len(ty)
        /\ \A i \in 1 .. Len(tx) : w[i] = tx[i]
        /\ \A i \in 1 .. Len(ty) : w[Len(tx) + i] = ty[i]
    BY <2>0, JoinOf
  <2>2. QED
    BY <1>3, <1>4, <2>1
<1>9. ASSUME NEW i \in 0 .. Len(y)
      PROVE  Chained(m, s, chain, x \o SubSeq(y, 1, i))
               = Chained(m, s, mid, SubSeq(y, 1, i))
  <2>1. SubSeq(y, 0 + 1, i) \in Seq(Block)
    BY SubSeqOf
  <2>2. SubSeq(y, 1, i) \in Seq(Block)
    BY <2>1
  <2> DEFINE v == SubSeq(y, 1, i)
  <2>3. v \in Seq(Block)
    BY <2>2
  <2> HIDE DEF v, mid
  <2>4. Chained(m, s, chain, x \o v) = Chained(m, s, Chained(m, s, chain, x), v)
    BY <2>3, ChainedJoin
  <2>5. QED
    BY <2>4 DEF v, mid
<1> HIDE DEF mid, tx, ty, z, tz, w
<1>10. ASSUME NEW i \in 1 .. Len(x) PROVE tz[i] = w[i]
  <2>1. i \in 1 .. Len(z) /\ i - 1 \in 0 .. Len(x)
    BY <1>1, <1>7
  <2>2. QED
    BY <1>1, <1>3, <1>5, <1>6, <1>8, <2>1 DEF TextAt
<1>11. ASSUME NEW i \in 1 .. Len(y) PROVE tz[Len(x) + i] = w[Len(x) + i]
  <2>1. /\ Len(x) + i \in 1 .. Len(z) /\ i - 1 \in 0 .. Len(y)
        /\ Len(x) + i - 1 = Len(x) + (i - 1)
    BY <1>1, <1>7
  <2>2. Chained(m, s, chain, SubSeq(z, 1, Len(x) + i - 1))
          = Chained(m, s, mid, SubSeq(y, 1, i - 1))
    BY <1>6, <1>9, <2>1
  <2>3. tz[Len(x) + i] = TextAt(env, m, s, chain, z, Len(x) + i)
    BY <1>5, <2>1
  <2>4. ty[i] = TextAt(env, m, s, mid, y, i) /\ w[Len(x) + i] = ty[i]
    BY <1>4, <1>8
  <2>5. z[Len(x) + i] = y[i]
    BY <1>1
  <2>6. TextAt(env, m, s, chain, z, Len(x) + i) = TextAt(env, m, s, mid, y, i)
    BY <2>2, <2>5 DEF TextAt
  <2>7. QED
    BY <2>3, <2>4, <2>6
<1>12. ASSUME NEW i \in 1 .. Len(z) PROVE tz[i] = w[i]
  <2>1. CASE i <= Len(x)
    BY <1>7, <1>10, <2>1
  <2>2. CASE i > Len(x)
    <3>1. i - Len(x) \in 1 .. Len(y) /\ i = Len(x) + (i - Len(x))
      BY <1>1, <1>7, <2>2
    <3>2. QED
      BY <1>11, <3>1
  <2>3. QED
    BY <1>1, <1>7, <2>1, <2>2
<1>13. tz = w
  BY <1>1, <1>5, <1>8, <1>12, SameSeqs
<1>14. QED
  BY <1>13 DEF TextsJoins, tz, w, z, tx, ty, mid


-----------------------------------------------------------------------------
(* Calls. *)

Reply ==
  [answer : {"ok", "error", "pin"}, driver : Driver, card : Card, texts : Seq(Text), bytes : Int]

LEMMA WholeLength ==
  ASSUME NEW n \in Nat
  PROVE  /\ Whole(n) \in Nat /\ Whole(n) <= n /\ Whole(n) % BlockSize = 0
         /\ Whole(n) \div BlockSize = n \div BlockSize
         /\ n - Whole(n) = n % BlockSize /\ n % BlockSize \in 0 .. BlockSize - 1
<1>1. /\ n \div BlockSize \in Nat /\ n % BlockSize \in 0 .. BlockSize - 1
      /\ n = BlockSize * (n \div BlockSize) + (n % BlockSize)
      /\ Whole(n) = BlockSize * (n \div BlockSize)
      /\ Whole(n) \in 0 .. n
  BY Division
<1>2. n - Whole(n) = n % BlockSize
  BY <1>1 DEF Whole
<1>3. PICK q \in Nat : q = n \div BlockSize /\ Whole(n) = BlockSize * q
  BY <1>1
<1>4. QED
  BY <1>1, <1>2, <1>3, MultipleOfSize

LEMMA DriverWith ==
  ASSUME NEW d \in Driver
  PROVE  /\ d.mode \in Modes \cup {OtherMode} /\ d.crypt \in Seq(Byte)
         /\ d.plain \in Text \cup {NoBlock} /\ Len(d.crypt) \in 0 .. BlockSize - 1
         /\ \A bytes \in Seq(Byte) : Len(bytes) < BlockSize =>
              /\ [d EXCEPT !.crypt = bytes] \in Driver
              /\ \A p \in Text \cup {NoBlock} :
                   [[d EXCEPT !.crypt = bytes] EXCEPT !.plain = p] \in Driver
         /\ [d EXCEPT !.crypt = <<>>] \in Driver
<1> USE SizeIsPositive
<1> DEFINE fields == [mode : Modes \cup {OtherMode}, crypt : Seq(Byte), plain : Text \cup {NoBlock}]
<1>1. d \in fields /\ Len(d.crypt) < BlockSize
  BY DEF Driver
<1>2. Len(d.crypt) \in 0 .. BlockSize - 1
  BY <1>1
<1>3. ASSUME NEW bytes \in Seq(Byte), Len(bytes) < BlockSize
      PROVE  /\ [d EXCEPT !.crypt = bytes] \in Driver
             /\ \A p \in Text \cup {NoBlock} :
                  [[d EXCEPT !.crypt = bytes] EXCEPT !.plain = p] \in Driver
  <2>1. [d EXCEPT !.crypt = bytes] \in fields /\ [d EXCEPT !.crypt = bytes].crypt = bytes
    BY <1>1
  <2>2. ASSUME NEW p \in Text \cup {NoBlock}
        PROVE  LET e == [[d EXCEPT !.crypt = bytes] EXCEPT !.plain = p] IN
               e \in fields /\ e.crypt = bytes
    BY <1>1
  <2> HIDE DEF fields
  <2>3. QED
    BY <1>3, <2>1, <2>2 DEF Driver, fields
<1>4. <<>> \in Seq(Byte) /\ Len(<<>>) < BlockSize
  OBVIOUS
<1>5. QED
  BY <1>1, <1>2, <1>3, <1>4

LEMMA ProcessedOf ==
  ASSUME NEW s \in Streams, NEW d \in Driver, NEW c \in Card, NEW bytes \in Seq(Byte)
  PROVE  LET r == Processed(s, d, c, bytes) IN
         /\ r \in Reply
         /\ r.driver \in {d, [d EXCEPT !.crypt = <<>>]}
         /\ r.answer = "ok" => r.bytes = Len(bytes) /\ Len(r.texts) = Len(bytes) \div BlockSize
<1> DEFINE taken == [d EXCEPT !.crypt = <<>>]
           blocks == Cut(bytes)
           texts == Texts(c.env, d.mode, s, c.chain, blocks)
           after == [c EXCEPT !.chain = Chained(d.mode, s, @, blocks)]
<1>1. blocks \in Seq(Block) /\ Len(blocks) = Len(bytes) \div BlockSize
  BY CutOf
<1>2. c.env \in Env /\ c.chain \in Seq(Block)
  BY DEF Card, Env
<1>3. texts \in Seq(Text) /\ Len(texts) = Len(blocks)
  <2> HIDE DEF blocks
  <2>1. blocks \in Seq(Block)
    BY <1>1
  <2>2. QED
    BY <1>2, <2>1, TextsOf
<1>4. after \in Card
  <2> HIDE DEF blocks
  <2>1. Chained(d.mode, s, c.chain, blocks) \in Seq(Block)
    BY <1>1, <1>2, ChainedOf
  <2>2. QED
    BY <2>1 DEF Card
<1>5. taken \in Driver
  BY DriverWith
<1>6. /\ <<>> \in Seq(Text) /\ Len(<<>>) = 0 /\ 0 \div BlockSize = 0
      /\ Len(bytes) \in Int
  BY SizeIsPositive, ShortIsRest
<1>7. CASE bytes = <<>>
  <2>1. Processed(s, d, c, bytes) = Answer("ok", d, c, <<>>, 0)
    BY <1>7 DEF Processed
  <2>2. Answer("ok", d, c, <<>>, 0) \in Reply
    BY <1>6 DEF Answer, Reply
  <2>3. Len(bytes) = 0
    BY <1>7
  <2>4. /\ Processed(s, d, c, bytes).driver = d
        /\ Processed(s, d, c, bytes).bytes = 0
        /\ Len(Processed(s, d, c, bytes).texts) = 0
    BY <1>6, <2>1 DEF Answer
  <2>5. QED
    BY <1>6, <2>1, <2>2, <2>3, <2>4
<1>8. CASE bytes # <<>> /\ (c.env = NoEnv \/ c.pin = "lost")
  <2>1. PICK a \in {"error", "pin"} : Processed(s, d, c, bytes) = Refused(a, taken, c)
    BY <1>8 DEF Processed
  <2> HIDE DEF taken
  <2>2. Processed(s, d, c, bytes) \in Reply
    BY <1>5, <1>6, <2>1 DEF Refused, Answer, Reply
  <2>3. Processed(s, d, c, bytes).driver = taken /\ Processed(s, d, c, bytes).answer # "ok"
    BY <2>1 DEF Refused, Answer
  <2>4. QED
    BY <2>2, <2>3 DEF taken
<1>9. CASE bytes # <<>> /\ c.env # NoEnv /\ c.pin # "lost"
  <2>1. Processed(s, d, c, bytes) = Answer("ok", taken, after, texts, Len(bytes))
    BY <1>9 DEF Processed
  <2> HIDE DEF taken, texts, after
  <2>2. Processed(s, d, c, bytes) \in Reply
    BY <1>3, <1>4, <1>5, <1>6, <2>1 DEF Answer, Reply
  <2>3. /\ Processed(s, d, c, bytes).driver = taken
        /\ Processed(s, d, c, bytes).bytes = Len(bytes)
        /\ Processed(s, d, c, bytes).texts = texts
    BY <2>1 DEF Answer
  <2>4. QED
    BY <1>1, <1>3, <2>2, <2>3 DEF taken
<1>10. QED
  BY <1>7, <1>8, <1>9

\* What the driver keeps of a part is less than a block.
LEMMA RestOf ==
  ASSUME NEW d \in Driver, NEW part \in Seq(Byte)
  PROVE  Rest(d, part) \in Seq(Byte) /\ Len(Rest(d, part)) < BlockSize
<1> USE SizeIsPositive
<1>1. Len(d.crypt) \in 0 .. BlockSize - 1 /\ Len(part) \in Nat
  <2>1. Len(d.crypt) \in 0 .. BlockSize - 1
    BY DriverWith
  <2>2. QED
    BY <2>1
<1>2. PICK l \in Nat, n \in Nat : l = Len(d.crypt) /\ n = Len(part) /\ l < BlockSize
  BY <1>1
<1>3. PICK k \in Nat : k = l + n
  OBVIOUS
<1>4. PICK r \in Nat : /\ r = k % BlockSize /\ r < BlockSize
                       /\ k >= BlockSize => k - r >= BlockSize
  <2>1. /\ k - Whole(k) = k % BlockSize
        /\ k % BlockSize \in 0 .. BlockSize - 1 /\ Whole(k) \in Nat
    BY WholeLength
  <2>2. k >= BlockSize => Whole(k) >= BlockSize
    BY ShortIsRest
  <2>3. k % BlockSize \in Nat /\ k % BlockSize < BlockSize
    BY <2>1
  <2>4. k >= BlockSize => k - (k % BlockSize) >= BlockSize
    <3> DEFINE v == k % BlockSize
               u == Whole(k)
    <3>1. k - u = v /\ u \in Nat /\ v \in Nat /\ (k >= BlockSize => u >= BlockSize)
      BY <2>1, <2>2, <2>3
    <3> HIDE DEF u, v
    <3>2. k >= BlockSize => k - v >= BlockSize
      BY <3>1
    <3>3. QED
      BY <3>2 DEF v
  <2>5. QED
    BY <2>3, <2>4
<1>5. CASE k < BlockSize
  BY <1>2, <1>3, <1>5 DEF Rest
<1>6. CASE ~(k < BlockSize)
  <2>1. PICK a \in Nat : a = n - r /\ a <= n /\ n - a = r
    <3>1. n - r \in Nat
      <4>1. k - r >= BlockSize /\ r \in Nat
        BY <1>4, <1>6
      <4>2. l < BlockSize
        BY <1>2
      <4>3. QED
        BY <1>3, <4>1, <4>2
    <3>2. n - r <= n /\ n - (n - r) = r
      BY <1>4
    <3>3. QED
      BY <3>1, <3>2
  <2>2. SubSeq(part, a + 1, n) \in Seq(Byte) /\ Len(SubSeq(part, a + 1, n)) = n - a
    BY <1>2, <2>1, SubSeqOf
  <2>3. Rest(d, part) = SubSeq(part, a + 1, n)
    BY <1>2, <1>3, <1>4, <1>6, <2>1 DEF Rest
  <2>4. QED
    BY <1>4, <2>1, <2>2, <2>3
<1>7. QED
  BY <1>3, <1>5, <1>6


\* The whole blocks of what the driver holds and of a part.
LEMMA BlocksOfAll ==
  ASSUME NEW all \in Seq(Byte)
  PROVE  LET x == SubSeq(all, 1, Whole(Len(all))) IN
         /\ x \in Seq(Byte) /\ Len(x) = Whole(Len(all)) /\ Len(x) % BlockSize = 0
         /\ Len(x) \div BlockSize = Len(all) \div BlockSize
         /\ \A i \in 1 .. Whole(Len(all)) : x[i] = all[i]
<1>1. PICK n \in Nat : n = Len(all)
  OBVIOUS
<1>2. /\ Whole(n) \in Nat /\ Whole(n) <= n /\ Whole(n) % BlockSize = 0
      /\ Whole(n) \div BlockSize = n \div BlockSize
  BY WholeLength
<1>3. PICK k \in Nat : k = Whole(n) /\ k <= n
  BY <1>2
<1>4. /\ SubSeq(all, 0 + 1, k) \in Seq(Byte) /\ Len(SubSeq(all, 0 + 1, k)) = k - 0
      /\ \A j \in 1 .. k - 0 : SubSeq(all, 0 + 1, k)[j] = all[0 + j]
  BY <1>1, <1>3, SubSeqOf
<1>5. QED
  BY <1>1, <1>2, <1>3, <1>4

\* An update delivers no more than the size that is reported for it.
LEMMA UpdateOf ==
  ASSUME NEW s \in Streams, NEW d \in Driver, NEW c \in Card, NEW part \in Seq(Byte)
  PROVE  LET r == Update(s, d, c, part) IN
         /\ r \in Reply
         /\ r.answer = "ok" => r.bytes <= Whole(Len(d.crypt) + Len(part))
<1> DEFINE all == d.crypt \o part
           w == Whole(Len(all))
           x == SubSeq(all, 1, w)
           r == Processed(s, d, c, x)
           n == Len(r.texts)
           kept == [r.driver EXCEPT !.crypt = Rest(d, part)]
           held == IF d.plain = NoBlock THEN <<>> ELSE <<d.plain>>
           shown == held \o SubSeq(r.texts, 1, n - 1)
<1> USE SizeIsPositive
<1>1. d.crypt \in Seq(Byte) /\ d.plain \in Text \cup {NoBlock}
  BY DriverWith
<1>2. all \in Seq(Byte) /\ Len(all) = Len(d.crypt) + Len(part)
  BY <1>1, JoinOf
<1>3. /\ x \in Seq(Byte) /\ Len(x) = w
      /\ Len(x) \div BlockSize = Len(all) \div BlockSize
  <2> HIDE DEF all
  <2>1. all \in Seq(Byte)
    BY <1>2
  <2>2. QED
    BY <2>1, BlocksOfAll
<1>4. w \in Nat /\ w = BlockSize * (Len(all) \div BlockSize) /\ Len(all) \div BlockSize \in Nat
  <2> HIDE DEF all
  <2>1. Len(all) \in Nat
    BY <1>2
  <2>2. QED
    BY <2>1, Division
<1> HIDE DEF all, w
<1>5. /\ r \in Reply
      /\ r.answer = "ok" => r.bytes = w /\ n = Len(all) \div BlockSize
  <2> HIDE DEF x
  <2>1. x \in Seq(Byte)
    BY <1>3
  <2>2. /\ r \in Reply
        /\ r.answer = "ok" => r.bytes = Len(x) /\ Len(r.texts) = Len(x) \div BlockSize
    BY <2>1, ProcessedOf
  <2>3. QED
    BY <1>3, <2>2
<1> HIDE DEF x, r
<1>6. r.driver \in Driver /\ r.card \in Card /\ r.texts \in Seq(Text) /\ n \in Nat
  BY <1>5 DEF Reply
<1>7. Rest(d, part) \in Seq(Byte) /\ Len(Rest(d, part)) < BlockSize
  BY RestOf
<1>8. /\ kept \in Driver
      /\ \A p \in Text \cup {NoBlock} : [kept EXCEPT !.plain = p] \in Driver
  BY <1>6, <1>7, DriverWith
<1>9. held \in Seq(Text) /\ Len(held) \in {0, 1}
  BY <1>1
<1> HIDE DEF kept, held, n
<1>10. n # 0 => /\ shown \in Seq(Text) /\ Len(shown) = Len(held) + (n - 1)
                /\ r.texts[n] \in Text
  <2> SUFFICES ASSUME n # 0
               PROVE  /\ shown \in Seq(Text) /\ Len(shown) = Len(held) + (n - 1)
                      /\ r.texts[n] \in Text
    OBVIOUS
  <2>0. Len(r.texts) = n /\ n - 1 \in Nat /\ n - 1 <= n
    <3>1. n \in Nat
      BY <1>6
    <3>2. QED
      BY <3>1 DEF n
  <2>1. PICK k \in Nat : k = n - 1 /\ k <= Len(r.texts) /\ Len(r.texts) = n
    BY <2>0
  <2>2. SubSeq(r.texts, 0 + 1, k) \in Seq(Text) /\ Len(SubSeq(r.texts, 0 + 1, k)) = k - 0
    BY <1>6, <2>1, SubSeqOf
  <2>3. PICK b \in Seq(Text) : b = SubSeq(r.texts, 1, n - 1) /\ Len(b) = n - 1
    <3>1. k - 0 = n - 1
      BY <2>1
    <3>2. SubSeq(r.texts, 1, n - 1) = SubSeq(r.texts, 0 + 1, k)
      BY <2>1
    <3>3. QED
      BY <2>2, <3>1, <3>2
  <2>4. held \o b \in Seq(Text) /\ Len(held \o b) = Len(held) + Len(b)
    BY <1>9, JoinOf
  <2>5. r.texts[n] \in Text
    BY <1>6, <2>1
  <2>6. QED
    BY <2>3, <2>4, <2>5
<1> HIDE DEF shown
<1>11. Update(s, d, c, part) =
         IF r.answer # "ok" THEN r
         ELSE IF s \notin Decryptions THEN [r EXCEPT !.driver = kept]
         ELSE IF n = 0 THEN [r EXCEPT !.driver = [kept EXCEPT !.plain = NoBlock]]
         ELSE Answer("ok", [kept EXCEPT !.plain = r.texts[n]], r.card,
                     shown, Len(shown) * BlockSize)
  BY DEF Update, all, w, x, r, n, kept, held, shown
<1>12. w = Whole(Len(d.crypt) + Len(part))
  BY <1>2 DEF w
<1>13. CASE r.answer # "ok"
  BY <1>5, <1>11, <1>13
<1>14. CASE r.answer = "ok" /\ s \notin Decryptions
  <2>1. [r EXCEPT !.driver = kept] \in Reply /\ [r EXCEPT !.driver = kept].bytes = r.bytes
    BY <1>5, <1>8 DEF Reply
  <2>2. QED
    BY <1>4, <1>5, <1>11, <1>12, <1>14, <2>1
<1>15. CASE r.answer = "ok" /\ s \in Decryptions /\ n = 0
  <2>1. PICK k \in Driver : k = [kept EXCEPT !.plain = NoBlock]
    BY <1>8
  <2>2. [r EXCEPT !.driver = k] \in Reply /\ [r EXCEPT !.driver = k].bytes = r.bytes
    BY <1>5, <2>1 DEF Reply
  <2>3. QED
    BY <1>4, <1>5, <1>11, <1>12, <1>15, <2>1, <2>2
<1>16. CASE r.answer = "ok" /\ s \in Decryptions /\ n # 0
  <2>1. PICK k \in Driver : k = [kept EXCEPT !.plain = r.texts[n]]
    BY <1>8, <1>10, <1>16
  <2>2. PICK l \in Nat : l = Len(shown) /\ l <= n
    <3>1. Len(shown) = Len(held) + (n - 1) /\ n \in Nat /\ n # 0 /\ Len(held) \in {0, 1}
      BY <1>6, <1>9, <1>10, <1>16
    <3>2. \A i \in Nat, h \in {0, 1} : i # 0 => h + (i - 1) \in Nat /\ h + (i - 1) <= i
      OBVIOUS
    <3>3. Len(shown) \in Nat /\ Len(shown) <= n
      BY <3>1, <3>2, Zenon
    <3>4. QED
      BY <3>3
  <2>3. l * BlockSize <= w /\ l * BlockSize \in Int
    <3>1. n - l \in Nat /\ BlockSize * (n - l) >= 0
      BY <1>6, <2>2
    <3>2. BlockSize * (n - l) = BlockSize * n - l * BlockSize
      BY <1>6, <2>2
    <3>3. w = BlockSize * n
      BY <1>4, <1>5, <1>16
    <3>4. QED
      BY <1>4, <1>6, <2>2, <3>1, <3>2, <3>3
  <2>4. Update(s, d, c, part) = Answer("ok", k, r.card, shown, l * BlockSize)
    BY <1>11, <1>16, <2>1, <2>2
  <2>5. Answer("ok", k, r.card, shown, l * BlockSize) \in Reply
    BY <1>6, <1>10, <1>16, <2>3 DEF Answer, Reply
  <2>6. Answer("ok", k, r.card, shown, l * BlockSize).bytes = l * BlockSize
    BY DEF Answer
  <2>7. QED
    BY <1>12, <2>3, <2>4, <2>5, <2>6
<1>17. QED
  BY <1>13, <1>14, <1>15, <1>16


LEMMA PaddingOf ==
  ASSUME NEW s \in Streams, NEW n \in Nat
  PROVE  Padding(s, n) \in Seq(Byte) /\ Len(Padding(s, n)) = n
<1>1. <<s, 0>> \in Byte
  BY DEF Byte
<1>2. Padding(s, n) \in [1 .. n -> Byte]
  BY <1>1 DEF Padding
<1>3. QED
  BY <1>2, SeqOf

\* The end of an encryption sends one block or none, that of a decryption hands
\* out the one held back.
LEMMA EncryptEndOf ==
  ASSUME NEW s \in Streams, NEW d \in Driver, NEW c \in Card
  PROVE  LET r == EncryptEnd(s, d, c) IN
         /\ r \in Reply
         /\ r.answer = "ok" => r.bytes = IF d.mode = "CBC_PAD" THEN BlockSize ELSE 0
         /\ r.answer = "ok" /\ d.mode # "CBC_PAD" => d.crypt = <<>>
<1> USE SizeIsPositive
<1>1. /\ d.crypt \in Seq(Byte) /\ d.plain \in Text \cup {NoBlock}
      /\ Len(d.crypt) \in 0 .. BlockSize - 1
  BY DriverWith
<1>2. <<>> \in Seq(Text)
  OBVIOUS
<1>3. \A a \in {"ok", "error", "pin"} : Answer(a, d, c, <<>>, 0) \in Reply
  BY <1>2 DEF Answer, Reply
<1>4. CASE d.mode = "CBC_PAD"
  <2> DEFINE last == d.crypt \o Padding(s, BlockSize - Len(d.crypt))
  <2>1. last \in Seq(Byte) /\ Len(last) = BlockSize
    <3>0. \A l \in 0 .. BlockSize - 1 : BlockSize - l \in Nat
      OBVIOUS
    <3>1. PICK n \in Nat : n = BlockSize - Len(d.crypt)
      BY <1>1, <3>0
    <3>2. Padding(s, n) \in Seq(Byte) /\ Len(Padding(s, n)) = n
      BY PaddingOf
    <3>3. /\ d.crypt \o Padding(s, n) \in Seq(Byte)
          /\ Len(d.crypt \o Padding(s, n)) = Len(d.crypt) + n
      <4> DEFINE p == Padding(s, n)
      <4>1. p \in Seq(Byte) /\ d.crypt \in Seq(Byte)
        BY <1>1, <3>2
      <4>2. Len(p) = n
        BY <3>2
      <4> HIDE DEF p
      <4>3. d.crypt \o p \in Seq(Byte) /\ Len(d.crypt \o p) = Len(d.crypt) + Len(p)
        BY <4>1, JoinOf
      <4>4. QED
        BY <4>2, <4>3 DEF p
    <3>4. Len(d.crypt) + n = BlockSize
      BY <1>1, <3>1
    <3>5. QED
      BY <3>1, <3>3, <3>4
  <2>2. EncryptEnd(s, d, c) = Processed(s, d, c, last)
    BY <1>4 DEF EncryptEnd
  <2> HIDE DEF last
  <2>3. last \in Seq(Byte)
    BY <2>1
  <2>4. LET r == Processed(s, d, c, last) IN
        r \in Reply /\ (r.answer = "ok" => r.bytes = Len(last))
    BY <2>3, ProcessedOf
  <2>5. QED
    BY <1>4, <2>1, <2>2, <2>4
<1>5. CASE d.mode # "CBC_PAD"
  <2>1. CASE d.crypt # <<>>
    <3>1. EncryptEnd(s, d, c) = Answer("error", d, c, <<>>, 0)
      BY <1>5, <2>1 DEF EncryptEnd, Refused
    <3>2. Answer("error", d, c, <<>>, 0).answer = "error"
      BY DEF Answer
    <3>3. QED
      BY <1>3, <3>1, <3>2
  <2>2. CASE d.crypt = <<>>
    <3>1. EncryptEnd(s, d, c) = Answer("ok", d, c, <<>>, 0)
      BY <1>5, <2>2 DEF EncryptEnd
    <3>2. Answer("ok", d, c, <<>>, 0).bytes = 0
      BY DEF Answer
    <3>3. QED
      BY <1>3, <1>5, <2>2, <3>1, <3>2
  <2>3. QED
    BY <2>1, <2>2
<1>6. QED
  BY <1>4, <1>5

LEMMA DecryptEndOf ==
  ASSUME NEW s \in Decryptions, NEW d \in Driver, NEW c \in Card, NEW pad \in Pads(s)
  PROVE  DecryptEnd(d, c, pad) \in Reply
<1> USE SizeIsPositive
<1>1. d.plain \in Text \cup {NoBlock}
  BY DriverWith
<1>2. \A a \in {"ok", "error", "pin"} : Answer(a, d, c, <<>>, 0) \in Reply
  <2>1. <<>> \in Seq(Text)
    OBVIOUS
  <2>2. QED
    BY <2>1 DEF Answer, Reply
<1>3. CASE d.plain = NoBlock \/ d.crypt # <<>>
  BY <1>2, <1>3 DEF DecryptEnd, Refused
<1>4. CASE d.plain # NoBlock /\ d.crypt = <<>>
  <2>1. <<d.plain>> \in Seq(Text)
    BY <1>1, <1>4
  <2>2. pad \in Int
    BY DEF Pads
  <2>3. \A n \in Int : Answer("ok", d, c, <<d.plain>>, n) \in Reply
    BY <2>1 DEF Answer, Reply
  <2>4. QED
    BY <1>2, <1>4, <2>2, <2>3 DEF DecryptEnd, Refused
<1>5. QED
  BY <1>3, <1>4

LEMMA CallOf ==
  ASSUME NEW s \in Streams, NEW d \in Driver, NEW c \in Card, NEW part \in Seq(Byte),
         NEW pad \in Pads(s)
  PROVE  Call(s, d, c, part, pad) \in Reply
<1>1. Refused("error", d, c) \in Reply
  <2>1. <<>> \in Seq(Text)
    OBVIOUS
  <2>2. QED
    BY <2>1 DEF Refused, Answer, Reply
<1>2. Update(s, d, c, part) \in Reply
  BY UpdateOf
<1>3. EncryptEnd(s, d, c) \in Reply /\ (s \in Decryptions => DecryptEnd(d, c, pad) \in Reply)
  BY EncryptEndOf, DecryptEndOf
<1>4. QED
  BY <1>1, <1>2, <1>3 DEF Call

LEMMA WithPinOf ==
  ASSUME NEW s \in Streams, NEW d \in Driver, NEW c \in Card, NEW part \in Seq(Byte),
         NEW pad \in Pads(s), NEW cached \in BOOLEAN
  PROVE  WithPin(s, d, c, part, pad, cached) \in Reply
<1>1. PICK r \in Reply : r = Call(s, d, c, part, pad)
  BY CallOf
<1>2. r.driver \in Driver /\ [r.card EXCEPT !.pin = "verified"] \in Card
  BY DEF Reply, Card
<1>3. Call(s, r.driver, [r.card EXCEPT !.pin = "verified"], part, pad) \in Reply
  BY <1>2, CallOf
<1>4. [r EXCEPT !.answer = "error"] \in Reply
  BY DEF Reply
<1>5. QED
  BY <1>1, <1>3, <1>4 DEF WithPin

LEMMA PartOf ==
  ASSUME op \in [Streams -> Operation], NEW s \in Streams, NEW n \in Nat
  PROVE  Part(s, n) \in Seq(Byte) /\ Len(Part(s, n)) = n
<1>1. op[s].given \in Nat
  BY SymmetricStreamsAssumption DEF Operation
<1>2. \A i \in 1 .. n : <<s, op[s].given + i>> \in Byte
  BY <1>1 DEF Byte
<1>3. <<Foreign, 0>> \in Byte
  BY DEF Byte
<1>4. Part(s, n) \in [1 .. n -> Byte]
  BY <1>2, <1>3 DEF Part
<1>5. QED
  BY <1>4, SeqOf


-----------------------------------------------------------------------------
(* The types. *)

LEMMA NoneIsOperation == NoOperation \in Operation
<1>1. <<>> \in Seq(Text) /\ 0 \in 0 .. MaxBytes
  BY SymmetricStreamsAssumption
<1>2. QED
  BY <1>1 DEF NoOperation, Operation, Modes

\* The operations a call leaves.
LEMMA CrossedOf ==
  ASSUME NEW o \in Operation
  PROVE  Crossed(o) \in Operation
<1>1. [o EXCEPT !.mode = "ECB", !.out = <<>>, !.fate = "crossed"] \in Operation
  <2>1. <<>> \in Seq(Text)
    OBVIOUS
  <2>2. QED
    BY <2>1 DEF Operation, Modes
<1>2. QED
  BY <1>1, NoneIsOperation DEF Crossed

LEMMA BecomesOf ==
  ASSUME op \in [Streams -> Operation], NEW s \in Streams, NEW o \in Operation, Becomes(s, o)
  PROVE  op' \in [Streams -> Operation]
BY CrossedOf DEF Becomes

LEMMA FateOf ==
  ASSUME NEW s, NEW d, NEW c, NEW part, NEW pad, NEW fate \in {"whole", "short", "crossed"}
  PROVE  Fate(s, d, c, part, pad, fate) \in {"whole", "short", "crossed"}
BY DEF Fate

\* What a call adds to the record of its stream.
LEMMA GoesOn ==
  ASSUME NEW o \in Operation, NEW given \in 0 .. MaxBytes, NEW texts \in Seq(Text),
         NEW phase \in {"open", "done"}, NEW fate \in {"whole", "short", "crossed"}
  PROVE  /\ o.out \o texts \in Seq(Text)
         /\ [o EXCEPT !.given = given, !.out = o.out \o texts, !.fate = fate] \in Operation
         /\ [o EXCEPT !.phase = phase, !.out = o.out \o texts, !.fate = fate] \in Operation
         /\ [o EXCEPT !.phase = phase, !.given = given, !.out = o.out \o texts,
                      !.fate = fate] \in Operation
<1>1. o.out \in Seq(Text)
  BY DEF Operation
<1>2. o.out \o texts \in Seq(Text)
  BY <1>1, JoinOf
<1>3. \A out \in Seq(Text) :
        /\ [o EXCEPT !.given = given, !.out = out, !.fate = fate] \in Operation
        /\ [o EXCEPT !.phase = phase, !.out = out, !.fate = fate] \in Operation
        /\ [o EXCEPT !.phase = phase, !.given = given, !.out = out, !.fate = fate] \in Operation
  BY DEF Operation
<1>4. QED
  BY <1>2, <1>3

Reads(o, phase, mode, given, out, fate) ==
  o.phase = phase /\ o.mode = mode /\ o.given = given /\ o.out = out /\ o.fate = fate

LEMMA FieldsOf ==
  ASSUME NEW o \in Operation, NEW given, NEW out, NEW phase, NEW fate
  PROVE  /\ Reads([o EXCEPT !.given = given, !.out = out, !.fate = fate],
                  o.phase, o.mode, given, out, fate)
         /\ Reads([o EXCEPT !.phase = phase, !.out = out, !.fate = fate],
                  phase, o.mode, o.given, out, fate)
         /\ Reads([o EXCEPT !.phase = phase, !.given = given, !.out = out, !.fate = fate],
                  phase, o.mode, given, out, fate)
BY DEF Operation, Reads

LEMMA InitTypes == Init => TypeOK
<1>1. <<>> \in Seq(Byte) /\ <<>> \in Seq(Block) /\ Len(<<>>) = 0
  OBVIOUS
<1>2. Init => driver \in Driver
  BY <1>1, SizeIsPositive DEF Init, Driver
<1>3. Init => card \in Card
  BY <1>1 DEF Init, Card
<1>4. Init => op \in [Streams -> Operation]
  BY NoneIsOperation DEF Init
<1>5. QED
  BY <1>2, <1>3, <1>4 DEF TypeOK

LEMMA UpdateTypes ==
  ASSUME TypeOK, NEW s \in Streams, NEW n \in Parts, NEW cached \in BOOLEAN,
         StreamUpdate(s, n, cached)
  PROVE  /\ TypeOK'
         /\ LET r == WithPin(s, driver, card, Part(s, n), 0, cached) IN
            /\ driver' = r.driver /\ card' = r.card
            /\ \E o \in Operation :
                 /\ Becomes(s, o)
                 /\ \/ o = NoOperation
                    \/ /\ r.answer = "ok"
                       /\ Reads(o, "open", op[s].mode, op[s].given + n, op[s].out \o r.texts,
                                Fate(s, driver, card, Part(s, n), 0, op[s].fate))
<1> DEFINE r == WithPin(s, driver, card, Part(s, n), 0, cached)
           fate == Fate(s, driver, card, Part(s, n), 0, op[s].fate)
           o == [op[s] EXCEPT !.given = op[s].given + n, !.out = op[s].out \o r.texts,
                              !.fate = fate]
<1>1. n \in Nat /\ op[s] \in Operation
  BY SymmetricStreamsAssumption DEF TypeOK
<1>2. r \in Reply
  <2>1. Part(s, n) \in Seq(Byte)
    BY <1>1, PartOf DEF TypeOK
  <2>2. 0 \in Pads(s)
    BY SizeIsPositive DEF Pads
  <2> DEFINE part == Part(s, n)
  <2>3. part \in Seq(Byte)
    BY <2>1
  <2> HIDE DEF part
  <2>4. WithPin(s, driver, card, part, 0, cached) \in Reply
    BY <2>2, <2>3, WithPinOf DEF TypeOK
  <2>5. QED
    BY <2>4 DEF part
<1>3. r.driver \in Driver /\ r.card \in Card /\ r.texts \in Seq(Text)
  <2> HIDE DEF r
  <2>1. QED
    BY <1>2 DEF Reply
<1>4. fate \in {"whole", "short", "crossed"}
  BY <1>1, FateOf DEF Operation
<1>5. op[s].given + n \in 0 .. MaxBytes
  BY <1>1, SymmetricStreamsAssumption DEF StreamUpdate, Operation
<1>6. /\ driver' = r.driver /\ card' = r.card
      /\ Becomes(s, IF r.answer # "ok" THEN NoOperation ELSE o)
      /\ op[s].phase = "open"
  BY DEF StreamUpdate
<1> HIDE DEF r, fate
<1>7. o \in Operation
  BY <1>1, <1>3, <1>4, <1>5, GoesOn
<1>8. Reads(o, "open", op[s].mode, op[s].given + n, op[s].out \o r.texts, fate)
  BY <1>1, <1>6, FieldsOf
<1> HIDE DEF o
<1>9. (IF r.answer # "ok" THEN NoOperation ELSE o) \in Operation
  BY <1>7, NoneIsOperation
<1>10. op' \in [Streams -> Operation]
  BY <1>6, <1>9, BecomesOf DEF TypeOK
<1>11. TypeOK'
  BY <1>3, <1>6, <1>10 DEF TypeOK
<1>12. \E p \in Operation :
         /\ Becomes(s, p)
         /\ \/ p = NoOperation
            \/ /\ r.answer = "ok"
               /\ Reads(p, "open", op[s].mode, op[s].given + n, op[s].out \o r.texts, fate)
  BY <1>6, <1>7, <1>8, NoneIsOperation
<1>13. QED
  BY <1>6, <1>11, <1>12 DEF r, fate


LEMMA FinalTypes ==
  ASSUME TypeOK, NEW s \in Streams, NEW pad \in Pads(s), NEW cached \in BOOLEAN,
         StreamFinal(s, pad, cached)
  PROVE  /\ TypeOK'
         /\ LET r == WithPin(s, driver, card, <<>>, pad, cached) IN
            /\ driver' = r.driver /\ card' = r.card
            /\ \E o \in Operation :
                 /\ Becomes(s, o)
                 /\ \/ o = NoOperation
                    \/ /\ r.answer = "ok"
                       /\ Reads(o, "done", op[s].mode, op[s].given, op[s].out \o r.texts,
                                Fate(s, driver, card, <<>>, pad, op[s].fate))
<1> DEFINE r == WithPin(s, driver, card, <<>>, pad, cached)
           fate == Fate(s, driver, card, <<>>, pad, op[s].fate)
           o == [op[s] EXCEPT !.phase = "done", !.out = op[s].out \o r.texts, !.fate = fate]
<1>1. op[s] \in Operation
  BY DEF TypeOK
<1>2. r \in Reply
  <2>1. <<>> \in Seq(Byte)
    OBVIOUS
  <2>2. QED
    BY <2>1, WithPinOf DEF TypeOK
<1>3. r.driver \in Driver /\ r.card \in Card /\ r.texts \in Seq(Text)
  <2> HIDE DEF r
  <2>1. QED
    BY <1>2 DEF Reply
<1>4. fate \in {"whole", "short", "crossed"}
  BY <1>1, FateOf DEF Operation
<1>5. /\ driver' = r.driver /\ card' = r.card
      /\ Becomes(s, IF r.answer # "ok" THEN NoOperation ELSE o)
  BY DEF StreamFinal
<1> HIDE DEF r, fate
<1>6. o \in Operation
  <2>1. op[s].given \in 0 .. MaxBytes
    BY <1>1 DEF Operation
  <2>2. QED
    BY <1>1, <1>3, <1>4, <2>1, GoesOn
<1>7. Reads(o, "done", op[s].mode, op[s].given, op[s].out \o r.texts, fate)
  BY <1>1, FieldsOf
<1> HIDE DEF o
<1>8. (IF r.answer # "ok" THEN NoOperation ELSE o) \in Operation
  BY <1>6, NoneIsOperation
<1>9. op' \in [Streams -> Operation]
  BY <1>5, <1>8, BecomesOf DEF TypeOK
<1>10. TypeOK'
  BY <1>3, <1>5, <1>9 DEF TypeOK
<1>11. \E p \in Operation :
         /\ Becomes(s, p)
         /\ \/ p = NoOperation
            \/ /\ r.answer = "ok"
               /\ Reads(p, "done", op[s].mode, op[s].given, op[s].out \o r.texts, fate)
  BY <1>5, <1>6, <1>7, NoneIsOperation
<1>12. QED
  BY <1>5, <1>10, <1>11 DEF r, fate

LEMMA WholeTypes ==
  ASSUME TypeOK, NEW s \in Streams, NEW n \in Parts, NEW pad \in Pads(s),
         NEW cached \in BOOLEAN, StreamWhole(s, n, pad, cached)
  PROVE  /\ TypeOK'
         /\ LET part == Part(s, n)
                r == WithPin(s, driver, card, part, pad, cached)
                e == WithPin(s, r.driver, r.card, <<>>, pad, cached)
            IN  /\ r \in Reply
                /\ \E o \in Operation :
                     /\ Becomes(s, o)
                     /\ \/ o = NoOperation
                        \/ /\ r.answer = "ok" /\ e.answer = "ok"
                           /\ Reads(o, "done", op[s].mode, n, op[s].out \o r.texts \o e.texts,
                                    Fate(s, r.driver, r.card, <<>>, pad,
                                         Fate(s, driver, card, part, pad, op[s].fate)))
<1> DEFINE part == Part(s, n)
           r == WithPin(s, driver, card, part, pad, cached)
           e == WithPin(s, r.driver, r.card, <<>>, pad, cached)
           last == IF r.answer = "ok" THEN e ELSE r
           before == Fate(s, driver, card, part, pad, op[s].fate)
           fate == Fate(s, r.driver, r.card, <<>>, pad, before)
           o == [op[s] EXCEPT !.phase = "done", !.given = n,
                              !.out = op[s].out \o r.texts \o e.texts, !.fate = fate]
<1>1. n \in Nat /\ op[s] \in Operation
  BY SymmetricStreamsAssumption DEF TypeOK
<1>2. part \in Seq(Byte)
  BY <1>1, PartOf DEF TypeOK
<1>3. /\ driver' = last.driver /\ card' = last.card /\ n <= MaxBytes
      /\ Becomes(s, IF last.answer # "ok" THEN NoOperation ELSE o)
  BY DEF StreamWhole
<1>4. before \in {"whole", "short", "crossed"}
  BY <1>1, FateOf DEF Operation
<1>5. fate \in {"whole", "short", "crossed"}
  <2> HIDE DEF before, r
  <2>1. QED
    BY <1>4, FateOf
<1>6. r.answer # "ok" => last.answer # "ok"
  <2> HIDE DEF r, e
  <2>1. QED
    BY DEF last
<1>7. r.answer = "ok" => last.answer = e.answer
  <2> HIDE DEF r, e
  <2>1. QED
    BY DEF last
<1> HIDE DEF fate, before, part
<1>8. r \in Reply
  BY <1>2, WithPinOf DEF TypeOK
<1> HIDE DEF r
<1>9. r.driver \in Driver /\ r.card \in Card /\ r.texts \in Seq(Text)
  BY <1>8 DEF Reply
<1>10. e \in Reply
  <2>1. <<>> \in Seq(Byte)
    OBVIOUS
  <2>2. QED
    BY <1>9, <2>1, WithPinOf
<1> HIDE DEF e
<1>11. e.texts \in Seq(Text) /\ last.driver \in Driver /\ last.card \in Card
  BY <1>8, <1>10 DEF Reply
<1> HIDE DEF last
<1>12. o \in Operation
  <2>1. n \in 0 .. MaxBytes
    BY <1>1, <1>3, SymmetricStreamsAssumption
  <2>2. r.texts \o e.texts \in Seq(Text)
    BY <1>9, <1>11, JoinOf
  <2>3. op[s].out \o r.texts \o e.texts = op[s].out \o (r.texts \o e.texts)
    <3>1. op[s].out \in Seq(Text)
      BY <1>1 DEF Operation
    <3> DEFINE out == op[s].out
               first == r.texts
               second == e.texts
    <3>2. out \in Seq(Text) /\ first \in Seq(Text) /\ second \in Seq(Text)
      BY <1>9, <1>11, <3>1
    <3> HIDE DEF out, first, second
    <3>3. (out \o first) \o second = out \o (first \o second)
      BY <3>2, JoinIsAssociative
    <3>4. QED
      BY <3>3 DEF out, first, second
  <2> DEFINE texts == r.texts \o e.texts
  <2>4. texts \in Seq(Text)
    BY <2>2
  <2> HIDE DEF texts
  <2>5. [op[s] EXCEPT !.phase = "done", !.given = n, !.out = op[s].out \o texts,
                      !.fate = fate] \in Operation
    BY <1>1, <1>5, <2>1, <2>4, GoesOn
  <2>6. QED
    BY <2>3, <2>5 DEF texts
<1>13. Reads(o, "done", op[s].mode, n, op[s].out \o r.texts \o e.texts, fate)
  BY <1>1, FieldsOf
<1> HIDE DEF o
<1>14. (IF last.answer # "ok" THEN NoOperation ELSE o) \in Operation
  BY <1>12, NoneIsOperation
<1>15. op' \in [Streams -> Operation]
  BY <1>3, <1>14, BecomesOf DEF TypeOK
<1>16. TypeOK'
  BY <1>3, <1>11, <1>15 DEF TypeOK
<1>17. \E p \in Operation :
         /\ Becomes(s, p)
         /\ \/ p = NoOperation
            \/ /\ r.answer = "ok" /\ e.answer = "ok"
               /\ Reads(p, "done", op[s].mode, n, op[s].out \o r.texts \o e.texts, fate)
  BY <1>3, <1>12, <1>13, <1>6, <1>7, NoneIsOperation
<1>18. QED
  BY <1>8, <1>16, <1>17 DEF r, e, part, fate, before

LEMMA StartTypes ==
  ASSUME TypeOK, NEW s \in Streams, NEW m \in Modes
  PROVE  /\ StreamInit(s, m) => TypeOK'
         /\ StreamInitFails(s, m) => TypeOK'
<1>1. <<>> \in Seq(Byte) /\ <<>> \in Seq(Block) /\ Len(<<>>) = 0 /\ <<>> \in Seq(Text)
  OBVIOUS
<1>2. card \in Card /\ driver \in Driver
  BY DEF TypeOK
<1>3. ASSUME StreamInit(s, m) PROVE TypeOK'
  <2>1. Started(m) \in Operation
    BY NoneIsOperation DEF Started, Operation
  <2>2. driver' \in Driver
    BY <1>1, <1>3, SizeIsPositive DEF StreamInit, Driver
  <2>3. card' \in Card
    BY <1>1, <1>2, <1>3 DEF StreamInit, Card
  <2>4. op' \in [Streams -> Operation]
    BY <1>3, <2>1, BecomesOf DEF StreamInit, TypeOK
  <2>5. QED
    BY <2>2, <2>3, <2>4 DEF TypeOK
<1>4. ASSUME StreamInitFails(s, m) PROVE TypeOK'
  <2>1. driver' \in Driver
    BY <1>2, <1>4 DEF StreamInitFails, Driver
  <2>2. card' \in Card
    BY <1>2, <1>4 DEF StreamInitFails, Card
  <2>3. op' \in [Streams -> Operation]
    BY <1>4, NoneIsOperation, BecomesOf DEF StreamInitFails, TypeOK
  <2>4. QED
    BY <2>1, <2>2, <2>3 DEF TypeOK
<1>5. QED
  BY <1>3, <1>4

\* What other sessions, keys and processes do to the streams.
LEMMA OtherTypes ==
  ASSUME TypeOK
  PROVE  /\ UseOtherKey => TypeOK'
         /\ OtherApplication => TypeOK'
         /\ LosePin => TypeOK'
         /\ \A s \in Streams : StreamClosed(s) => TypeOK'
         /\ \A s \in Streams : \A pad : FinalSize(s, pad) => TypeOK'
<1>1. card \in Card /\ driver \in Driver /\ op \in [Streams -> Operation]
  BY DEF TypeOK
<1>2. AllCrossed \in [Streams -> Operation]
  BY <1>1, CrossedOf DEF AllCrossed
<1>3. UseOtherKey => TypeOK'
  BY <1>1, <1>2 DEF UseOtherKey, TypeOK, Driver, Card
<1>4. OtherApplication => TypeOK'
  BY <1>1, <1>2 DEF OtherApplication, TypeOK, Card
<1>5. LosePin => TypeOK'
  BY <1>1 DEF LosePin, TypeOK, Card
<1>6. \A s \in Streams : StreamClosed(s) => TypeOK'
  BY <1>1, NoneIsOperation DEF StreamClosed, TypeOK
<1>7. \A s \in Streams : \A pad : FinalSize(s, pad) => TypeOK'
  BY <1>1, NoneIsOperation DEF FinalSize, TypeOK
<1>8. QED
  BY <1>3, <1>4, <1>5, <1>6, <1>7

LEMMA NextTypes == TypeOK /\ [Next]_vars => TypeOK'
<1> SUFFICES ASSUME TypeOK, [Next]_vars PROVE TypeOK'
  OBVIOUS
<1>1. ASSUME NEW s \in Streams, NEW m \in Modes, StreamInit(s, m) \/ StreamInitFails(s, m)
      PROVE  TypeOK'
  BY <1>1, StartTypes
<1>2. ASSUME NEW s \in Streams, NEW n \in Parts, NEW cached \in BOOLEAN,
             StreamUpdate(s, n, cached)
      PROVE  TypeOK'
  BY <1>2, UpdateTypes
<1>3. ASSUME NEW s \in Streams, NEW pad \in Pads(s), NEW cached \in BOOLEAN,
             StreamFinal(s, pad, cached)
      PROVE  TypeOK'
  BY <1>3, FinalTypes
<1>4. ASSUME NEW s \in Streams, NEW pad \in Pads(s), FinalSize(s, pad)
      PROVE  TypeOK'
  BY <1>4, OtherTypes
<1>5. ASSUME NEW s \in Streams, NEW n \in Parts, NEW pad \in Pads(s), NEW cached \in BOOLEAN,
             StreamWhole(s, n, pad, cached)
      PROVE  TypeOK'
  BY <1>5, WholeTypes
<1>6. ASSUME NEW s \in Streams, StreamClosed(s) PROVE TypeOK'
  BY <1>6, OtherTypes
<1>7. CASE UseOtherKey \/ OtherApplication \/ LosePin
  BY <1>7, OtherTypes
<1>8. CASE UNCHANGED vars
  BY <1>8 DEF vars, TypeOK
<1>9. QED
  BY <1>1, <1>2, <1>3, <1>4, <1>5, <1>6, <1>7, <1>8 DEF Next

\* Whatever calls are made, the driver keeps less than a block of what it was
\* given and the card is handed whole blocks.
THEOREM TypeCorrect == Spec => []TypeOK
BY InitTypes, NextTypes, PTL DEF Spec


\* A call that succeeds never delivers more than the size reported for it.
LEMMA CallFits ==
  ASSUME TypeOK, NEW s \in Streams, NEW part \in Seq(Byte), NEW pad \in Pads(s),
         Call(s, driver, card, part, pad).answer = "ok"
  PROVE  Call(s, driver, card, part, pad).bytes <= Size(s, driver, part, pad)
<1> USE SizeIsPositive
<1>1. driver \in Driver /\ card \in Card
  BY DEF TypeOK
<1>2. driver.mode # OtherMode
  BY DEF Call, Refused, Answer
<1>3. CASE part # <<>>
  BY <1>1, <1>2, <1>3, UpdateOf DEF Call, Size
<1>4. CASE part = <<>> /\ s \in Decryptions
  <2>1. DecryptEnd(driver, card, pad) \in Reply
    BY <1>1, <1>4, DecryptEndOf
  <2>2. DecryptEnd(driver, card, pad).bytes \in Int
    BY <2>1 DEF Reply
  <2>3. Call(s, driver, card, part, pad) = DecryptEnd(driver, card, pad)
    BY <1>2, <1>4 DEF Call
  <2>4. Size(s, driver, part, pad) = DecryptEnd(driver, card, pad).bytes
    BY <1>2, <1>4, <2>3 DEF Size
  <2>5. QED
    BY <2>2, <2>3, <2>4
<1>5. CASE part = <<>> /\ s \notin Decryptions
  <2>1. Call(s, driver, card, part, pad) = EncryptEnd(s, driver, card)
    BY <1>2, <1>5 DEF Call
  <2>2. /\ EncryptEnd(s, driver, card).bytes =
             IF driver.mode = "CBC_PAD" THEN BlockSize ELSE 0
        /\ driver.mode # "CBC_PAD" => driver.crypt = <<>>
    BY <1>1, <2>1, EncryptEndOf
  <2>3. Size(s, driver, part, pad) = IF driver.mode = "CBC_PAD" THEN BlockSize ELSE 0
    BY <1>2, <1>5, <2>2 DEF Size
  <2>4. QED
    BY <2>1, <2>2, <2>3
<1>6. QED
  BY <1>3, <1>4, <1>5

\* The size reported for a call holds whatever the call delivers, in every mode,
\* for every split of the bytes and with whatever earlier calls left behind.
THEOREM SizesHold == Spec => []SizesSuffice
<1>1. TypeOK => SizesSuffice
  <2> SUFFICES ASSUME TypeOK, NEW s \in Open, NEW n \in Parts \cup {0}, NEW pad \in Pads(s),
                      WithPin(s, driver, card, Part(s, n), pad, FALSE).answer = "ok"
               PROVE  WithPin(s, driver, card, Part(s, n), pad, FALSE).bytes
                        <= Size(s, driver, Part(s, n), pad)
    BY DEF SizesSuffice
  <2> DEFINE part == Part(s, n)
             q == Call(s, driver, card, part, pad)
  <2>1. s \in Streams /\ n \in Nat
    BY SymmetricStreamsAssumption DEF Open
  <2>2. part \in Seq(Byte)
    BY <2>1, PartOf DEF TypeOK
  <2>3. WithPin(s, driver, card, part, pad, FALSE) =
          IF q.answer # "pin" THEN q ELSE [q EXCEPT !.answer = "error"]
    BY DEF WithPin
  <2> HIDE DEF part
  <2>4. q \in Reply
    BY <2>1, <2>2, CallOf DEF TypeOK
  <2> HIDE DEF q
  <2>5. [q EXCEPT !.answer = "error"].answer = "error"
    BY <2>4 DEF Reply
  <2>6. q.answer = "ok" /\ WithPin(s, driver, card, part, pad, FALSE) = q
    <3>1. WithPin(s, driver, card, part, pad, FALSE).answer = "ok"
      BY DEF part
    <3>2. QED
      BY <2>3, <2>5, <3>1
  <2>7. q.bytes <= Size(s, driver, part, pad)
    BY <2>1, <2>2, <2>6, CallFits DEF q
  <2>8. QED
    BY <2>6, <2>7 DEF part
<1>2. QED
  BY <1>1, TypeCorrect, PTL


-----------------------------------------------------------------------------
(* A stream that nothing befalls. *)

\* The n bytes of a stream that follow its first a bytes.
Run(s, a, n) == [i \in 1 .. n |-> <<s, a + i>>]

LEMMA RunOf ==
  ASSUME NEW s \in Streams, NEW a \in Nat, NEW n \in Nat
  PROVE  /\ Run(s, a, n) \in Seq(Byte) /\ Len(Run(s, a, n)) = n
         /\ \A i \in 1 .. n : Run(s, a, n)[i] = <<s, a + i>>
         /\ Run(s, a, 0) = <<>>
<1>1. \A i \in 1 .. n : <<s, a + i>> \in Byte
  BY DEF Byte
<1>2. Run(s, a, n) \in [1 .. n -> Byte]
  BY <1>1 DEF Run
<1>3. Run(s, a, n) \in Seq(Byte) /\ Len(Run(s, a, n)) = n
  BY <1>2, SeqOf
<1>4. \A i \in 1 .. n : Run(s, a, n)[i] = <<s, a + i>>
  BY DEF Run
<1>5. Run(s, a, 0) = <<>>
  BY DEF Run
<1>6. QED
  BY <1>3, <1>4, <1>5

RunJoins(s, a, n, k) == Run(s, a, n) \o Run(s, a + n, k) = Run(s, a, n + k)

LEMMA RunJoin ==
  ASSUME NEW s \in Streams, NEW a \in Nat, NEW n \in Nat, NEW k \in Nat
  PROVE  RunJoins(s, a, n, k)
<1> DEFINE f == Run(s, a, n)
           g == Run(s, a + n, k)
           h == Run(s, a, n + k)
           w == f \o g
<1>0. a + n \in Nat /\ n + k \in Nat
  OBVIOUS
<1>1. f \in Seq(Byte) /\ Len(f) = n /\ \A i \in 1 .. n : f[i] = <<s, a + i>>
  BY RunOf
<1>2. g \in Seq(Byte) /\ Len(g) = k /\ \A i \in 1 .. k : g[i] = <<s, (a + n) + i>>
  BY <1>0, RunOf, Zenon
<1>3. h \in Seq(Byte) /\ Len(h) = n + k /\ \A i \in 1 .. n + k : h[i] = <<s, a + i>>
  BY <1>0, RunOf, Zenon
<1> HIDE DEF f, g, h
<1>4. /\ w \in Seq(Byte) /\ Len(w) = n + k
      /\ \A i \in 1 .. n : w[i] = f[i]
      /\ \A i \in 1 .. k : w[n + i] = g[i]
  <2>1. f \in Seq(Byte) /\ g \in Seq(Byte)
    BY <1>1, <1>2
  <2>2. /\ w \in Seq(Byte) /\ Len(w) = Len(f) + Len(g)
        /\ \A i \in 1 .. Len(f) : w[i] = f[i]
        /\ \A i \in 1 .. Len(g) : w[Len(f) + i] = g[i]
    BY <2>1, JoinOf
  <2>3. QED
    BY <1>1, <1>2, <2>2
<1> HIDE DEF w
<1>5. ASSUME NEW i \in 1 .. n + k PROVE w[i] = h[i]
  <2>1. CASE i <= n
    <3>1. i \in 1 .. n
      BY <2>1
    <3>2. w[i] = f[i] /\ f[i] = <<s, a + i>> /\ h[i] = <<s, a + i>>
      BY <1>1, <1>3, <1>4, <3>1
    <3>3. QED
      BY <3>2
  <2>2. CASE i > n
    <3>1. PICK j \in 1 .. k : i = n + j
      <4>1. i - n \in 1 .. k /\ i = n + (i - n)
        BY <2>2
      <4>2. QED
        BY <4>1
    <3>2. (a + n) + j = a + (n + j)
      OBVIOUS
    <3>3. QED
      BY <1>2, <1>3, <1>4, <3>1, <3>2
  <2>3. QED
    BY <2>1, <2>2
<1>6. w = h
  BY <1>3, <1>4, <1>5, SameSeqs
<1>7. QED
  BY <1>6 DEF RunJoins, w, f, g, h

RunSubs(s, a, n, b, e) == SubSeq(Run(s, a, n), b + 1, e) = Run(s, a + b, e - b)

LEMMA RunSub ==
  ASSUME NEW s \in Streams, NEW a \in Nat, NEW n \in Nat, NEW b \in Nat, NEW e \in Nat,
         b <= e, e <= n
  PROVE  RunSubs(s, a, n, b, e)
<1> DEFINE f == Run(s, a, n)
           g == SubSeq(f, b + 1, e)
           h == Run(s, a + b, e - b)
<1>1. f \in Seq(Byte) /\ Len(f) = n /\ \A i \in 1 .. n : f[i] = <<s, a + i>>
  BY RunOf
<1>2. h \in Seq(Byte) /\ Len(h) = e - b /\ \A i \in 1 .. e - b : h[i] = <<s, a + b + i>>
  <2>1. PICK k \in Nat, c \in Nat : k = e - b /\ c = a + b
    OBVIOUS
  <2>2. /\ Run(s, c, k) \in Seq(Byte) /\ Len(Run(s, c, k)) = k
        /\ \A i \in 1 .. k : Run(s, c, k)[i] = <<s, c + i>>
    BY RunOf
  <2>3. QED
    BY <2>1, <2>2
<1> HIDE DEF f, h
<1>3. /\ g \in Seq(Byte) /\ Len(g) = e - b
      /\ \A i \in 1 .. e - b : g[i] = f[b + i]
  <2>1. f \in Seq(Byte) /\ e <= Len(f)
    BY <1>1
  <2>2. QED
    BY <2>1, SubSeqOf
<1> HIDE DEF g
<1>4. ASSUME NEW i \in 1 .. e - b PROVE g[i] = h[i]
  <2>1. b + i \in 1 .. n /\ a + (b + i) = a + b + i
    OBVIOUS
  <2>2. QED
    BY <1>1, <1>2, <1>3, <2>1
<1>5. g = h
  BY <1>2, <1>3, <1>4, SameSeqs
<1>6. QED
  BY <1>5 DEF RunSubs, g, f, h

\* The same with the sums named.
LEMMA RunsMeet ==
  ASSUME NEW s \in Streams, NEW a \in Nat, NEW n \in Nat, NEW b \in Nat, NEW k \in Nat,
         NEW l \in Nat, b = a + n, l = n + k
  PROVE  Run(s, a, n) \o Run(s, b, k) = Run(s, a, l)
<1>1. RunJoins(s, a, n, k)
  BY RunJoin
<1>2. QED
  BY <1>1 DEF RunJoins

LEMMA RunLength ==
  ASSUME NEW s \in Streams, NEW a \in Nat, NEW n \in Nat
  PROVE  Run(s, a, n) \in Seq(Byte) /\ Len(Run(s, a, n)) = n
BY RunOf

\* The bytes given are the whole blocks' and less than a block more.
LEMMA BytesOf ==
  ASSUME NEW s \in Streams, NEW g \in Nat
  PROVE  /\ Bytes(s, g) = Run(s, 0, g)
         /\ Bytes(s, g) = Run(s, 0, Whole(g)) \o Run(s, Whole(g), g % BlockSize)
         /\ Cut(Bytes(s, g)) = Cut(Run(s, 0, Whole(g)))
<1>1. Bytes(s, g) = Run(s, 0, g)
  BY DEF Bytes, Run
<1>2. PICK w \in Nat, r \in Nat : /\ w = Whole(g) /\ r = g % BlockSize /\ g = w + r
                                  /\ w % BlockSize = 0 /\ r < BlockSize
  <2>1. /\ Whole(g) \in Nat /\ Whole(g) % BlockSize = 0
        /\ g - Whole(g) = g % BlockSize /\ g % BlockSize \in 0 .. BlockSize - 1
    BY WholeLength
  <2>2. PICK w \in Nat, r \in Nat : w = Whole(g) /\ r = g % BlockSize /\ r < BlockSize
    BY <2>1, SizeIsPositive
  <2>3. g - w = r
    BY <2>1, <2>2
  <2>4. g = w + r
    BY <2>3
  <2>5. QED
    BY <2>1, <2>2, <2>4
<1>3. Run(s, 0, w) \o Run(s, w, r) = Run(s, 0, g)
  <2>1. 0 \in Nat /\ 0 + w = w
    OBVIOUS
  <2>2. RunJoins(s, 0, w, r)
    BY <2>1, RunJoin
  <2>3. QED
    BY <1>2, <2>1, <2>2 DEF RunJoins
<1>4. Cut(Run(s, 0, g)) = Cut(Run(s, 0, w))
  <2> DEFINE x == Run(s, 0, w)
             y == Run(s, w, r)
  <2>1. x \in Seq(Byte) /\ Len(x) % BlockSize = 0
    BY <1>2, RunOf
  <2>2. y \in Seq(Byte) /\ Len(y) = r
    BY RunOf
  <2> HIDE DEF x, y
  <2>3. Cut(x \o y) = Cut(x) \o Cut(y)
    BY <2>1, <2>2, CutJoin
  <2>4. r \div BlockSize = 0
    BY <1>2, ShortIsRest
  <2>5. Cut(y) \in Seq(Block) /\ Len(Cut(y)) = 0
    BY <2>2, <2>4, CutOf
  <2>6. Cut(y) = <<>>
    BY <2>5, JoinOfNone
  <2>7. Cut(x) \in Seq(Block)
    BY <2>1, CutOf
  <2>8. Cut(x) \o <<>> = Cut(x)
    BY <2>7, JoinOfNone
  <2>9. QED
    BY <1>3, <2>3, <2>6, <2>8 DEF x, y
<1>5. QED
  BY <1>1, <1>2, <1>3, <1>4


\* What the card makes of bytes from the start of a stream.
Made(m, s, bytes) == Texts(s, m, s, <<>>, Cut(bytes))

AllButLast(texts) == IF texts = <<>> THEN texts ELSE SubSeq(texts, 1, Len(texts) - 1)

\* A stream in progress that nothing has befallen: the driver holds the bytes
\* after its last whole block and, of a decryption, the last text; the card has
\* the stream's environment and the chaining of all its blocks.
InHand(s, m, g, out, d, c) ==
  LET texts == Made(m, s, Bytes(s, g)) IN
  /\ d.mode = m
  /\ d.crypt = Run(s, Whole(g), g % BlockSize)
  /\ c.env = s
  /\ c.chain = Chained(m, s, <<>>, Cut(Bytes(s, g)))
  /\ s \notin Decryptions => out = texts
  /\ s \in Decryptions =>
       /\ out = AllButLast(texts)
       /\ d.plain = IF texts = <<>> THEN NoBlock ELSE texts[Len(texts)]

InStep(s, o, d, c) ==
  o.phase = "open" /\ o.fate = "whole" => InHand(s, o.mode, o.given, o.out, d, c)

\* One that is finished.
PaddingDue(s, m, g) ==
  IF m = "CBC_PAD" /\ s \notin Decryptions THEN Padding(s, BlockSize - (g % BlockSize)) ELSE <<>>

Delivered(s, m, g, out) ==
  /\ out = Made(m, s, Bytes(s, g) \o PaddingDue(s, m, g))
  /\ s \in Decryptions \/ m # "CBC_PAD" => g % BlockSize = 0

Finished(s, o) ==
  o.phase = "done" /\ o.fate = "whole" => Delivered(s, o.mode, o.given, o.out)

WholeInv ==
  \A s \in Streams : InStep(s, op[s], driver, card) /\ Finished(s, op[s])

LEMMA MadeOf ==
  ASSUME NEW m, NEW s \in Streams, NEW bytes \in Seq(Byte)
  PROVE  /\ Made(m, s, bytes) \in Seq(Text)
         /\ Len(Made(m, s, bytes)) = Len(bytes) \div BlockSize
<1>1. Cut(bytes) \in Seq(Block) /\ Len(Cut(bytes)) = Len(bytes) \div BlockSize
  BY CutOf
<1>2. <<>> \in Seq(Block) /\ s \in Env
  BY DEF Env
<1> DEFINE cut == Cut(bytes)
<1>3. cut \in Seq(Block)
  BY <1>1
<1> HIDE DEF cut
<1>4. /\ Texts(s, m, s, <<>>, cut) \in Seq(Text)
      /\ Len(Texts(s, m, s, <<>>, cut)) = Len(cut)
  BY <1>2, <1>3, TextsOf
<1>5. QED
  BY <1>1, <1>4 DEF Made, cut

\* It follows from the invariant that the streams are whole.
LEMMA WholeShows == TypeOK /\ WholeInv => StreamsAreWhole
<1> SUFFICES ASSUME TypeOK, WholeInv, NEW s \in Streams, op[s].fate = "whole"
             PROVE  /\ op[s].phase = "open" =>
                         op[s].out = IF s \in Decryptions /\ Due(s) # <<>>
                                     THEN SubSeq(Due(s), 1, Len(Due(s)) - 1) ELSE Due(s)
                    /\ op[s].phase = "done" =>
                         /\ op[s].out = Due(s)
                         /\ s \in Decryptions \/ op[s].mode # "CBC_PAD" =>
                              op[s].given % BlockSize = 0
  BY DEF StreamsAreWhole
<1>1. InStep(s, op[s], driver, card) /\ Finished(s, op[s])
  BY DEF WholeInv
<1>2. op[s].given \in Nat
  BY SymmetricStreamsAssumption DEF TypeOK, Operation
<1>3. Bytes(s, op[s].given) \o <<>> = Bytes(s, op[s].given)
  <2>1. Bytes(s, op[s].given) \in Seq(Byte)
    <3>1. 0 \in Nat
      OBVIOUS
    <3>2. Run(s, 0, op[s].given) \in Seq(Byte)
      BY <1>2, <3>1, RunOf, Zenon
    <3>3. QED
      BY <1>2, <3>2, BytesOf
  <2>2. QED
    BY <2>1, JoinOfNone
<1>4. ASSUME op[s].phase = "open" PROVE Due(s) = Made(op[s].mode, s, Bytes(s, op[s].given))
  BY <1>3, <1>4 DEF Due, Made
<1>5. ASSUME op[s].phase = "done"
      PROVE  Due(s) = Made(op[s].mode, s, Bytes(s, op[s].given) \o PaddingDue(s, op[s].mode, op[s].given))
  BY <1>5 DEF Due, Made, PaddingDue
<1>6. op[s].phase = "open" =>
        op[s].out = IF s \in Decryptions /\ Due(s) # <<>>
                    THEN SubSeq(Due(s), 1, Len(Due(s)) - 1) ELSE Due(s)
  BY <1>1, <1>4 DEF InStep, InHand, AllButLast
<1>7. op[s].phase = "done" =>
        /\ op[s].out = Due(s)
        /\ s \in Decryptions \/ op[s].mode # "CBC_PAD" => op[s].given % BlockSize = 0
  BY <1>1, <1>5 DEF Finished, Delivered
<1>8. QED
  BY <1>6, <1>7

\* Nothing is claimed of a stream that something has befallen or that has ended.
LEMMA NothingClaimed ==
  ASSUME NEW s, NEW d, NEW c
  PROVE  /\ InStep(s, NoOperation, d, c) /\ Finished(s, NoOperation)
         /\ \A o \in Operation : /\ InStep(s, Crossed(o), d, c) /\ Finished(s, Crossed(o))
                                 /\ o.fate # "whole" => InStep(s, o, d, c) /\ Finished(s, o)
<1>1. NoOperation.phase = "idle"
  BY DEF NoOperation
<1>2. InStep(s, NoOperation, d, c) /\ Finished(s, NoOperation)
  BY <1>1 DEF InStep, Finished
<1>3. ASSUME NEW o \in Operation PROVE InStep(s, Crossed(o), d, c) /\ Finished(s, Crossed(o))
  <2>1. CASE o.phase = "open"
    <3>1. Crossed(o) = [o EXCEPT !.mode = "ECB", !.out = <<>>, !.fate = "crossed"]
      BY <2>1 DEF Crossed
    <3>2. Crossed(o).fate = "crossed"
      BY <3>1 DEF Operation
    <3>3. QED
      BY <3>2 DEF InStep, Finished
  <2>2. CASE o.phase # "open"
    BY <1>2, <2>2 DEF Crossed
  <2>3. QED
    BY <2>1, <2>2
<1>4. \A o \in Operation : o.fate # "whole" => InStep(s, o, d, c) /\ Finished(s, o)
  BY DEF InStep, Finished
<1>5. QED
  BY <1>2, <1>3, <1>4

\* A call disturbs no other stream that is whole.
LEMMA OthersStay ==
  ASSUME TypeOK, WholeInv, NEW s \in Streams, NEW o \in Operation, Becomes(s, o),
         o.fate # "crossed" => InStep(s, o, driver', card') /\ Finished(s, o)
  PROVE  WholeInv'
<1> SUFFICES ASSUME NEW t \in Streams
             PROVE  InStep(t, op'[t], driver', card') /\ Finished(t, op'[t])
  BY DEF WholeInv
<1>1. op[t] \in Operation /\ InStep(t, op[t], driver, card) /\ Finished(t, op[t])
  BY DEF TypeOK, WholeInv
<1>2. op'[t] = IF t = s THEN IF o.fate = "crossed" THEN Crossed(o) ELSE o
               ELSE IF <<driver, card>>' = <<driver, card>> THEN op[t] ELSE Crossed(op[t])
  BY DEF Becomes
<1>3. CASE t = s
  BY <1>2, <1>3, NothingClaimed
<1>4. CASE t # s /\ <<driver, card>>' = <<driver, card>>
  <2>1. driver' = driver /\ card' = card /\ op'[t] = op[t]
    BY <1>2, <1>4
  <2>2. QED
    BY <1>1, <2>1
<1>5. CASE t # s /\ <<driver, card>>' # <<driver, card>>
  <2>1. op'[t] = Crossed(op[t])
    BY <1>2, <1>5
  <2>2. QED
    BY <1>1, <2>1, NothingClaimed
<1>6. QED
  BY <1>3, <1>4, <1>5


\* Bytes that are processed.
WellProcessed(s, d, c, bytes, r) ==
  /\ r.answer = "ok" =>
       /\ r.texts = Texts(c.env, d.mode, s, c.chain, Cut(bytes))
       /\ r.card \in Card /\ r.card.env = c.env
       /\ r.card.chain = Chained(d.mode, s, c.chain, Cut(bytes))
       /\ r.driver \in Driver /\ r.driver.mode = d.mode /\ r.driver.plain = d.plain
  /\ r.answer = "pin" => r.driver = [d EXCEPT !.crypt = <<>>] /\ r.card = c

LEMMA ProcessedIs ==
  ASSUME NEW s \in Streams, NEW d \in Driver, NEW c \in Card, NEW bytes \in Seq(Byte)
  PROVE  WellProcessed(s, d, c, bytes, Processed(s, d, c, bytes))
<1> DEFINE taken == [d EXCEPT !.crypt = <<>>]
           texts == Texts(c.env, d.mode, s, c.chain, Cut(bytes))
           chain == Chained(d.mode, s, c.chain, Cut(bytes))
           r == Processed(s, d, c, bytes)
<1>1. r \in Reply
  BY ProcessedOf
<1>2. taken \in Driver /\ taken.mode = d.mode /\ taken.plain = d.plain
  <2>1. taken \in Driver
    BY DriverWith
  <2>2. d \in [mode : Modes \cup {OtherMode}, crypt : Seq(Byte), plain : Text \cup {NoBlock}]
    BY DEF Driver
  <2>3. QED
    BY <2>1, <2>2
<1>3. r.driver \in Driver /\ r.card \in Card
  <2> HIDE DEF r
  <2>1. QED
    BY <1>1 DEF Reply
<1>4. CASE bytes = <<>>
  <2>1. r = Answer("ok", d, c, <<>>, 0)
    BY <1>4 DEF Processed
  <2>2. Cut(bytes) = <<>>
    <3>1. bytes \in Seq(Byte) /\ Len(bytes) = 0
      BY <1>4
    <3>2. Cut(bytes) \in Seq(Block) /\ Len(Cut(bytes)) = Len(bytes) \div BlockSize
      BY CutOf
    <3>3. 0 \in Nat /\ 0 < BlockSize
      BY SizeIsPositive
    <3>4. 0 \div BlockSize = 0
      BY <3>3, ShortIsRest
    <3>5. Len(Cut(bytes)) = 0
      BY <3>1, <3>2, <3>4
    <3>6. QED
      BY <3>2, <3>5, JoinOfNone
  <2>3. texts = <<>> /\ chain = c.chain
    BY <2>2 DEF Texts, Chained
  <2>4. r.answer = "ok" /\ r.texts = <<>> /\ r.card = c /\ r.driver = d
    BY <2>1 DEF Answer
  <2> HIDE DEF WellProcessed, r, texts, chain
  <2>5. QED
    BY <2>3, <2>4 DEF WellProcessed, r, texts, chain
<1>5. CASE bytes # <<>> /\ c.env = NoEnv
  <2>1. r = Answer("error", taken, c, <<>>, 0)
    BY <1>5 DEF Processed, Refused
  <2>2. r.answer = "error"
    BY <2>1 DEF Answer
  <2>3. QED
    BY <2>2 DEF WellProcessed
<1>6. CASE bytes # <<>> /\ c.env # NoEnv /\ c.pin = "lost"
  <2>1. r = Answer("pin", taken, c, <<>>, 0)
    BY <1>6 DEF Processed, Refused
  <2>2. r.answer = "pin" /\ r.driver = taken /\ r.card = c
    BY <2>1 DEF Answer
  <2>3. QED
    BY <2>2 DEF WellProcessed
<1>7. CASE bytes # <<>> /\ c.env # NoEnv /\ c.pin # "lost"
  <2> DEFINE after == [c EXCEPT !.chain = chain]
  <2>1. r = Answer("ok", taken, after, texts, Len(bytes))
    BY <1>7 DEF Processed
  <2>2. after.env = c.env /\ after.chain = chain
    <3> HIDE DEF chain
    <3>1. QED
      BY DEF Card
  <2> HIDE DEF after, texts, chain, taken
  <2>3. /\ r.answer = "ok" /\ r.texts = texts /\ r.card = after /\ r.driver = taken
    BY <2>1 DEF Answer
  <2> HIDE DEF r
  <2>4. /\ r.texts = texts /\ r.card \in Card /\ r.card.env = c.env /\ r.card.chain = chain
        /\ r.driver \in Driver /\ r.driver.mode = d.mode /\ r.driver.plain = d.plain
        /\ r.answer = "ok"
    BY <1>2, <1>3, <2>2, <2>3
  <2>5. QED
    BY <2>4 DEF WellProcessed, r, texts, chain
<1>8. QED
  BY <1>4, <1>5, <1>6, <1>7

\* A call for which the card wants the PIN has changed nothing but that the
\* driver has let go of what it held.
LEMMA PinAsked ==
  ASSUME NEW s \in Streams, NEW d \in Driver, NEW c \in Card, NEW part \in Seq(Byte),
         NEW pad, Call(s, d, c, part, pad).answer = "pin"
  PROVE  /\ Call(s, d, c, part, pad).driver = [d EXCEPT !.crypt = <<>>]
         /\ Call(s, d, c, part, pad).card = c
<1>0. \A x \in Driver, y \in Card : Refused("error", x, y).answer = "error"
  BY DEF Refused, Answer
<1>1. ASSUME part # <<>>, d.mode # OtherMode
      PROVE  /\ Call(s, d, c, part, pad).driver = [d EXCEPT !.crypt = <<>>]
             /\ Call(s, d, c, part, pad).card = c
  <2> DEFINE all == d.crypt \o part
             x == SubSeq(all, 1, Whole(Len(all)))
             r == Processed(s, d, c, x)
  <2>1. d.crypt \in Seq(Byte)
    BY DriverWith
  <2>2. all \in Seq(Byte)
    BY <2>1, JoinOf
  <2>3. x \in Seq(Byte)
    <3> HIDE DEF all
    <3>1. QED
      BY <2>2, BlocksOfAll
  <2> HIDE DEF x
  <2>4. r.answer = "pin" => r.driver = [d EXCEPT !.crypt = <<>>] /\ r.card = c
    BY <2>3, ProcessedIs DEF WellProcessed, r
  <2>5. r \in Reply
    BY <2>3, ProcessedOf
  <2> HIDE DEF r
  <2>6. /\ r.answer # "ok" => Update(s, d, c, part) = r
        /\ r.answer = "ok" => Update(s, d, c, part).answer = "ok"
    <3>1. r.answer # "ok" => Update(s, d, c, part) = r
      BY DEF Update, r, x, all
    <3>2. ASSUME r.answer = "ok" PROVE Update(s, d, c, part).answer = "ok"
      <4>1. \A v : [r EXCEPT !.driver = v].answer = "ok"
        BY <2>5, <3>2 DEF Reply
      <4>2. \A v, w, y, z : Answer("ok", v, w, y, z).answer = "ok"
        BY DEF Answer
      <4>3. \/ \E v : Update(s, d, c, part) = [r EXCEPT !.driver = v]
            \/ \E v, w, y, z : Update(s, d, c, part) = Answer("ok", v, w, y, z)
        BY <3>2 DEF Update, r, x, all
      <4>4. CASE \E v : Update(s, d, c, part) = [r EXCEPT !.driver = v]
        <5>1. PICK v : Update(s, d, c, part) = [r EXCEPT !.driver = v]
          BY <4>4
        <5>2. QED
          BY <4>1, <5>1
      <4>5. CASE \E v, w, y, z : Update(s, d, c, part) = Answer("ok", v, w, y, z)
        <5>1. PICK v, w, y, z : Update(s, d, c, part) = Answer("ok", v, w, y, z)
          BY <4>5
        <5>2. QED
          BY <4>2, <5>1
      <4>6. QED
        BY <4>3, <4>4, <4>5
    <3>3. QED
      BY <3>1, <3>2
  <2>7. Call(s, d, c, part, pad) = Update(s, d, c, part)
    BY <1>1 DEF Call
  <2>8. QED
    BY <2>4, <2>6, <2>7
<1>2. ASSUME part = <<>>, d.mode # OtherMode, s \notin Decryptions
      PROVE  /\ Call(s, d, c, part, pad).driver = [d EXCEPT !.crypt = <<>>]
             /\ Call(s, d, c, part, pad).card = c
  <2> DEFINE last == d.crypt \o Padding(s, BlockSize - Len(d.crypt))
  <2>1. Call(s, d, c, part, pad) = EncryptEnd(s, d, c)
    BY <1>2 DEF Call
  <2>2. \A v, w, y, z : Answer("ok", v, w, y, z).answer = "ok"
    BY DEF Answer
  <2>3. d.mode = "CBC_PAD"
    BY <1>0, <2>1, <2>2 DEF EncryptEnd
  <2>4. EncryptEnd(s, d, c) = Processed(s, d, c, last)
    BY <2>3 DEF EncryptEnd
  <2>5. last \in Seq(Byte)
    <3> USE SizeIsPositive
    <3>1. d.crypt \in Seq(Byte) /\ Len(d.crypt) \in 0 .. BlockSize - 1
      BY DriverWith
    <3>2. \A l \in 0 .. BlockSize - 1 : BlockSize - l \in Nat
      OBVIOUS
    <3>3. Padding(s, BlockSize - Len(d.crypt)) \in Seq(Byte)
      BY <3>1, <3>2, PaddingOf
    <3>4. QED
      BY <3>1, <3>3, JoinOf
  <2> HIDE DEF last
  <2>6. QED
    BY <2>1, <2>4, <2>5, ProcessedIs DEF WellProcessed
<1>3. ASSUME part = <<>>, s \in Decryptions PROVE FALSE
  <2>1. \A v, w, y, z : Answer("ok", v, w, y, z).answer = "ok"
    BY DEF Answer
  <2>2. d.mode # OtherMode
    BY <1>0 DEF Call
  <2>3. Call(s, d, c, part, pad) = DecryptEnd(d, c, pad)
    BY <1>3, <2>2 DEF Call
  <2>4. DecryptEnd(d, c, pad).answer \in {"ok", "error"}
    BY <1>0, <2>1 DEF DecryptEnd
  <2>5. QED
    BY <2>3, <2>4
<1>4. d.mode # OtherMode
  BY <1>0 DEF Call
<1>5. QED
  BY <1>1, <1>2, <1>3, <1>4

\* A call that succeeds and has the stream whole is one the driver made, the PIN
\* asked for before it or not.
LEMMA WithPinIs ==
  ASSUME NEW s \in Streams, NEW d \in Driver, NEW c \in Card, NEW part \in Seq(Byte),
         NEW pad, NEW cached \in BOOLEAN,
         ~AskedForPin(s, d, c, part, pad),
         WithPin(s, d, c, part, pad, cached).answer = "ok"
  PROVE  \E k \in Card :
           /\ k.env = c.env /\ k.chain = c.chain
           /\ WithPin(s, d, c, part, pad, cached) = Call(s, d, k, part, pad)
<1> DEFINE q == Call(s, d, c, part, pad)
           k == [c EXCEPT !.pin = "verified"]
<1>1. CASE q.answer # "pin"
  <2>1. WithPin(s, d, c, part, pad, cached) = q
    BY <1>1 DEF WithPin
  <2>2. QED
    BY <2>1
<1>2. CASE q.answer = "pin"
  <2>1. q.driver = [d EXCEPT !.crypt = <<>>] /\ q.card = c
    BY <1>2, PinAsked
  <2>2. d.crypt = <<>>
    BY <1>2 DEF AskedForPin
  <2>3. q.driver = d
    BY <2>1, <2>2 DEF Driver
  <2>4. k \in Card /\ k.env = c.env /\ k.chain = c.chain
    BY DEF Card
  <2>5. WithPin(s, d, c, part, pad, cached) =
          IF cached THEN Call(s, d, k, part, pad) ELSE [q EXCEPT !.answer = "error"]
    <3>1. [q.card EXCEPT !.pin = "verified"] = k
      BY <2>1
    <3> HIDE DEF k, q
    <3>2. WithPin(s, d, c, part, pad, cached) =
            IF q.answer # "pin" THEN q
            ELSE IF cached
            THEN Call(s, q.driver, [q.card EXCEPT !.pin = "verified"], part, pad)
            ELSE [q EXCEPT !.answer = "error"]
      BY DEF WithPin, q
    <3>3. QED
      BY <1>2, <2>3, <3>1, <3>2
  <2>6. CASE cached
    <3> HIDE DEF k, q
    <3>1. QED
      BY <2>4, <2>5, <2>6
  <2>7. CASE ~cached
    <3>1. [q EXCEPT !.answer = "error"].answer # "ok"
      <4>1. q.answer = "pin"
        BY <1>2
      <4>2. QED
        BY <4>1
    <3>2. QED
      BY <2>5, <2>7, <3>1
  <2>8. QED
    BY <2>6, <2>7
<1>3. QED
  BY <1>1, <1>2


-----------------------------------------------------------------------------
(* A part of a whole stream. *)

\* The blocks a part completes follow those that are done.
FollowOn(s, g, n, all) ==
  LET x == SubSeq(all, 1, Whole(Len(all)))
  IN  /\ all \in Seq(Byte) /\ Len(all) = (g % BlockSize) + n
      /\ Cut(Bytes(s, g + n)) = Cut(Bytes(s, g)) \o Cut(x)
      /\ Len(Cut(x)) = Len(all) \div BlockSize

LEMMA BlocksGoOn ==
  ASSUME NEW s \in Streams, NEW g \in Nat, NEW n \in Nat
  PROVE  FollowOn(s, g, n, Run(s, Whole(g), g % BlockSize) \o Run(s, g, n))
<1> USE SizeIsPositive
<1>1. PICK w \in Nat, r \in Nat : /\ w = Whole(g) /\ r = g % BlockSize /\ g = w + r
                                  /\ w % BlockSize = 0
  <2>1. /\ Whole(g) \in Nat /\ Whole(g) % BlockSize = 0
        /\ g - Whole(g) = g % BlockSize /\ g % BlockSize \in 0 .. BlockSize - 1
    BY WholeLength
  <2>2. PICK w \in Nat, r \in Nat : w = Whole(g) /\ r = g % BlockSize
    BY <2>1
  <2>3. g - w = r
    BY <2>1, <2>2
  <2>4. g = w + r
    BY <2>3
  <2>5. QED
    BY <2>1, <2>2, <2>4
<1>2. PICK k \in Nat : k = r + n
  OBVIOUS
<1>3. PICK v \in Nat : v = Whole(k) /\ v <= k /\ v % BlockSize = 0
                       /\ v \div BlockSize = k \div BlockSize
  BY WholeLength
<1>4. Whole(g + n) = w + v
  <2>1. Whole(g + n) = Whole(g) + Whole((g % BlockSize) + n)
    BY WholeAfter
  <2>2. QED
    BY <1>1, <1>2, <1>3, <2>1
<1> DEFINE all == Run(s, w, r) \o Run(s, g, n)
           x == SubSeq(all, 1, Whole(Len(all)))
<1>5. all = Run(s, w, k) /\ all \in Seq(Byte) /\ Len(all) = k
  <2>1. g = w + r
    BY <1>1
  <2>2. all = Run(s, w, k)
    BY <1>2, <2>1, RunsMeet
  <2>3. Run(s, w, k) \in Seq(Byte) /\ Len(Run(s, w, k)) = k
    BY RunOf
  <2> HIDE DEF all
  <2>4. QED
    BY <2>2, <2>3
<1>6. x = Run(s, w, v)
  <2>1. v <= k
    BY <1>3
  <2>2. 0 \in Nat /\ 0 <= v /\ 0 + 1 = 1 /\ w + 0 = w /\ v - 0 = v
    OBVIOUS
  <2>3. RunSubs(s, w, k, 0, v)
    BY <2>1, <2>2, RunSub
  <2> HIDE DEF all
  <2>4. QED
    BY <1>3, <1>5, <2>2, <2>3 DEF RunSubs
<1> HIDE DEF all, x
<1>7. Cut(Bytes(s, g + n)) = Cut(Run(s, 0, w) \o x)
  <2>1. g + n \in Nat /\ 0 \in Nat /\ 0 + w = w
    OBVIOUS
  <2>2. Cut(Bytes(s, g + n)) = Cut(Run(s, 0, Whole(g + n)))
    BY <2>1, BytesOf, Zenon
  <2>3. Run(s, 0, w) \o Run(s, w, v) = Run(s, 0, w + v)
    BY <2>1, RunsMeet
  <2>4. QED
    BY <1>4, <1>6, <2>1, <2>2, <2>3
<1>8. Cut(Run(s, 0, w) \o x) = Cut(Run(s, 0, w)) \o Cut(x)
  <2> DEFINE z == Run(s, 0, w)
  <2>1. 0 \in Nat
    OBVIOUS
  <2>2. z \in Seq(Byte) /\ Len(z) = w
    BY <2>1, RunOf, Zenon
  <2>3. x \in Seq(Byte)
    BY <1>6, RunOf
  <2> HIDE DEF z
  <2>4. Cut(z \o x) = Cut(z) \o Cut(x)
    BY <1>1, <2>2, <2>3, CutJoin
  <2>5. QED
    BY <2>4 DEF z
<1>9. Cut(Bytes(s, g)) = Cut(Run(s, 0, w))
  BY <1>1, BytesOf
<1>10. Len(Cut(x)) = k \div BlockSize
  <2>1. x \in Seq(Byte) /\ Len(x) = v
    BY <1>6, RunOf
  <2>2. Len(Cut(x)) = Len(x) \div BlockSize
    BY <2>1, CutOf
  <2>3. QED
    BY <1>3, <2>1, <2>2
<1>11. Cut(Bytes(s, g + n)) = Cut(Bytes(s, g)) \o Cut(x)
  BY <1>7, <1>8, <1>9
<1>12. QED
  BY <1>1, <1>2, <1>5, <1>10, <1>11 DEF FollowOn, all, x

\* What the driver then keeps are the bytes after the last whole block.
LEMMA RestGoesOn ==
  ASSUME NEW s \in Streams, NEW g \in Nat, NEW n \in Nat, NEW d \in Driver,
         d.crypt = Run(s, Whole(g), g % BlockSize),
         (g % BlockSize) + n < BlockSize => d.crypt = <<>>
  PROVE  Rest(d, Run(s, g, n)) = Run(s, Whole(g + n), (g + n) % BlockSize)
<1> USE SizeIsPositive
<1>1. PICK w \in Nat, r \in Nat : /\ w = Whole(g) /\ r = g % BlockSize /\ g = w + r
                                  /\ r < BlockSize
  <2>1. /\ Whole(g) \in Nat
        /\ g - Whole(g) = g % BlockSize /\ g % BlockSize \in 0 .. BlockSize - 1
    BY WholeLength
  <2>2. PICK w \in Nat, r \in Nat : w = Whole(g) /\ r = g % BlockSize /\ r < BlockSize
    BY <2>1
  <2>3. g - w = r
    BY <2>1, <2>2
  <2>4. g = w + r
    BY <2>3
  <2>5. QED
    BY <2>2, <2>4
<1>2. PICK k \in Nat : k = r + n
  OBVIOUS
<1>3. PICK v \in Nat, t \in Nat : /\ v = Whole(k) /\ t = k % BlockSize /\ k = v + t
                                  /\ k >= BlockSize => v >= BlockSize
                                  /\ k < BlockSize => v = 0
  <2>1. /\ Whole(k) \in Nat
        /\ k - Whole(k) = k % BlockSize /\ k % BlockSize \in 0 .. BlockSize - 1
    BY WholeLength
  <2>2. PICK v \in Nat, t \in Nat : v = Whole(k) /\ t = k % BlockSize
    BY <2>1
  <2>3. k - v = t
    BY <2>1, <2>2
  <2>4. k = v + t
    BY <2>3
  <2>5. (k >= BlockSize => Whole(k) >= BlockSize) /\ (k < BlockSize => Whole(k) = 0)
    BY ShortIsRest
  <2>6. QED
    BY <2>2, <2>4, <2>5
<1>4. Whole(g + n) = w + v /\ (g + n) % BlockSize = t
  <2>1. /\ Whole(g + n) = Whole(g) + Whole((g % BlockSize) + n)
        /\ (g + n) % BlockSize = ((g % BlockSize) + n) % BlockSize
    BY WholeAfter
  <2>2. QED
    BY <1>1, <1>2, <1>3, <2>1
<1>5. Len(d.crypt) = r /\ Len(Run(s, g, n)) = n
  <2>1. d.crypt = Run(s, w, r)
    BY <1>1
  <2>2. Len(Run(s, w, r)) = r
    BY RunLength
  <2>3. Len(Run(s, g, n)) = n
    BY RunLength
  <2>4. QED
    BY <2>1, <2>2, <2>3
<1>6. CASE k < BlockSize
  <2>1. d.crypt = <<>>
    BY <1>1, <1>2, <1>6
  <2>2. r = 0
    BY <1>5, <2>1
  <2>3. v = 0
    BY <1>3, <1>6
  <2>4. w + v = g /\ t = n
    BY <1>1, <1>2, <1>3, <2>2, <2>3
  <2>5. Rest(d, Run(s, g, n)) = Run(s, g, n)
    BY <1>2, <1>5, <1>6 DEF Rest
  <2>6. QED
    BY <1>4, <2>4, <2>5
<1>7. CASE ~(k < BlockSize)
  <2>1. v >= BlockSize
    BY <1>3, <1>7
  <2>2. PICK b \in Nat : b = n - t /\ b <= n /\ n - b = t /\ g + b = w + v
    <3>1. n - t \in Nat /\ n - t <= n /\ n - (n - t) = t /\ g + (n - t) = w + v
      <4>1. r < BlockSize /\ g = w + r
        BY <1>1
      <4>2. k = v + t
        BY <1>3
      <4>3. QED
        BY <1>2, <2>1, <4>1, <4>2
    <3>2. QED
      BY <3>1
  <2>3. SubSeq(Run(s, g, n), b + 1, n) = Run(s, g + b, n - b)
    <3>1. b <= n /\ n <= n
      BY <2>2
    <3>2. RunSubs(s, g, n, b, n)
      BY <3>1, RunSub
    <3>3. QED
      BY <3>2 DEF RunSubs
  <2>4. Rest(d, Run(s, g, n)) = SubSeq(Run(s, g, n), b + 1, n)
    BY <1>2, <1>3, <1>5, <1>7, <2>2 DEF Rest
  <2>5. QED
    BY <1>4, <2>2, <2>3, <2>4
<1>8. QED
  BY <1>6, <1>7

\* The card goes on with the blocks of a stream where it stopped.
CardGoesOn(m, s, y, x, z) ==
  LET chain == Chained(m, s, <<>>, Cut(y)) IN
  /\ chain \in Seq(Block)
  /\ Made(m, s, z) = Made(m, s, y) \o Texts(s, m, s, chain, Cut(x))
  /\ Chained(m, s, <<>>, Cut(z)) = Chained(m, s, chain, Cut(x))

LEMMA MadeGoesOn ==
  ASSUME NEW m, NEW s \in Streams, NEW y \in Seq(Byte), NEW x \in Seq(Byte), NEW z,
         Cut(z) = Cut(y) \o Cut(x)
  PROVE  CardGoesOn(m, s, y, x, z)
<1>1. PICK cy \in Seq(Block), cx \in Seq(Block) : cy = Cut(y) /\ cx = Cut(x)
  BY CutOf
<1>2. PICK none \in Seq(Block) : none = <<>>
  <2>1. <<>> \in Seq(Block)
    OBVIOUS
  <2>2. QED
    BY <2>1, Zenon
<1>3. PICK env \in Env : env = s
  BY DEF Env
<1>4. PICK chain \in Seq(Block) : chain = Chained(m, s, none, cy)
  BY ChainedOf
<1>5. Texts(s, m, s, none, cy \o cx) = Texts(s, m, s, none, cy) \o Texts(s, m, s, chain, cx)
  <2>1. TextsJoins(env, m, s, none, cy, cx)
    BY TextsJoin
  <2>2. QED
    BY <1>3, <1>4, <2>1 DEF TextsJoins
<1>6. Chained(m, s, none, cy \o cx) = Chained(m, s, chain, cx)
  BY <1>4, ChainedJoin
<1>7. QED
  BY <1>1, <1>2, <1>4, <1>5, <1>6 DEF CardGoesOn, Made

\* The text held back goes out before all but the last of those that follow.
HeldOf(texts) == IF texts = <<>> THEN <<>> ELSE <<texts[Len(texts)]>>

LEMMA HeldBack ==
  ASSUME NEW t \in Seq(Text)
  PROVE  /\ AllButLast(t) \in Seq(Text) /\ HeldOf(t) \in Seq(Text)
         /\ AllButLast(t) \o HeldOf(t) = t
<1>1. CASE t = <<>>
  <2>1. AllButLast(t) = t /\ HeldOf(t) = <<>>
    BY <1>1 DEF AllButLast, HeldOf
  <2>2. QED
    BY <1>1, <2>1, JoinOfNone
<1>2. CASE t # <<>>
  <2>1. PICK k \in Nat : k + 1 = Len(t)
    <3>1. Len(t) # 0 /\ Len(t) \in Nat
      BY <1>2, JoinOfNone
    <3>2. Len(t) - 1 \in Nat /\ (Len(t) - 1) + 1 = Len(t)
      BY <3>1
    <3>3. QED
      BY <3>2
  <2> DEFINE b == SubSeq(t, 0 + 1, k)
             h == <<t[k + 1]>>
             w == b \o h
  <2>2. t[k + 1] \in Text
    BY <2>1
  <2>3. h \in Seq(Text) /\ Len(h) = 1 /\ h[1] = t[k + 1]
    BY <2>2
  <2>4. /\ b \in Seq(Text) /\ Len(b) = k - 0
        /\ \A j \in 1 .. k - 0 : b[j] = t[0 + j]
    <3>1. 0 \in Nat /\ 0 <= k /\ k <= Len(t)
      BY <2>1
    <3>2. QED
      BY <3>1, SubSeqOf
  <2> HIDE DEF b, h
  <2>5. /\ w \in Seq(Text) /\ Len(w) = Len(b) + Len(h)
        /\ \A i \in 1 .. Len(b) : w[i] = b[i]
        /\ \A i \in 1 .. Len(h) : w[Len(b) + i] = h[i]
    <3>1. b \in Seq(Text) /\ h \in Seq(Text)
      BY <2>3, <2>4
    <3>2. QED
      BY <3>1, JoinOf
  <2> HIDE DEF w
  <2>6. \A i \in 1 .. Len(t) : w[i] = t[i]
    BY <2>1, <2>3, <2>4, <2>5
  <2>7. w = t
    BY <2>1, <2>3, <2>4, <2>5, <2>6, SameSeqs
  <2>8. AllButLast(t) = b /\ HeldOf(t) = h
    <3>1. Len(t) = k + 1 /\ Len(t) - 1 = k
      BY <2>1
    <3>2. QED
      BY <1>2, <3>1 DEF AllButLast, HeldOf, b, h
  <2>9. QED
    BY <2>3, <2>4, <2>7, <2>8 DEF w
<1>3. QED
  BY <1>1, <1>2

LEMMA HeldGoesOut ==
  ASSUME NEW t \in Seq(Text), NEW u \in Seq(Text), u # <<>>
  PROVE  /\ t \o u # <<>>
         /\ (t \o u)[Len(t \o u)] = u[Len(u)]
         /\ AllButLast(t \o u) = AllButLast(t) \o (HeldOf(t) \o AllButLast(u))
<1>1. PICK k \in Nat : k + 1 = Len(u) /\ k = Len(u) - 1
  <2>1. Len(u) # 0 /\ Len(u) \in Nat
    BY JoinOfNone
  <2>2. Len(u) - 1 \in Nat /\ (Len(u) - 1) + 1 = Len(u)
    BY <2>1
  <2>3. QED
    BY <2>2
<1> DEFINE tu == t \o u
<1>2. /\ tu \in Seq(Text) /\ Len(tu) = Len(t) + Len(u)
      /\ \A i \in 1 .. Len(u) : tu[Len(t) + i] = u[i]
  BY JoinOf
<1>3. tu # <<>> /\ tu[Len(tu)] = u[Len(u)] /\ Len(tu) - 1 = Len(t) + k /\ k \in 0 .. Len(u)
  <2> HIDE DEF tu
  <2>1. Len(u) \in 1 .. Len(u) /\ Len(t) \in Nat /\ Len(u) \in Nat
    BY <1>1
  <2>2. Len(tu) # 0 /\ Len(tu) - 1 = Len(t) + k /\ k \in 0 .. Len(u)
    BY <1>1, <1>2, <2>1
  <2>3. tu[Len(tu)] = u[Len(u)]
    BY <1>2, <2>1
  <2>4. tu # <<>>
    BY <1>2, <2>2, JoinOfNone
  <2>5. QED
    BY <2>2, <2>3, <2>4
<1>4. SubSeq(tu, 1, Len(t) + k) = t \o SubSeq(u, 1, k)
  BY <1>3, BeginningOfJoin
<1>5. AllButLast(u) = SubSeq(u, 1, k)
  BY <1>1 DEF AllButLast
<1>6. AllButLast(tu) = t \o AllButLast(u)
  <2> HIDE DEF tu
  <2>1. AllButLast(tu) = SubSeq(tu, 1, Len(tu) - 1)
    BY <1>3 DEF AllButLast
  <2>2. QED
    BY <1>3, <1>4, <1>5, <2>1
<1>7. AllButLast(t) \o (HeldOf(t) \o AllButLast(u)) = t \o AllButLast(u)
  <2>1. /\ AllButLast(t) \in Seq(Text) /\ HeldOf(t) \in Seq(Text) /\ AllButLast(u) \in Seq(Text)
        /\ AllButLast(t) \o HeldOf(t) = t
    BY HeldBack
  <2>2. PICK a \in Seq(Text), h \in Seq(Text), b \in Seq(Text) :
           a = AllButLast(t) /\ h = HeldOf(t) /\ b = AllButLast(u) /\ a \o h = t
    BY <2>1
  <2>3. (a \o h) \o b = a \o (h \o b)
    BY JoinIsAssociative
  <2>4. QED
    BY <2>2, <2>3
<1>8. QED
  BY <1>3, <1>6, <1>7

\* What an update leaves in terms of what the card made of its blocks.
Updated(s, d, part, x, q, r) ==
  /\ x \in Seq(Byte) /\ q.answer = "ok" /\ r.card = q.card
  /\ r.driver.mode = d.mode /\ r.driver.crypt = Rest(d, part)
  /\ s \notin Decryptions => r.texts = q.texts
  /\ s \in Decryptions /\ q.texts = <<>> => r.texts = <<>> /\ r.driver.plain = NoBlock
  /\ s \in Decryptions /\ q.texts # <<>> =>
       /\ r.texts = (IF d.plain = NoBlock THEN <<>> ELSE <<d.plain>>) \o AllButLast(q.texts)
       /\ r.driver.plain = q.texts[Len(q.texts)]

LEMMA UpdateIs ==
  ASSUME NEW s \in Streams, NEW d \in Driver, NEW c \in Card, NEW part \in Seq(Byte),
         NEW x, x = SubSeq(d.crypt \o part, 1, Whole(Len(d.crypt \o part))),
         NEW q, q = Processed(s, d, c, x),
         NEW r, r = Update(s, d, c, part), r.answer = "ok"
  PROVE  Updated(s, d, part, x, q, r)
<1> DEFINE n == Len(q.texts)
           kept == [q.driver EXCEPT !.crypt = Rest(d, part)]
           held == IF d.plain = NoBlock THEN <<>> ELSE <<d.plain>>
           shown == held \o SubSeq(q.texts, 1, n - 1)
<1>1. x \in Seq(Byte)
  <2>1. PICK all \in Seq(Byte) : all = d.crypt \o part
    <3>1. d.crypt \in Seq(Byte)
      BY DriverWith
    <3>2. d.crypt \o part \in Seq(Byte)
      BY <3>1, JoinOf
    <3>3. QED
      BY <3>2
  <2>2. SubSeq(all, 1, Whole(Len(all))) \in Seq(Byte)
    BY BlocksOfAll
  <2>3. QED
    BY <2>1, <2>2
<1>2. q \in Reply /\ q.texts \in Seq(Text) /\ q.driver \in Driver
  <2>1. Processed(s, d, c, x) \in Reply
    BY <1>1, ProcessedOf
  <2>2. q \in Reply
    BY <2>1
  <2>3. QED
    BY <2>2 DEF Reply
<1>3. r = IF q.answer # "ok" THEN q
          ELSE IF s \notin Decryptions THEN [q EXCEPT !.driver = kept]
          ELSE IF n = 0 THEN [q EXCEPT !.driver = [kept EXCEPT !.plain = NoBlock]]
          ELSE Answer("ok", [kept EXCEPT !.plain = q.texts[n]], q.card,
                      shown, Len(shown) * BlockSize)
  BY DEF Update
<1>4. q.answer = "ok"
  BY <1>3
<1>5. q.driver.mode = d.mode
  <2>1. WellProcessed(s, d, c, x, q)
    BY <1>1, ProcessedIs
  <2>2. QED
    BY <1>4, <2>1 DEF WellProcessed
<1>6. /\ kept.mode = d.mode /\ kept.crypt = Rest(d, part)
      /\ \A p : /\ [kept EXCEPT !.plain = p].mode = d.mode
                /\ [kept EXCEPT !.plain = p].crypt = Rest(d, part)
                /\ [kept EXCEPT !.plain = p].plain = p
  <2>1. q.driver \in [mode : Modes \cup {OtherMode}, crypt : Seq(Byte), plain : Text \cup {NoBlock}]
    BY <1>2 DEF Driver
  <2>2. QED
    BY <1>5, <2>1
<1>7. q.texts = <<>> <=> n = 0
  BY <1>2, JoinOfNone
<1> HIDE DEF kept, held
<1>8. \A v : /\ [q EXCEPT !.driver = v].driver = v /\ [q EXCEPT !.driver = v].texts = q.texts
             /\ [q EXCEPT !.driver = v].card = q.card
  BY <1>2 DEF Reply
<1>9. CASE s \notin Decryptions
  <2>1. r = [q EXCEPT !.driver = kept]
    BY <1>3, <1>4, <1>9
  <2>2. r.driver = kept /\ r.texts = q.texts /\ r.card = q.card
    BY <1>8, <2>1
  <2>3. QED
    BY <1>1, <1>4, <1>6, <1>9, <2>2 DEF Updated
<1>10. CASE s \in Decryptions /\ n = 0
  <2> DEFINE bare == [kept EXCEPT !.plain = NoBlock]
  <2>1. bare.mode = d.mode /\ bare.crypt = Rest(d, part) /\ bare.plain = NoBlock
    BY <1>6
  <2> HIDE DEF bare
  <2>2. r = [q EXCEPT !.driver = bare]
    BY <1>3, <1>4, <1>10 DEF bare
  <2>3. r.driver = bare /\ r.texts = q.texts /\ r.card = q.card
    BY <1>8, <2>2
  <2>4. QED
    BY <1>1, <1>4, <1>7, <1>10, <2>1, <2>3 DEF Updated
<1>11. CASE s \in Decryptions /\ n # 0
  <2> DEFINE full == [kept EXCEPT !.plain = q.texts[n]]
  <2>1. full.mode = d.mode /\ full.crypt = Rest(d, part) /\ full.plain = q.texts[n]
    BY <1>6
  <2> HIDE DEF full
  <2>2. r = Answer("ok", full, q.card, shown, Len(shown) * BlockSize)
    BY <1>3, <1>4, <1>11 DEF full
  <2> HIDE DEF shown
  <2>3. r.driver = full /\ r.texts = shown /\ r.card = q.card
    BY <2>2 DEF Answer
  <2>4. shown = held \o AllButLast(q.texts)
    BY <1>7, <1>11 DEF shown, AllButLast
  <2>5. QED
    BY <1>1, <1>4, <1>7, <1>11, <2>1, <2>3, <2>4 DEF Updated, held
<1>12. QED
  BY <1>9, <1>10, <1>11

\* A part that is accepted, not short, leaves the stream in hand.
LEMMA UpdateGoesOn ==
  ASSUME NEW s \in Streams, NEW m, NEW g \in Nat, NEW out, NEW d \in Driver, NEW c \in Card,
         NEW n \in Nat, n # 0, InHand(s, m, g, out, d, c), ~Short(s, d, Run(s, g, n)),
         NEW r, r = Update(s, d, c, Run(s, g, n)), r.answer = "ok"
  PROVE  InHand(s, m, g + n, out \o r.texts, r.driver, r.card)
<1> USE SizeIsPositive
<1> DEFINE part == Run(s, g, n)
           x == SubSeq(d.crypt \o part, 1, Whole(Len(d.crypt \o part)))
           q == Processed(s, d, c, x)
           y == Bytes(s, g)
           z == Bytes(s, g + n)
           t == Made(m, s, y)
           u == q.texts
           chain == Chained(m, s, <<>>, Cut(y))
<1>1. /\ part \in Seq(Byte) /\ Len(part) = n /\ part # <<>>
      /\ d.crypt \in Seq(Byte) /\ Len(d.crypt) = g % BlockSize
  <2>1. part \in Seq(Byte) /\ Len(part) = n
    BY RunOf
  <2>2. Whole(g) \in Nat /\ g % BlockSize \in Nat
    BY WholeLength
  <2>3. Run(s, Whole(g), g % BlockSize) \in Seq(Byte)
        /\ Len(Run(s, Whole(g), g % BlockSize)) = g % BlockSize
    BY <2>2, RunOf
  <2> HIDE DEF part
  <2>4. part # <<>>
    BY <2>1, JoinOfNone
  <2>5. d.crypt = Run(s, Whole(g), g % BlockSize)
    BY DEF InHand
  <2>6. QED
    BY <2>1, <2>3, <2>4, <2>5
<1>2. /\ d.mode = m /\ c.env = s /\ c.chain = chain
      /\ d.crypt = Run(s, Whole(g), g % BlockSize)
      /\ s \notin Decryptions => out = t
      /\ s \in Decryptions => /\ out = AllButLast(t)
                              /\ d.plain = IF t = <<>> THEN NoBlock ELSE t[Len(t)]
  BY DEF InHand
<1>3. ASSUME (g % BlockSize) + n < BlockSize
      PROVE  d.crypt = <<>> /\ (s \in Decryptions => d.plain = NoBlock)
  BY <1>1, <1>3 DEF Short
<1>4. Rest(d, part) = Run(s, Whole(g + n), (g + n) % BlockSize)
  BY <1>2, <1>3, RestGoesOn
<1>5. /\ Cut(z) = Cut(y) \o Cut(x)
      /\ Len(Cut(x)) = ((g % BlockSize) + n) \div BlockSize
  <2>1. FollowOn(s, g, n, d.crypt \o part)
    BY <1>2, BlocksGoOn
  <2> HIDE DEF part
  <2>2. QED
    BY <2>1 DEF FollowOn
<1>6. /\ x \in Seq(Byte) /\ q.answer = "ok" /\ r.card = q.card
      /\ r.driver.mode = m /\ r.driver.crypt = Rest(d, part)
      /\ s \notin Decryptions => r.texts = u
      /\ s \in Decryptions /\ u = <<>> => r.texts = <<>> /\ r.driver.plain = NoBlock
      /\ s \in Decryptions /\ u # <<>> =>
           /\ r.texts = (IF d.plain = NoBlock THEN <<>> ELSE <<d.plain>>) \o AllButLast(u)
           /\ r.driver.plain = u[Len(u)]
  <2> HIDE DEF part
  <2>1. part \in Seq(Byte) /\ r = Update(s, d, c, part)
    BY <1>1 DEF part
  <2>2. Updated(s, d, part, x, q, r)
    BY <2>1, UpdateIs
  <2> HIDE DEF x, q
  <2>3. QED
    BY <1>2, <2>2 DEF Updated
<1>7. y \in Seq(Byte)
  <2>1. 0 \in Nat
    OBVIOUS
  <2>2. Run(s, 0, g) \in Seq(Byte)
    BY <2>1, RunOf, Zenon
  <2>3. QED
    BY <2>2, BytesOf
<1> HIDE DEF x, y, z
<1>8. u = Texts(s, m, s, chain, Cut(x)) /\ q.card.env = s /\ q.card.chain = Chained(m, s, chain, Cut(x))
  <2>1. WellProcessed(s, d, c, x, q)
    BY <1>6, ProcessedIs
  <2> HIDE DEF q, chain
  <2>2. QED
    BY <1>2, <1>6, <2>1 DEF WellProcessed
<1>9. /\ chain \in Seq(Block) /\ Made(m, s, z) = t \o u
      /\ Chained(m, s, <<>>, Cut(z)) = q.card.chain
  <2>1. CardGoesOn(m, s, y, x, z)
    BY <1>5, <1>6, <1>7, MadeGoesOn
  <2>2. QED
    BY <1>8, <2>1 DEF CardGoesOn
<1>10. t \in Seq(Text) /\ u \in Seq(Text) /\ Len(u) = ((g % BlockSize) + n) \div BlockSize
  <2>1. t \in Seq(Text)
    BY <1>7, MadeOf
  <2>2. Cut(x) \in Seq(Block) /\ s \in Env
    BY <1>6, CutOf DEF Env
  <2>3. u \in Seq(Text) /\ Len(u) = Len(Cut(x))
    <3>1. PICK f \in Seq(Block), b \in Seq(Block) : f = chain /\ b = Cut(x)
      BY <1>9, <2>2
    <3>2. Texts(s, m, s, f, b) \in Seq(Text) /\ Len(Texts(s, m, s, f, b)) = Len(b)
      BY <2>2, TextsOf
    <3> HIDE DEF u, chain
    <3>3. QED
      BY <1>8, <3>1, <3>2
  <2>4. QED
    BY <1>5, <2>1, <2>3
<1> HIDE DEF part, q, t, u, chain
<1>11. /\ r.driver.mode = m /\ r.driver.crypt = Run(s, Whole(g + n), (g + n) % BlockSize)
       /\ r.card.env = s /\ r.card.chain = Chained(m, s, <<>>, Cut(z))
  BY <1>4, <1>6, <1>8, <1>9
<1>12. ASSUME s \notin Decryptions PROVE out \o r.texts = t \o u
  BY <1>2, <1>6, <1>12
<1>13. ASSUME s \in Decryptions
       PROVE  /\ out \o r.texts = AllButLast(t \o u)
              /\ r.driver.plain = IF t \o u = <<>> THEN NoBlock ELSE (t \o u)[Len(t \o u)]
  <2>1. d.plain = NoBlock <=> t = <<>>
    <3>1. t # <<>> => t[Len(t)] \in Text
      BY <1>10
    <3>2. QED
      BY <1>2, <1>13, <3>1, SymmetricStreamsAssumption
  <2>2. CASE u = <<>>
    <3>1. (g % BlockSize) + n < BlockSize
      BY <1>10, <2>2, ShortIsRest
    <3>2. t = <<>>
      BY <1>3, <1>13, <2>1, <3>1
    <3>3. t \o u = <<>> /\ AllButLast(t) = <<>>
      BY <1>10, <2>2, <3>2, JoinOfNone DEF AllButLast
    <3>4. out \o r.texts = <<>> /\ r.driver.plain = NoBlock
      BY <1>2, <1>6, <1>10, <1>13, <2>2, <3>2, <3>3, JoinOfNone
    <3>5. QED
      BY <3>2, <3>3, <3>4
  <2>3. CASE u # <<>>
    <3>1. r.texts = HeldOf(t) \o AllButLast(u) /\ r.driver.plain = u[Len(u)]
      BY <1>2, <1>6, <1>13, <2>1, <2>3 DEF HeldOf
    <3>2. /\ t \o u # <<>> /\ (t \o u)[Len(t \o u)] = u[Len(u)]
          /\ AllButLast(t \o u) = AllButLast(t) \o (HeldOf(t) \o AllButLast(u))
      BY <1>10, <2>3, HeldGoesOut
    <3>3. QED
      BY <1>2, <1>13, <3>1, <3>2
  <2>4. QED
    BY <2>2, <2>3
<1>14. QED
  BY <1>9, <1>11, <1>12, <1>13 DEF InHand, z

-----------------------------------------------------------------------------
(* The end of a whole stream. *)

LEMMA BytesAre ==
  ASSUME NEW s \in Streams, NEW g \in Nat
  PROVE  Bytes(s, g) \in Seq(Byte) /\ Bytes(s, g) \o <<>> = Bytes(s, g)
<1>1. 0 \in Nat
  OBVIOUS
<1>2. Run(s, 0, g) \in Seq(Byte)
  BY <1>1, RunOf, Zenon
<1>3. Bytes(s, g) \in Seq(Byte)
  BY <1>2, BytesOf
<1>4. QED
  BY <1>3, JoinOfNone

LEMMA HeldInHand ==
  ASSUME NEW s \in Streams, NEW m, NEW g \in Nat, NEW out, NEW d, NEW c,
         InHand(s, m, g, out, d, c)
  PROVE  /\ Made(m, s, Bytes(s, g)) \in Seq(Text)
         /\ d.crypt \in Seq(Byte) /\ Len(d.crypt) = g % BlockSize
<1>1. Made(m, s, Bytes(s, g)) \in Seq(Text)
  BY BytesAre, MadeOf
<1>2. Whole(g) \in Nat /\ g % BlockSize \in Nat
  BY WholeLength, SizeIsPositive
<1>3. Run(s, Whole(g), g % BlockSize) \in Seq(Byte)
      /\ Len(Run(s, Whole(g), g % BlockSize)) = g % BlockSize
  BY <1>2, RunOf
<1>4. QED
  BY <1>1, <1>3 DEF InHand

\* The last block of a padded stream follows those that are done.
LEMMA PaddingGoesOn ==
  ASSUME NEW s \in Streams, NEW g \in Nat, NEW pad \in Seq(Byte)
  PROVE  /\ Run(s, Whole(g), g % BlockSize) \o pad \in Seq(Byte)
         /\ Cut(Bytes(s, g) \o pad) =
              Cut(Bytes(s, g)) \o Cut(Run(s, Whole(g), g % BlockSize) \o pad)
<1>1. PICK w \in Nat, r \in Nat : w = Whole(g) /\ r = g % BlockSize /\ w % BlockSize = 0
  <2>1. Whole(g) \in Nat /\ Whole(g) % BlockSize = 0
    BY WholeLength
  <2>2. g % BlockSize \in Nat
    BY WholeLength, SizeIsPositive
  <2>3. QED
    BY <2>1, <2>2
<1>2. PICK front \in Seq(Byte) : front = Run(s, 0, w) /\ Len(front) = w
  <2>1. 0 \in Nat
    OBVIOUS
  <2>2. Run(s, 0, w) \in Seq(Byte) /\ Len(Run(s, 0, w)) = w
    BY <2>1, RunOf, Zenon
  <2>3. QED
    BY <2>2
<1>3. PICK rest \in Seq(Byte) : rest = Run(s, w, r)
  BY RunOf
<1>4. PICK last \in Seq(Byte) : last = rest \o pad
  BY JoinOf
<1>5. Bytes(s, g) = front \o rest /\ Cut(Bytes(s, g)) = Cut(front)
  BY <1>1, <1>2, <1>3, BytesOf
<1>6. Bytes(s, g) \o pad = front \o last
  BY <1>4, <1>5, JoinIsAssociative
<1>7. Cut(front \o last) = Cut(front) \o Cut(last)
  BY <1>1, <1>2, CutJoin
<1>8. QED
  BY <1>1, <1>3, <1>4, <1>5, <1>6, <1>7

LEMMA EncryptionEnds ==
  ASSUME NEW s \in Streams, s \notin Decryptions, NEW m, NEW g \in Nat, NEW out,
         NEW d \in Driver, NEW c \in Card, InHand(s, m, g, out, d, c),
         NEW r, r = EncryptEnd(s, d, c), r.answer = "ok"
  PROVE  Delivered(s, m, g, out \o r.texts)
<1> USE SizeIsPositive
<1>1. /\ d.mode = m /\ c.env = s /\ c.chain = Chained(m, s, <<>>, Cut(Bytes(s, g)))
      /\ d.crypt = Run(s, Whole(g), g % BlockSize) /\ out = Made(m, s, Bytes(s, g))
  BY DEF InHand
<1>2. /\ Made(m, s, Bytes(s, g)) \in Seq(Text)
      /\ d.crypt \in Seq(Byte) /\ Len(d.crypt) = g % BlockSize
  BY HeldInHand
<1>3. Bytes(s, g) \in Seq(Byte) /\ Bytes(s, g) \o <<>> = Bytes(s, g)
  BY BytesAre
<1>4. CASE m = "CBC_PAD"
  <2>1. BlockSize - (g % BlockSize) \in Nat
    BY WholeLength
  <2>2. PICK pad \in Seq(Byte) : pad = Padding(s, BlockSize - (g % BlockSize))
    BY <2>1, PaddingOf
  <2>3. PICK last \in Seq(Byte) :
           /\ last = d.crypt \o pad
           /\ Cut(Bytes(s, g) \o pad) = Cut(Bytes(s, g)) \o Cut(last)
    BY <1>1, PaddingGoesOn
  <2>4. r = Processed(s, d, c, last)
    BY <1>1, <1>2, <1>4, <2>2, <2>3 DEF EncryptEnd
  <2>5. WellProcessed(s, d, c, last, r)
    BY <2>4, ProcessedIs
  <2>6. r.texts = Texts(s, m, s, Chained(m, s, <<>>, Cut(Bytes(s, g))), Cut(last))
    BY <1>1, <2>5 DEF WellProcessed
  <2>7. CardGoesOn(m, s, Bytes(s, g), last, Bytes(s, g) \o pad)
    BY <1>3, <2>3, MadeGoesOn
  <2>8. out \o r.texts = Made(m, s, Bytes(s, g) \o pad)
    BY <1>1, <2>6, <2>7 DEF CardGoesOn
  <2>9. QED
    BY <1>4, <2>2, <2>8 DEF Delivered, PaddingDue
<1>5. CASE m # "CBC_PAD"
  <2>1. \A e : Refused(e, d, c).answer = e
    BY DEF Refused, Answer
  <2>2. d.crypt = <<>> /\ r = Answer("ok", d, c, <<>>, 0)
    BY <1>1, <1>5, <2>1 DEF EncryptEnd
  <2>3. r.texts = <<>>
    BY <2>2 DEF Answer
  <2>4. g % BlockSize = 0
    BY <1>2, <2>2
  <2>5. out \o <<>> = out
    BY <1>1, <1>2, JoinOfNone
  <2>6. QED
    BY <1>1, <1>3, <1>5, <2>3, <2>4, <2>5 DEF Delivered, PaddingDue
<1>6. QED
  BY <1>4, <1>5

LEMMA DecryptionEnds ==
  ASSUME NEW s \in Streams, s \in Decryptions, NEW m, NEW g \in Nat, NEW out,
         NEW d \in Driver, NEW c \in Card, InHand(s, m, g, out, d, c), NEW pad,
         NEW r, r = DecryptEnd(d, c, pad), r.answer = "ok"
  PROVE  Delivered(s, m, g, out \o r.texts)
<1> DEFINE t == Made(m, s, Bytes(s, g))
<1>1. /\ out = AllButLast(t)
      /\ d.plain = IF t = <<>> THEN NoBlock ELSE t[Len(t)]
  BY DEF InHand
<1>2. t \in Seq(Text) /\ d.crypt \in Seq(Byte) /\ Len(d.crypt) = g % BlockSize
  BY HeldInHand
<1>3. Bytes(s, g) \o <<>> = Bytes(s, g)
  BY BytesAre
<1> HIDE DEF t
<1>4. \A e : Refused(e, d, c).answer = e
  BY DEF Refused, Answer
<1>5. d.plain # NoBlock /\ d.crypt = <<>> /\ \E n : r = Answer("ok", d, c, <<d.plain>>, n)
  BY <1>4 DEF DecryptEnd
<1>6. r.texts = <<d.plain>>
  <2>1. PICK n : r = Answer("ok", d, c, <<d.plain>>, n)
    BY <1>5
  <2>2. QED
    BY <2>1 DEF Answer
<1>7. g % BlockSize = 0
  BY <1>2, <1>5
<1>8. r.texts = HeldOf(t)
  BY <1>1, <1>5, <1>6 DEF HeldOf
<1>9. out \o r.texts = t
  BY <1>1, <1>2, <1>8, HeldBack
<1>10. QED
  BY <1>3, <1>7, <1>9 DEF Delivered, PaddingDue, t

\* What a call that is answered does for a stream in hand: a part that is not
\* short is taken in, and the end delivers what is left.
LEMMA CallGoesOn ==
  ASSUME NEW s \in Streams, NEW m, NEW g \in Nat, NEW out, NEW d \in Driver, NEW c \in Card,
         NEW n \in Nat, n # 0, InHand(s, m, g, out, d, c), ~Short(s, d, Run(s, g, n)),
         NEW pad, NEW r, r = Call(s, d, c, Run(s, g, n), pad), r.answer = "ok"
  PROVE  InHand(s, m, g + n, out \o r.texts, r.driver, r.card)
<1>1. \A e : Refused(e, d, c).answer = e
  BY DEF Refused, Answer
<1>2. Run(s, g, n) # <<>>
  <2>1. Run(s, g, n) \in Seq(Byte) /\ Len(Run(s, g, n)) = n
    BY RunOf
  <2>2. QED
    BY <2>1, JoinOfNone
<1>3. r = Update(s, d, c, Run(s, g, n))
  BY <1>1, <1>2 DEF Call
<1>4. QED
  BY <1>3, UpdateGoesOn

LEMMA CallEnds ==
  ASSUME NEW s \in Streams, NEW m, NEW g \in Nat, NEW out, NEW d \in Driver, NEW c \in Card,
         InHand(s, m, g, out, d, c),
         NEW pad, NEW r, r = Call(s, d, c, <<>>, pad), r.answer = "ok"
  PROVE  Delivered(s, m, g, out \o r.texts)
<1>1. \A e : Refused(e, d, c).answer = e
  BY DEF Refused, Answer
<1>2. r = IF s \in Decryptions THEN DecryptEnd(d, c, pad) ELSE EncryptEnd(s, d, c)
  BY <1>1 DEF Call
<1>3. CASE s \in Decryptions
  BY <1>2, <1>3, DecryptionEnds
<1>4. CASE s \notin Decryptions
  BY <1>2, <1>4, EncryptionEnds
<1>5. QED
  BY <1>3, <1>4

-----------------------------------------------------------------------------
(* The streams stay whole. *)

\* The same where the PIN may have been asked for before the call was answered.
LEMMA AnsweredGoesOn ==
  ASSUME NEW s \in Streams, NEW m, NEW g \in Nat, NEW out, NEW d \in Driver, NEW c \in Card,
         NEW n \in Nat, n # 0, InHand(s, m, g, out, d, c),
         NEW part, part = Run(s, g, n), ~Short(s, d, part),
         NEW pad, NEW cached \in BOOLEAN, ~AskedForPin(s, d, c, part, pad),
         NEW r, r = WithPin(s, d, c, part, pad, cached), r.answer = "ok"
  PROVE  InHand(s, m, g + n, out \o r.texts, r.driver, r.card)
<1>1. part \in Seq(Byte)
  BY RunOf
<1>2. PICK k \in Card : k.env = c.env /\ k.chain = c.chain /\ r = Call(s, d, k, part, pad)
  BY <1>1, WithPinIs
<1>3. InHand(s, m, g, out, d, k)
  BY <1>2 DEF InHand
<1>4. QED
  BY <1>2, <1>3, CallGoesOn

LEMMA AnsweredEnds ==
  ASSUME NEW s \in Streams, NEW m, NEW g \in Nat, NEW out, NEW d \in Driver, NEW c \in Card,
         InHand(s, m, g, out, d, c), NEW pad, NEW cached \in BOOLEAN,
         ~AskedForPin(s, d, c, <<>>, pad),
         NEW r, r = WithPin(s, d, c, <<>>, pad, cached), r.answer = "ok"
  PROVE  Delivered(s, m, g, out \o r.texts)
<1>1. PICK none \in Seq(Byte) : none = <<>>
  <2>1. <<>> \in Seq(Byte)
    OBVIOUS
  <2>2. QED
    BY <2>1, Zenon
<1>2. PICK k \in Card : k.env = c.env /\ k.chain = c.chain /\ r = Call(s, d, k, <<>>, pad)
  <2>1. ~AskedForPin(s, d, c, none, pad) /\ WithPin(s, d, c, none, pad, cached).answer = "ok"
        /\ r = WithPin(s, d, c, none, pad, cached)
    BY <1>1
  <2>2. PICK k \in Card : /\ k.env = c.env /\ k.chain = c.chain
                          /\ WithPin(s, d, c, none, pad, cached) = Call(s, d, k, none, pad)
    BY <2>1, WithPinIs
  <2>3. QED
    BY <1>1, <2>1, <2>2
<1>3. InHand(s, m, g, out, d, k)
  BY <1>2 DEF InHand
<1>4. QED
  BY <1>2, <1>3, CallEnds

LEMMA FateIsWhole ==
  ASSUME NEW s, NEW d, NEW c, NEW part, NEW pad, NEW fate,
         Fate(s, d, c, part, pad, fate) = "whole"
  PROVE  fate = "whole" /\ ~AskedForPin(s, d, c, part, pad) /\ ~Short(s, d, part)
BY DEF Fate

\* The part of a stream that nothing crossed are its own next bytes.
LEMMA PartIs ==
  ASSUME NEW s \in Streams, NEW n \in Nat, op[s].fate # "crossed"
  PROVE  Part(s, n) = Run(s, op[s].given, n)
BY DEF Part, Run

\* What the invariant says of an operation that is what a call made of it.
LEMMA ReadsInStep ==
  ASSUME NEW s, NEW o, NEW phase, NEW mode, NEW given, NEW out, NEW fate, NEW d, NEW c,
         Reads(o, phase, mode, given, out, fate),
         phase = "open" /\ fate = "whole" => InHand(s, mode, given, out, d, c),
         phase = "done" /\ fate = "whole" => Delivered(s, mode, given, out)
  PROVE  InStep(s, o, d, c) /\ Finished(s, o)
BY DEF Reads, InStep, Finished

LEMMA UpdateWhole ==
  ASSUME TypeOK, WholeInv, NEW s \in Streams, NEW n \in Parts, NEW cached \in BOOLEAN,
         StreamUpdate(s, n, cached)
  PROVE  WholeInv'
<1> DEFINE part == Part(s, n)
           r == WithPin(s, driver, card, part, 0, cached)
           fate == Fate(s, driver, card, part, 0, op[s].fate)
<1>1. PICK o \in Operation :
         /\ Becomes(s, o)
         /\ \/ o = NoOperation
            \/ /\ r.answer = "ok"
               /\ Reads(o, "open", op[s].mode, op[s].given + n, op[s].out \o r.texts, fate)
  BY UpdateTypes
<1>2. driver' = r.driver /\ card' = r.card /\ op[s].phase = "open"
  BY DEF StreamUpdate
<1>3. n \in Nat /\ n # 0 /\ op[s].given \in Nat /\ driver \in Driver /\ card \in Card
  BY SymmetricStreamsAssumption DEF TypeOK, Operation
<1>4. ASSUME r.answer = "ok", fate = "whole"
      PROVE  InHand(s, op[s].mode, op[s].given + n, op[s].out \o r.texts, driver', card')
  <2> HIDE DEF part
  <2>1. op[s].fate = "whole" /\ ~AskedForPin(s, driver, card, part, 0) /\ ~Short(s, driver, part)
    BY <1>4, FateIsWhole
  <2>2. part = Run(s, op[s].given, n)
    BY <1>3, <2>1, PartIs DEF part
  <2>3. InHand(s, op[s].mode, op[s].given, op[s].out, driver, card)
    BY <1>2, <2>1 DEF WholeInv, InStep
  <2>4. InHand(s, op[s].mode, op[s].given + n, op[s].out \o r.texts, r.driver, r.card)
    BY <1>3, <1>4, <2>1, <2>2, <2>3, AnsweredGoesOn
  <2>5. QED
    BY <1>2, <2>4
<1> HIDE DEF r, fate
<1>5. InStep(s, o, driver', card') /\ Finished(s, o)
  <2>1. CASE o = NoOperation
    BY <2>1, NothingClaimed
  <2>2. CASE r.answer = "ok" /\ Reads(o, "open", op[s].mode, op[s].given + n,
                                      op[s].out \o r.texts, fate)
    BY <1>4, <2>2, ReadsInStep
  <2>3. QED
    BY <1>1, <2>1, <2>2
<1>6. QED
  BY <1>1, <1>5, OthersStay

LEMMA FinalWhole ==
  ASSUME TypeOK, WholeInv, NEW s \in Streams, NEW pad \in Pads(s), NEW cached \in BOOLEAN,
         StreamFinal(s, pad, cached)
  PROVE  WholeInv'
<1> DEFINE r == WithPin(s, driver, card, <<>>, pad, cached)
           fate == Fate(s, driver, card, <<>>, pad, op[s].fate)
<1>1. PICK o \in Operation :
         /\ Becomes(s, o)
         /\ \/ o = NoOperation
            \/ /\ r.answer = "ok"
               /\ Reads(o, "done", op[s].mode, op[s].given, op[s].out \o r.texts, fate)
  BY FinalTypes
<1>2. op[s].phase = "open"
  BY DEF StreamFinal
<1>3. op[s].given \in Nat /\ driver \in Driver /\ card \in Card
  BY SymmetricStreamsAssumption DEF TypeOK, Operation
<1>4. ASSUME r.answer = "ok", fate = "whole"
      PROVE  Delivered(s, op[s].mode, op[s].given, op[s].out \o r.texts)
  <2>1. op[s].fate = "whole" /\ ~AskedForPin(s, driver, card, <<>>, pad)
    BY <1>4, FateIsWhole
  <2>2. InHand(s, op[s].mode, op[s].given, op[s].out, driver, card)
    BY <1>2, <2>1 DEF WholeInv, InStep
  <2>3. QED
    BY <1>3, <1>4, <2>1, <2>2, AnsweredEnds
<1> HIDE DEF r, fate
<1>5. InStep(s, o, driver', card') /\ Finished(s, o)
  <2>1. CASE o = NoOperation
    BY <2>1, NothingClaimed
  <2>2. CASE r.answer = "ok" /\ Reads(o, "done", op[s].mode, op[s].given,
                                      op[s].out \o r.texts, fate)
    BY <1>4, <2>2, ReadsInStep
  <2>3. QED
    BY <1>1, <2>1, <2>2
<1>6. QED
  BY <1>1, <1>5, OthersStay

LEMMA WholeWhole ==
  ASSUME TypeOK, WholeInv, NEW s \in Streams, NEW n \in Parts, NEW pad \in Pads(s),
         NEW cached \in BOOLEAN, StreamWhole(s, n, pad, cached)
  PROVE  WholeInv'
<1> DEFINE part == Part(s, n)
           r == WithPin(s, driver, card, part, pad, cached)
           e == WithPin(s, r.driver, r.card, <<>>, pad, cached)
           before == Fate(s, driver, card, part, pad, op[s].fate)
           fate == Fate(s, r.driver, r.card, <<>>, pad, before)
<1>1. /\ r \in Reply
      /\ \E p \in Operation :
           /\ Becomes(s, p)
           /\ \/ p = NoOperation
              \/ /\ r.answer = "ok" /\ e.answer = "ok"
                 /\ Reads(p, "done", op[s].mode, n, op[s].out \o r.texts \o e.texts, fate)
  BY WholeTypes
<1>2. op[s].phase = "open" /\ op[s].given = 0
  BY DEF StreamWhole
<1>3. n \in Nat /\ n # 0 /\ 0 + n = n /\ 0 \in Nat /\ driver \in Driver /\ card \in Card
  BY SymmetricStreamsAssumption DEF TypeOK
<1> HIDE DEF part
<1>4. ASSUME r.answer = "ok", e.answer = "ok", fate = "whole"
      PROVE  Delivered(s, op[s].mode, n, op[s].out \o r.texts \o e.texts)
  <2>1. before = "whole" /\ ~AskedForPin(s, r.driver, r.card, <<>>, pad)
    <3> HIDE DEF r, before
    <3>1. QED
      BY <1>4, FateIsWhole
  <2>2. op[s].fate = "whole" /\ ~AskedForPin(s, driver, card, part, pad)
        /\ ~Short(s, driver, part)
    BY <2>1, FateIsWhole
  <2>3. part = Run(s, 0, n)
    BY <1>2, <1>3, <2>2, PartIs DEF part
  <2>4. InHand(s, op[s].mode, 0, op[s].out, driver, card)
    BY <1>2, <2>2 DEF WholeInv, InStep
  <2>5. InHand(s, op[s].mode, 0 + n, op[s].out \o r.texts, r.driver, r.card)
    BY <1>3, <1>4, <2>2, <2>3, <2>4, AnsweredGoesOn
  <2> HIDE DEF r
  <2>6. r.driver \in Driver /\ r.card \in Card
    BY <1>1 DEF Reply
  <2>7. QED
    BY <1>3, <1>4, <2>1, <2>5, <2>6, AnsweredEnds
<1> HIDE DEF r, e, fate
<1>5. PICK o \in Operation :
         /\ Becomes(s, o)
         /\ \/ o = NoOperation
            \/ /\ r.answer = "ok" /\ e.answer = "ok"
               /\ Reads(o, "done", op[s].mode, n, op[s].out \o r.texts \o e.texts, fate)
  BY <1>1
<1>6. InStep(s, o, driver', card') /\ Finished(s, o)
  <2>1. CASE o = NoOperation
    BY <2>1, NothingClaimed
  <2>2. CASE /\ r.answer = "ok" /\ e.answer = "ok"
             /\ Reads(o, "done", op[s].mode, n, op[s].out \o r.texts \o e.texts, fate)
    BY <1>4, <2>2, ReadsInStep
  <2>3. QED
    BY <1>5, <2>1, <2>2
<1>7. QED
  BY <1>5, <1>6, OthersStay

\* A stream that has been given nothing.
LEMMA Nothing ==
  ASSUME NEW s \in Streams, NEW m
  PROVE  /\ Whole(0) = 0 /\ 0 % BlockSize = 0 /\ Run(s, 0, 0) = <<>>
         /\ Cut(Bytes(s, 0)) = <<>> /\ Made(m, s, Bytes(s, 0)) = <<>>
         /\ Chained(m, s, <<>>, <<>>) = <<>>
<1>1. 0 \in Nat /\ 0 < BlockSize
  BY SizeIsPositive
<1>2. 0 \div BlockSize = 0 /\ 0 % BlockSize = 0 /\ Whole(0) = 0
  BY <1>1, ShortIsRest
<1>3. PICK b \in Seq(Byte) : b = Bytes(s, 0) /\ Len(b) = 0 /\ b = Run(s, 0, 0)
  <2>1. Run(s, 0, 0) \in Seq(Byte) /\ Len(Run(s, 0, 0)) = 0
    BY <1>1, RunOf, Zenon
  <2>2. Bytes(s, 0) = Run(s, 0, 0)
    BY <1>1, BytesOf, Zenon
  <2>3. QED
    BY <2>1, <2>2
<1>4. b = <<>>
  BY <1>3, JoinOfNone
<1>5. Cut(b) = <<>>
  <2>1. Cut(b) \in Seq(Block) /\ Len(Cut(b)) = 0
    BY <1>2, <1>3, CutOf
  <2>2. QED
    BY <2>1, JoinOfNone
<1>6. Made(m, s, b) = <<>>
  BY <1>5 DEF Made, Texts
<1>7. Chained(m, s, <<>>, <<>>) = <<>>
  BY DEF Chained
<1>8. QED
  BY <1>2, <1>3, <1>4, <1>5, <1>6, <1>7

LEMMA StartWhole ==
  ASSUME TypeOK, WholeInv, NEW s \in Streams, NEW m \in Modes,
         StreamInit(s, m) \/ StreamInitFails(s, m)
  PROVE  WholeInv'
<1>1. CASE StreamInitFails(s, m)
  <2>1. Becomes(s, NoOperation) /\ NoOperation \in Operation
    BY <1>1, NoneIsOperation DEF StreamInitFails
  <2>2. InStep(s, NoOperation, driver', card') /\ Finished(s, NoOperation)
    BY NothingClaimed
  <2>3. QED
    BY <2>1, <2>2, OthersStay
<1>2. CASE StreamInit(s, m)
  <2> DEFINE o == Started(m)
  <2>1. /\ o.phase = "open" /\ o.mode = m /\ o.given = 0 /\ o.out = <<>>
        /\ o.fate = "whole" /\ o \in Operation
    BY NoneIsOperation DEF Started, NoOperation, Operation
  <2>2. /\ driver'.mode = m /\ driver'.crypt = <<>> /\ driver'.plain = NoBlock
        /\ card'.env = s /\ card'.chain = <<>> /\ Becomes(s, o)
    BY <1>2 DEF StreamInit, TypeOK, Card
  <2> HIDE DEF o
  <2>3. InHand(s, m, 0, <<>>, driver', card')
    <3>1. AllButLast(<<>>) = <<>>
      BY DEF AllButLast
    <3>2. QED
      BY <2>2, <3>1, Nothing DEF InHand
  <2>4. InStep(s, o, driver', card') /\ Finished(s, o)
    BY <2>1, <2>3 DEF InStep, Finished
  <2>5. QED
    BY <2>1, <2>2, <2>4, OthersStay
<1>3. QED
  BY <1>1, <1>2

LEMMA OthersWhole ==
  ASSUME TypeOK, WholeInv
  PROVE  /\ UseOtherKey \/ OtherApplication \/ LosePin => WholeInv'
         /\ \A s \in Streams : StreamClosed(s) => WholeInv'
         /\ \A s \in Streams : \A pad : FinalSize(s, pad) => WholeInv'
         /\ UNCHANGED vars => WholeInv'
<1>1. ASSUME NEW s \in Streams
      PROVE  op[s] \in Operation /\ InStep(s, op[s], driver, card) /\ Finished(s, op[s])
  BY DEF TypeOK, WholeInv
<1>2. ASSUME op' = AllCrossed PROVE WholeInv'
  <2>1. ASSUME NEW s \in Streams PROVE op'[s] = Crossed(op[s])
    BY <1>2 DEF AllCrossed
  <2>2. ASSUME NEW s \in Streams
        PROVE  InStep(s, op'[s], driver', card') /\ Finished(s, op'[s])
    BY <1>1, <2>1, NothingClaimed
  <2>3. QED
    BY <2>2 DEF WholeInv
<1>3. ASSUME LosePin PROVE WholeInv'
  <2>1. card'.env = card.env /\ card'.chain = card.chain /\ driver' = driver /\ op' = op
    BY <1>3 DEF LosePin, TypeOK, Card
  <2>2. ASSUME NEW s \in Streams
        PROVE  InStep(s, op'[s], driver', card') /\ Finished(s, op'[s])
    BY <1>1, <2>1 DEF InStep, InHand
  <2>3. QED
    BY <2>2 DEF WholeInv
<1>4. ASSUME NEW s \in Streams, op' = [op EXCEPT ![s] = NoOperation],
             UNCHANGED <<driver, card>>
      PROVE  WholeInv'
  <2>1. ASSUME NEW t \in Streams
        PROVE  InStep(t, op'[t], driver', card') /\ Finished(t, op'[t])
    <3>1. op'[t] = IF t = s THEN NoOperation ELSE op[t]
      BY <1>4 DEF TypeOK
    <3>2. driver' = driver /\ card' = card
      BY <1>4
    <3>3. CASE t = s
      BY <3>1, <3>3, NothingClaimed
    <3>4. CASE t # s
      BY <1>1, <3>1, <3>2, <3>4
    <3>5. QED
      BY <3>3, <3>4
  <2>2. QED
    BY <2>1 DEF WholeInv
<1>5. ASSUME UNCHANGED vars PROVE WholeInv'
  BY <1>5 DEF vars, WholeInv
<1>6. UseOtherKey \/ OtherApplication \/ LosePin => WholeInv'
  BY <1>2, <1>3 DEF UseOtherKey, OtherApplication
<1>7. QED
  BY <1>4, <1>5, <1>6 DEF StreamClosed, FinalSize

LEMMA InitWhole == Init => WholeInv
<1> SUFFICES ASSUME Init, NEW s \in Streams
             PROVE  InStep(s, op[s], driver, card) /\ Finished(s, op[s])
  BY DEF WholeInv
<1>1. op[s] = NoOperation
  BY DEF Init
<1>2. QED
  BY <1>1, NothingClaimed

LEMMA NextWhole == TypeOK /\ WholeInv /\ [Next]_vars => WholeInv'
<1> SUFFICES ASSUME TypeOK, WholeInv, [Next]_vars PROVE WholeInv'
  OBVIOUS
<1>1. ASSUME NEW s \in Streams, NEW m \in Modes, StreamInit(s, m) \/ StreamInitFails(s, m)
      PROVE  WholeInv'
  BY <1>1, StartWhole
<1>2. ASSUME NEW s \in Streams, NEW n \in Parts, NEW cached \in BOOLEAN,
             StreamUpdate(s, n, cached)
      PROVE  WholeInv'
  BY <1>2, UpdateWhole
<1>3. ASSUME NEW s \in Streams, NEW pad \in Pads(s), NEW cached \in BOOLEAN,
             StreamFinal(s, pad, cached)
      PROVE  WholeInv'
  BY <1>3, FinalWhole
<1>4. ASSUME NEW s \in Streams, NEW pad \in Pads(s), FinalSize(s, pad)
      PROVE  WholeInv'
  BY <1>4, OthersWhole
<1>5. ASSUME NEW s \in Streams, NEW n \in Parts, NEW pad \in Pads(s), NEW cached \in BOOLEAN,
             StreamWhole(s, n, pad, cached)
      PROVE  WholeInv'
  BY <1>5, WholeWhole
<1>6. ASSUME NEW s \in Streams, StreamClosed(s) PROVE WholeInv'
  BY <1>6, OthersWhole
<1>7. CASE UseOtherKey \/ OtherApplication \/ LosePin
  BY <1>7, OthersWhole
<1>8. CASE UNCHANGED vars
  BY <1>8, OthersWhole
<1>9. QED
  BY <1>1, <1>2, <1>3, <1>4, <1>5, <1>6, <1>7, <1>8 DEF Next

\* A stream that nothing befell is what one call over all its bytes would have
\* made, wherever the calls cut it and whatever the other sessions do.
THEOREM StreamsStayWhole == Spec => []StreamsAreWhole
<1>1. Init => TypeOK /\ WholeInv
  BY InitTypes, InitWhole
<1>2. TypeOK /\ WholeInv /\ [Next]_vars => (TypeOK /\ WholeInv)'
  BY NextTypes, NextWhole
<1>3. QED
  BY <1>1, <1>2, WholeShows, PTL DEF Spec

=============================================================================
