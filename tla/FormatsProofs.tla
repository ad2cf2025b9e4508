----------------------------- MODULE FormatsProofs -----------------------------
(***************************************************************************)
(* Theorems about Formats: the serial arrives, the data of a card are      *)
(* decrypted, what is framed is found, a board is set up, and the fields   *)
(* of a card are shown, for every length, key, byte and character.         *)
(* The functions that Ciphers and Frames define step by step are met by    *)
(* induction over the steps: for a set of numbers that has 0, and the      *)
(* successor of each of its numbers, it is derived from the                *)
(* well-foundedness of `<' (UpTo).                                         *)
(*                                                                         *)
(* TEA is undone step by step: each step of TeaDecrypt takes off what the  *)
(* same step of TeaEncrypt added, because the words that it mixes are not  *)
(* the one that it changes.  The frames hold because a sum of bytes is the *)
(* sum of its parts (TotalCat), so that one byte that changes changes it   *)
(* (TotalChanged).  SM4 is undone by its own rounds, with the round keys   *)
(* in reverse order, on the words in reverse order (RoundUndone): of the   *)
(* tables only the range matters.                                          *)
(*                                                                         *)
(* A text is cut nowhere, at its first blank, or inside two characters     *)
(* (CutIs); Java reads what was copied, because members and fields are at  *)
(* the same places and apart (SamePlace, Apart).                           *)
(***************************************************************************)
EXTENDS Formats, SequenceTheorems, WellFoundedInduction, TLAPS

-----------------------------------------------------------------------------
(* Induction over numbers, and recursive functions                         *)

Smaller == {p \in Nat \X Nat : p[1] < p[2]}

\* A set that has zero and, with a number below n, the next one has all up to n.
LEMMA UpTo ==
  ASSUME NEW n \in Nat, NEW T, 0 \in T, \A k \in Nat : k < n /\ k \in T => k + 1 \in T
  PROVE  \A k \in 0..n : k \in T
<1>1. SUFFICES ASSUME 0..n \ T # {} PROVE FALSE
  OBVIOUS
<1>2. IsWellFoundedOn(Smaller, Nat)
  BY NatLessThanWellFounded DEF OpToRel, Smaller
<1>3. PICK x \in 0..n \ T : \A y \in 0..n \ T : <<y, x>> \notin Smaller
  <2>1. 0..n \ T \subseteq Nat
    OBVIOUS
  <2>2. QED
    BY <1>1, <1>2, <2>1, WFMin
<1>4. x # 0 /\ x - 1 \in 0..n /\ x - 1 < x
  BY <1>3
<1>5. x - 1 \in T
  <2>1. <<x - 1, x>> \in Smaller
    BY <1>4 DEF Smaller
  <2>2. QED
    BY <1>3, <1>4, <2>1
<1>6. QED
  BY <1>3, <1>4, <1>5

Repeats(g, n, v, next) == g = [k \in 0..n |-> IF k = 0 THEN v ELSE next[<<g[k - 1], k>>]]

\* Every step of a set into itself is repeated by a recursive function.
LEMMA Recursion ==
  ASSUME NEW S, NEW v \in S, NEW n \in Nat, NEW next \in [S \X Nat -> S]
  PROVE  \E g \in [0..n -> S] : Repeats(g, n, v, next)
<1> USE DEF Repeats
<1> DEFINE Made(m) == {g \in [0..m -> S] :
                          g = [k \in 0..m |-> IF k = 0 THEN v ELSE next[<<g[k - 1], k>>]]}
           T == {m \in Nat : Made(m) # {}}
<1>1. 0 \in T
  <2>1. [k \in 0..0 |-> v] \in Made(0)
    OBVIOUS
  <2>2. QED
    BY <2>1
<1>2. ASSUME NEW m \in Nat, m \in T PROVE m + 1 \in T
  <2>1. PICK g : g \in Made(m)
    BY <1>2
  <2>2. PICK h : h = [k \in 0..(m + 1) |-> IF k <= m THEN g[k] ELSE next[<<g[m], m + 1>>]]
    OBVIOUS
  <2>3. /\ g \in [0..m -> S]
        /\ \A k \in 0..m : g[k] = IF k = 0 THEN v ELSE next[<<g[k - 1], k>>]
    BY <2>1
  <2>4. next[<<g[m], m + 1>>] \in S
    BY <2>3
  <2>5. h \in [0..(m + 1) -> S]
    BY <2>2, <2>3, <2>4
  <2>6. ASSUME NEW k \in 0..(m + 1)
        PROVE  h[k] = IF k = 0 THEN v ELSE next[<<h[k - 1], k>>]
    <3>1. CASE k <= m
      <4>1. k \in 0..m /\ (k # 0 => k - 1 \in 0..m /\ k - 1 \in 0..(m + 1))
        BY <3>1
      <4>2. h[k] = g[k] /\ (k # 0 => h[k - 1] = g[k - 1])
        BY <2>2, <3>1, <4>1
      <4>3. QED
        BY <2>3, <4>1, <4>2
    <3>2. CASE k = m + 1
      <4>1. h[m + 1] = next[<<g[m], m + 1>>] /\ h[m] = g[m]
        BY <2>2
      <4>2. (m + 1) - 1 = m /\ m + 1 # 0
        OBVIOUS
      <4>3. QED
        BY <3>2, <4>1, <4>2
    <3>3. QED
      BY <3>1, <3>2
  <2>7. h \in Made(m + 1)
    BY <2>5, <2>6, <2>2
  <2>8. QED
    BY <2>7
<1>3. n \in T
  <2> HIDE DEF T
  <2>1. \A k \in 0..n : k \in T
    BY <1>1, <1>2, UpTo
  <2>2. QED
    BY <2>1
<1>4. QED
  BY <1>3

-----------------------------------------------------------------------------
(* Exclusive or                                                            *)

Nibble   == {n \in Nat : n < 16}
HalfWord == {n \in Nat : n < Half}

LEMMA DigitType ==
  ASSUME NEW a \in Int, NEW w \in {1, 16, 256, 4096}
  PROVE  Digit(a, w) \in Nibble
<1>1. a \div w \in Int
  OBVIOUS
<1>2. QED
  BY <1>1 DEF Digit, Nibble

LEMMA TableIs ==
  ASSUME NEW a \in Nibble, NEW b \in Nibble
  PROVE  XorTable[a][b] = Xor4(a, b)
<1>1. a \in 0..15 /\ b \in 0..15
  BY DEF Nibble
<1>2. QED
  BY <1>1 DEF XorTable

LEMMA Xor4Type ==
  ASSUME NEW a \in Nibble, NEW b \in Nibble
  PROVE  Xor4(a, b) \in Nibble
BY DEF Xor4, Nibble

LEMMA Xor4Comm ==
  ASSUME NEW a \in Nibble, NEW b \in Nibble
  PROVE  Xor4(a, b) = Xor4(b, a)
BY DEF Xor4, Nibble

LEMMA Xor4Small ==
  ASSUME NEW a \in Nibble, NEW b \in Nibble, a < 4, b < 4
  PROVE  Xor4(a, b) < 4
BY DEF Xor4, Nibble

LEMMA Xor4Zero ==  Xor4(0, 0) = 0
BY DEF Xor4

LEMMA Xor4Twice ==
  ASSUME NEW a \in Nibble, NEW b \in Nibble
  PROVE  Xor4(Xor4(a, b), b) = a
BY DEF Xor4, Nibble

LEMMA Xor4Bit ==
  ASSUME NEW a \in Nibble, NEW b \in Nibble, NEW w \in {1, 2, 4, 8}
  PROVE  (Xor4(a, b) \div w) % 2 = (a \div w + b \div w) % 2
<1>1. PICK p \in {0, 1}, q \in {0, 1}, r \in {0, 1}, s \in {0, 1} :
        /\ p = (a \div 1 + b \div 1) % 2 /\ q = (a \div 2 + b \div 2) % 2
        /\ r = (a \div 4 + b \div 4) % 2 /\ s = (a \div 8 + b \div 8) % 2
  BY DEF Nibble
<1>2. Xor4(a, b) = p + 2 * q + 4 * r + 8 * s
  BY <1>1 DEF Xor4
<1>3. (Xor4(a, b) \div w) % 2 = CASE w = 1 -> p [] w = 2 -> q [] w = 4 -> r [] w = 8 -> s
  <2>1. CASE w = 1
    BY <1>2, <2>1
  <2>2. CASE w = 2
    BY <1>2, <2>2
  <2>3. CASE w = 4
    BY <1>2, <2>3
  <2>4. CASE w = 8
    BY <1>2, <2>4
  <2>5. QED
    BY <2>1, <2>2, <2>3, <2>4
<1>4. QED
  BY <1>1, <1>3

LEMMA Xor4Assoc ==
  ASSUME NEW a \in Nibble, NEW b \in Nibble, NEW c \in Nibble
  PROVE  Xor4(Xor4(a, b), c) = Xor4(a, Xor4(b, c))
<1>1. PICK x \in Nibble, y \in Nibble : x = Xor4(a, b) /\ y = Xor4(b, c)
  BY Xor4Type
<1>2. ASSUME NEW w \in {1, 2, 4, 8}
      PROVE  (x \div w + c \div w) % 2 = (a \div w + y \div w) % 2
  <2>1. (x \div w) % 2 = (a \div w + b \div w) % 2 /\ (y \div w) % 2 = (b \div w + c \div w) % 2
    BY <1>1, Xor4Bit
  <2>2. PICK i \in Int, j \in Int, k \in Int, l \in Int, m \in Int :
          /\ i = x \div w /\ j = y \div w /\ k = a \div w /\ l = b \div w /\ m = c \div w
    <3>1. \A n \in Nibble : n \div w \in Int
      BY DEF Nibble
    <3>2. QED
      BY <3>1
  <2>3. i % 2 = (k + l) % 2 /\ j % 2 = (l + m) % 2
    BY <2>1, <2>2
  <2>4. (i + m) % 2 = (k + j) % 2
    BY <2>3
  <2>5. QED
    BY <2>2, <2>4
<1>3. QED
  BY <1>1, <1>2 DEF Xor4

\* A number of 16 bits and its four digits.
LEMMA Composed ==
  ASSUME NEW p \in Nibble, NEW q \in Nibble, NEW r \in Nibble, NEW s \in Nibble,
         NEW n, n = p + 16 * q + 256 * r + 4096 * s
  PROVE  /\ n \in HalfWord
         /\ Digit(n, 1) = p /\ Digit(n, 16) = q /\ Digit(n, 256) = r /\ Digit(n, 4096) = s
BY DEF Digit, Nibble, HalfWord, Half

LEMMA Decomposed ==
  ASSUME NEW n \in HalfWord
  PROVE  n = Digit(n, 1) + 16 * Digit(n, 16) + 256 * Digit(n, 256) + 4096 * Digit(n, 4096)
BY DEF Digit, HalfWord, Half

LEMMA XorDigits ==
  ASSUME NEW a \in Int, NEW b \in Int
  PROVE  /\ Xor(a, b) \in HalfWord
         /\ \A w \in {1, 16, 256, 4096} : Digit(Xor(a, b), w) = Xor4(Digit(a, w), Digit(b, w))
<1> DEFINE X(w) == Xor4(Digit(a, w), Digit(b, w))
<1>1. \A w \in {1, 16, 256, 4096} : X(w) \in Nibble
  BY DigitType, Xor4Type
<1>2. Xor(a, b) = X(1) + 16 * X(16) + 256 * X(256) + 4096 * X(4096)
  BY DigitType, TableIs DEF Xor
<1> HIDE DEF X
<1>3. PICK p \in Nibble, q \in Nibble, r \in Nibble, s \in Nibble :
        p = X(1) /\ q = X(16) /\ r = X(256) /\ s = X(4096)
  BY <1>1
<1>4. /\ Xor(a, b) \in HalfWord
      /\ Digit(Xor(a, b), 1) = p /\ Digit(Xor(a, b), 16) = q
      /\ Digit(Xor(a, b), 256) = r /\ Digit(Xor(a, b), 4096) = s
  BY <1>2, <1>3, Composed
<1>5. \A w \in {1, 16, 256, 4096} : Digit(Xor(a, b), w) = X(w)
  BY <1>3, <1>4
<1>6. QED
  BY <1>4, <1>5 DEF X

\* Two numbers with the same digits.
LEMMA SameDigits ==
  ASSUME NEW m \in HalfWord, NEW n \in HalfWord,
         \A w \in {1, 16, 256, 4096} : Digit(m, w) = Digit(n, w)
  PROVE  m = n
BY Decomposed

LEMMA XorTwice ==
  ASSUME NEW a \in HalfWord, NEW b \in Int
  PROVE  Xor(Xor(a, b), b) = a
<1>0. a \in Int
  BY DEF HalfWord
<1>1. a \in Int /\ Xor(a, b) \in HalfWord /\ Xor(a, b) \in Int
  <2>1. Xor(a, b) \in HalfWord
    BY <1>0, XorDigits
  <2>2. QED
    BY <1>0, <2>1 DEF HalfWord
<1>2. Xor(Xor(a, b), b) \in HalfWord
  BY <1>1, XorDigits
<1>3. ASSUME NEW w \in {1, 16, 256, 4096} PROVE Digit(Xor(Xor(a, b), b), w) = Digit(a, w)
  <2>1. Digit(Xor(Xor(a, b), b), w) = Xor4(Xor4(Digit(a, w), Digit(b, w)), Digit(b, w))
    BY <1>1, XorDigits
  <2>2. QED
    BY <1>1, <2>1, DigitType, Xor4Twice
<1>4. QED
  BY <1>2, <1>3, SameDigits

LEMMA XorComm ==
  ASSUME NEW a \in Int, NEW b \in Int
  PROVE  Xor(a, b) = Xor(b, a)
<1>1. ASSUME NEW w \in {1, 16, 256, 4096} PROVE Digit(Xor(a, b), w) = Digit(Xor(b, a), w)
  BY XorDigits, DigitType, Xor4Comm
<1>2. QED
  BY <1>1, XorDigits, SameDigits

LEMMA XorAssoc ==
  ASSUME NEW a \in Int, NEW b \in Int, NEW c \in Int
  PROVE  Xor(Xor(a, b), c) = Xor(a, Xor(b, c))
<1>1. Xor(a, b) \in Int /\ Xor(b, c) \in Int
  BY XorDigits DEF HalfWord
<1>2. ASSUME NEW w \in {1, 16, 256, 4096}
      PROVE  Digit(Xor(Xor(a, b), c), w) = Digit(Xor(a, Xor(b, c)), w)
  <2>1. /\ Digit(Xor(Xor(a, b), c), w) = Xor4(Xor4(Digit(a, w), Digit(b, w)), Digit(c, w))
        /\ Digit(Xor(a, Xor(b, c)), w) = Xor4(Digit(a, w), Xor4(Digit(b, w), Digit(c, w)))
    BY <1>1, XorDigits
  <2>2. PICK x \in Nibble, y \in Nibble, z \in Nibble :
          x = Digit(a, w) /\ y = Digit(b, w) /\ z = Digit(c, w)
    BY DigitType
  <2>3. Xor4(Xor4(x, y), z) = Xor4(x, Xor4(y, z))
    BY Xor4Assoc
  <2>4. QED
    BY <2>1, <2>2, <2>3
<1>3. Xor(Xor(a, b), c) \in HalfWord /\ Xor(a, Xor(b, c)) \in HalfWord
  BY <1>1, XorDigits
<1>4. QED
  BY <1>2, <1>3, SameDigits

LEMMA XorSmall ==
  ASSUME NEW a \in Nat, NEW b \in Nat, a < 4, b < 4
  PROVE  Xor(a, b) \in Nat /\ Xor(a, b) < 4
<1>1. /\ Digit(a, 1) = a /\ Digit(b, 1) = b
      /\ \A w \in {16, 256, 4096} : Digit(a, w) = 0 /\ Digit(b, w) = 0
  BY DEF Digit
<1>2. a \in Nibble /\ b \in Nibble /\ 0 \in Nibble
  BY DEF Nibble
<1>3. PICK x \in HalfWord : x = Xor(a, b)
  BY XorDigits
<1>4. /\ Digit(x, 1) = Xor4(a, b)
      /\ \A w \in {16, 256, 4096} : Digit(x, w) = 0
  BY <1>1, <1>3, XorDigits, Xor4Zero
<1>5. x = Xor4(a, b)
  <2>1. x = Xor4(a, b) + 16 * 0 + 256 * 0 + 4096 * 0
    BY <1>4, Decomposed
  <2>2. Xor4(a, b) \in Nat
    BY <1>2, Xor4Type DEF Nibble
  <2>3. QED
    BY <2>1, <2>2
<1>6. QED
  BY <1>2, <1>3, <1>5, Xor4Small, Xor4Type DEF Nibble

-----------------------------------------------------------------------------
(* TEA                                                                     *)

TeaWord == HalfWord \X HalfWord
TeaKey  == [1..4 -> TeaWord]
Block   == {v \in Seq(TeaWord) : Len(v) >= 2}

\* What was added is taken off again.
LEMMA PlusLess ==
  ASSUME NEW a \in TeaWord, NEW b \in TeaWord
  PROVE  Plus(a, b) \in TeaWord /\ Less(Plus(a, b), b) = a
<1>1. PICK p \in HalfWord, q \in HalfWord, r \in HalfWord, s \in HalfWord :
        a = <<p, q>> /\ b = <<r, s>>
  BY DEF TeaWord
<1>2. PICK l \in HalfWord, h \in HalfWord :
        l = (q + s) % 65536 /\ h = (p + r + ((q + s) \div 65536)) % 65536
  BY DEF HalfWord, Half
<1>3. Plus(a, b) = <<h, l>>
  BY <1>1, <1>2 DEF Plus, Half
<1>4. (l - s) % 65536 = q /\ (l - s < 0 <=> q + s >= 65536)
  BY <1>2 DEF HalfWord, Half
<1>5. (h - r - (IF l - s < 0 THEN 1 ELSE 0)) % 65536 = p
  BY <1>2, <1>4 DEF HalfWord, Half
<1>6. Less(<<h, l>>, b) = <<p, q>>
  BY <1>1, <1>4, <1>5 DEF Less, Half
<1>7. QED
  BY <1>1, <1>2, <1>3, <1>6 DEF TeaWord

Pairs == Int \X Int

LEMMA PowerType == /\ Power(2) = 4 /\ Power(3) = 8 /\ Power(4) = 16 /\ Power(5) = 32
BY DEF Power

LEMMA ShiftTypes ==
  ASSUME NEW a \in TeaWord, NEW n \in {2, 3, 4, 5}
  PROVE  LeftBy(a, n) \in Pairs /\ RightBy(a, n) \in Pairs
<1>1. PICK p \in Int, q \in Int : a = <<p, q>>
  BY DEF TeaWord, HalfWord
<1>2. CASE n = 2
  BY <1>1, <1>2, PowerType DEF LeftBy, RightBy, Pairs, Half
<1>3. CASE n = 3
  BY <1>1, <1>3, PowerType DEF LeftBy, RightBy, Pairs, Half
<1>4. CASE n = 4
  BY <1>1, <1>4, PowerType DEF LeftBy, RightBy, Pairs, Half
<1>5. CASE n = 5
  BY <1>1, <1>5, PowerType DEF LeftBy, RightBy, Pairs, Half
<1>6. QED
  BY <1>2, <1>3, <1>4, <1>5

LEMMA WordXorType ==
  ASSUME NEW a \in Pairs, NEW b \in Pairs
  PROVE  WordXor(a, b) \in TeaWord
BY XorDigits DEF Pairs, TeaWord, WordXor

LEMMA TeaWordPairs == TeaWord \subseteq Pairs
BY DEF TeaWord, Pairs, HalfWord

LEMMA PlusPairs ==
  ASSUME NEW a \in Pairs, NEW b \in Pairs
  PROVE  Plus(a, b) \in Pairs
BY DEF Plus, Pairs, Half

LEMMA MixType ==
  ASSUME NEW key \in TeaKey, NEW sum \in TeaWord, NEW p \in Nat,
         NEW y \in TeaWord, NEW z \in TeaWord
  PROVE  Mix(key, sum, p, y, z) \in TeaWord
<1>1. PICK e \in Nat : e = (sum[2] \div 4) % 4 /\ e < 4
  <2>1. sum[2] \in Nat
    BY DEF TeaWord, HalfWord
  <2>2. QED
    BY <2>1
<1>2. Xor(p % 4, e) \in Nat /\ Xor(p % 4, e) < 4
  <2>1. p % 4 \in Nat /\ p % 4 < 4
    OBVIOUS
  <2>2. QED
    BY <1>1, <2>1, XorSmall
<1>3. key[Xor(p % 4, e) + 1] \in TeaWord
  BY <1>2 DEF TeaKey
<1>4. PICK k \in TeaWord : k = key[Xor(p % 4, e) + 1]
  BY <1>3
<1>5. Mix(key, sum, p, y, z) =
        WordXor(Plus(WordXor(k, z), WordXor(sum, y)),
                Plus(WordXor(LeftBy(z, 4), RightBy(y, 3)), WordXor(LeftBy(y, 2), RightBy(z, 5))))
  BY <1>1, <1>4 DEF Mix
<1>6. /\ WordXor(k, z) \in Pairs /\ WordXor(sum, y) \in Pairs
      /\ WordXor(LeftBy(z, 4), RightBy(y, 3)) \in Pairs
      /\ WordXor(LeftBy(y, 2), RightBy(z, 5)) \in Pairs
  BY WordXorType, ShiftTypes, TeaWordPairs
<1>7. QED
  BY <1>5, <1>6, PlusPairs, WordXorType

LEMMA MultipleType == ASSUME NEW n \in Nat PROVE Multiple(n) \in TeaWord
BY DEF Multiple, Delta, TeaWord, HalfWord, Half

\* The k-th step is at a word of the block.
LEMMA Place ==
  ASSUME NEW n \in Nat, n >= 2, NEW k \in Nat
  PROVE  k % n \in Nat /\ k % n < n /\ k \div n \in Nat
OBVIOUS

LEMMA LessType ==
  ASSUME NEW a \in TeaWord, NEW b \in TeaWord
  PROVE  Less(a, b) \in TeaWord
BY DEF Less, TeaWord, HalfWord, Half

LEMMA StepMixType ==
  ASSUME NEW key \in TeaKey, NEW n \in Nat, n >= 2, NEW v \in [1..n -> TeaWord], Len(v) = n,
         NEW k \in Nat
  PROVE  StepMix(key, v, k) \in TeaWord
<1>1. PICK p \in Nat : p = k % n /\ p < n /\ k \div n \in Nat
  BY Place
<1>2. After(v, p) \in TeaWord /\ Before(v, p) \in TeaWord
  BY <1>1 DEF After, Before
<1>3. Multiple(k \div n + 1) \in TeaWord
  BY <1>1, MultipleType
<1>4. QED
  BY <1>1, <1>2, <1>3, MixType DEF StepMix

\* A step changes one word, and the step back brings it back: what it adds is
\* made of the other words.
LEMMA StepTypes ==
  ASSUME NEW key \in TeaKey, NEW v \in Block, NEW k \in Nat
  PROVE  /\ Step(key, v, k) \in Block /\ StepBack(key, v, k) \in Block
         /\ Len(Step(key, v, k)) = Len(v) /\ Len(StepBack(key, v, k)) = Len(v)
<1>1. PICK n \in Nat, p \in Nat : /\ n = Len(v) /\ n >= 2 /\ p = k % Len(v) /\ p < n
                                  /\ k \div Len(v) \in Nat
  BY Place DEF Block
<1>2. v \in [1..n -> TeaWord]
  BY <1>1 DEF Block
<1>3. StepMix(key, v, k) \in TeaWord
  BY <1>1, <1>2, StepMixType
<1>4. PICK a \in TeaWord, b \in TeaWord :
        /\ a = Plus(v[p + 1], StepMix(key, v, k)) /\ b = Less(v[p + 1], StepMix(key, v, k))
  BY <1>1, <1>2, <1>3, PlusLess, LessType
<1>5. Step(key, v, k) = [v EXCEPT ![p + 1] = a] /\ StepBack(key, v, k) = [v EXCEPT ![p + 1] = b]
  BY <1>1, <1>2, <1>4 DEF Step, StepBack
<1>6. \A c \in TeaWord : [v EXCEPT ![p + 1] = c] \in [1..n -> TeaWord]
  BY <1>2
<1>7. \A f \in [1..n -> TeaWord] : f \in Seq(TeaWord) /\ Len(f) = n
  OBVIOUS
<1>8. QED
  BY <1>1, <1>4, <1>5, <1>6, <1>7 DEF Block

LEMMA StepUndone ==
  ASSUME NEW key \in TeaKey, NEW v \in Block, NEW k \in Nat
  PROVE  StepBack(key, Step(key, v, k), k) = v
<1>1. PICK n \in Nat, p \in Nat : /\ n = Len(v) /\ n >= 2 /\ p = k % Len(v) /\ p < n
                                  /\ k \div Len(v) \in Nat
  BY Place DEF Block
<1>2. v \in [1..n -> TeaWord]
  BY <1>1 DEF Block
<1>3. PICK m \in TeaWord : m = StepMix(key, v, k)
  BY <1>1, <1>2, StepMixType
<1>4. PICK w : w = Step(key, v, k)
  OBVIOUS
<1>5. w = [v EXCEPT ![p + 1] = Plus(v[p + 1], m)] /\ Len(w) = n
  BY <1>1, <1>2, <1>3, <1>4, StepTypes DEF Step
<1>6. StepMix(key, w, k) = m
  <2>1. After(w, p) = After(v, p) /\ Before(w, p) = Before(v, p)
    BY <1>1, <1>2, <1>5 DEF After, Before
  <2>2. QED
    BY <1>1, <1>3, <1>5, <2>1 DEF StepMix
<1>7. Less(Plus(v[p + 1], m), m) = v[p + 1]
  BY <1>1, <1>2, <1>3, PlusLess
<1>8. w[p + 1] = Plus(v[p + 1], m)
  BY <1>1, <1>2, <1>5
<1>9. StepBack(key, w, k) = [w EXCEPT ![p + 1] = v[p + 1]]
  BY <1>1, <1>5, <1>6, <1>7, <1>8 DEF StepBack
<1>10. [w EXCEPT ![p + 1] = v[p + 1]] = v
  BY <1>1, <1>2, <1>5
<1>11. QED
  BY <1>4, <1>9, <1>10

\* The blocks after each step.
LEMMA RemixSteps ==
  ASSUME NEW key \in TeaKey, NEW v \in Block, NEW n \in Nat
  PROVE  \E w : /\ w[0] = v /\ w[n] = Remix(key, v, n)
                /\ \A k \in 0..n : w[k] \in Block /\ Len(w[k]) = Len(v)
                /\ \A k \in 1..n : w[k] = Step(key, w[k - 1], k - 1)
<1> DEFINE Is(w) == w = [k \in 0..n |-> IF k = 0 THEN v ELSE Step(key, w[k - 1], k - 1)]
<1>1. \E w : Is(w)
  <2>1. PICK next : next = [x \in Block \X Nat |-> IF x[2] = 0 THEN v ELSE Step(key, x[1], x[2] - 1)]
    OBVIOUS
  <2>2. next \in [Block \X Nat -> Block]
    <3>1. ASSUME NEW x \in Block \X Nat, x[2] # 0 PROVE Step(key, x[1], x[2] - 1) \in Block
      BY <3>1, StepTypes
    <3>2. QED
      BY <2>1, <3>1
  <2>3. PICK g \in [0..n -> Block] :
          g = [k \in 0..n |-> IF k = 0 THEN v ELSE next[<<g[k - 1], k>>]]
    <3>1. PICK S : S = Block /\ v \in S /\ next \in [S \X Nat -> S]
      BY <2>2
    <3>2. \E g \in [0..n -> S] : Repeats(g, n, v, next)
      BY <3>1, Recursion
    <3>3. QED
      BY <3>1, <3>2 DEF Repeats
  <2>4. ASSUME NEW k \in 0..n, k # 0 PROVE next[<<g[k - 1], k>>] = Step(key, g[k - 1], k - 1)
    <3>1. g[k - 1] \in Block
      BY <2>3, <2>4
    <3>2. QED
      BY <2>1, <2>4, <3>1
  <2>5. Is(g)
    BY <2>3, <2>4
  <2>6. QED
    BY <2>5
<1>2. PICK w : w = CHOOSE h : Is(h)
  OBVIOUS
<1>3. Is(w) /\ Remix(key, v, n) = w[n]
  BY <1>1, <1>2 DEF Remix
<1>4. w[0] = v /\ \A k \in 1..n : w[k] = Step(key, w[k - 1], k - 1)
  BY <1>3
<1>5. \A k \in 0..n : w[k] \in Block /\ Len(w[k]) = Len(v)
  <2> DEFINE T == {k \in Nat : w[k] \in Block /\ Len(w[k]) = Len(v)}
  <2>1. 0 \in T
    BY <1>4
  <2>2. ASSUME NEW k \in Nat, k < n, k \in T PROVE k + 1 \in T
    <3>1. w[k + 1] = Step(key, w[k], k)
      BY <1>4, <2>2
    <3>2. QED
      BY <2>2, <3>1, StepTypes
  <2> HIDE DEF T
  <2>3. \A k \in 0..n : k \in T
    BY <2>1, <2>2, UpTo
  <2>4. QED
    BY <2>3 DEF T
<1>6. QED
  BY <1>3, <1>4, <1>5

LEMMA UnmixSteps ==
  ASSUME NEW key \in TeaKey, NEW v \in Block, NEW n \in Nat
  PROVE  \E w : /\ w[0] = v /\ w[n] = Unmix(key, v, n)
                /\ \A k \in 1..n : w[k] = StepBack(key, w[k - 1], n - k)
<1> DEFINE Is(w) == w = [k \in 0..n |-> IF k = 0 THEN v ELSE StepBack(key, w[k - 1], n - k)]
<1>1. \E w : Is(w)
  <2>1. PICK next : next = [x \in Block \X Nat |-> IF x[2] > n THEN v
                                                  ELSE StepBack(key, x[1], n - x[2])]
    OBVIOUS
  <2>2. next \in [Block \X Nat -> Block]
    <3>1. ASSUME NEW x \in Block \X Nat, ~(x[2] > n) PROVE StepBack(key, x[1], n - x[2]) \in Block
      BY <3>1, StepTypes
    <3>2. QED
      BY <2>1, <3>1
  <2>3. PICK g \in [0..n -> Block] :
          g = [k \in 0..n |-> IF k = 0 THEN v ELSE next[<<g[k - 1], k>>]]
    <3>1. PICK S : S = Block /\ v \in S /\ next \in [S \X Nat -> S]
      BY <2>2
    <3>2. \E g \in [0..n -> S] : Repeats(g, n, v, next)
      BY <3>1, Recursion
    <3>3. QED
      BY <3>1, <3>2 DEF Repeats
  <2>4. ASSUME NEW k \in 0..n, k # 0 PROVE next[<<g[k - 1], k>>] = StepBack(key, g[k - 1], n - k)
    <3>1. g[k - 1] \in Block
      BY <2>3, <2>4
    <3>2. QED
      BY <2>1, <2>4, <3>1
  <2>5. Is(g)
    BY <2>3, <2>4
  <2>6. QED
    BY <2>5
<1>2. PICK w : w = CHOOSE h : Is(h)
  OBVIOUS
<1>3. Is(w) /\ Unmix(key, v, n) = w[n]
  BY <1>1, <1>2 DEF Unmix
<1>4. QED
  BY <1>3

\* Whatever the key and the number of words, decryption gives back what was
\* encrypted.
LEMMA TeaUndone ==
  ASSUME NEW key \in TeaKey, NEW v \in Block
  PROVE  TeaDecrypt(TeaEncrypt(v, key), key) = v
<1>1. PICK n \in Nat : n = TeaSteps(v)
  <2>1. Len(v) \in Nat /\ Len(v) > 0
    BY DEF Block
  <2>2. 52 \div Len(v) \in Nat
    BY <2>1
  <2>3. QED
    BY <2>1, <2>2 DEF TeaSteps, TeaRounds
<1>2. PICK e : /\ e[0] = v /\ e[n] = TeaEncrypt(v, key)
               /\ \A k \in 0..n : e[k] \in Block /\ Len(e[k]) = Len(v)
               /\ \A k \in 1..n : e[k] = Step(key, e[k - 1], k - 1)
  BY <1>1, RemixSteps DEF TeaEncrypt
<1>3. e[n] \in Block /\ TeaSteps(e[n]) = n
  BY <1>1, <1>2 DEF TeaSteps
<1>4. PICK d : /\ d[0] = e[n] /\ d[n] = TeaDecrypt(e[n], key)
               /\ \A k \in 1..n : d[k] = StepBack(key, d[k - 1], n - k)
  BY <1>3, UnmixSteps DEF TeaDecrypt
<1> DEFINE T == {k \in Nat : d[k] = e[n - k]}
<1>5. 0 \in T
  BY <1>4
<1>6. ASSUME NEW k \in Nat, k < n, k \in T PROVE k + 1 \in T
  <2>1. PICK m \in Nat : m = n - (k + 1) /\ n - k = m + 1 /\ m + 1 \in 1..n /\ m \in 0..n
    BY <1>6
  <2>2. d[k + 1] = StepBack(key, d[k], m)
    BY <1>4, <1>6, <2>1
  <2>3. d[k] = Step(key, e[m], m)
    BY <1>2, <1>6, <2>1
  <2>4. d[k + 1] = e[m]
    BY <1>2, <2>1, <2>2, <2>3, StepUndone
  <2>5. QED
    BY <2>1, <2>4
<1>7. n \in T
  <2> HIDE DEF T
  <2>1. \A k \in 0..n : k \in T
    BY <1>5, <1>6, UpTo
  <2>2. QED
    BY <2>1
<1>8. d[n] = e[0]
  BY <1>7
<1>9. QED
  BY <1>2, <1>4, <1>8

\* The key of the server is the one that the reader makes of the card's bytes.
LEMMA SameKey ==
  ASSUME NEW keys \in CardKeys
  PROVE  ServerKey(keys) = KeyWords(CardKeyBytes(keys)) /\ ServerKey(keys) \in TeaKey
<1>1. PICK a \in [1..8 -> Byte] : a = keys
  BY CardKeysAssumption
<1>2. PICK b : b = CardKeyBytes(a)
  OBVIOUS
<1>3. /\ b[1] = a[4] /\ b[2] = a[3] /\ b[3] = a[2] /\ b[4] = a[1]
      /\ b[9] = a[8] /\ b[10] = a[7] /\ b[11] = a[6] /\ b[12] = a[5]
      /\ \A i \in {5, 6, 7, 8, 13, 14, 15, 16} : b[i] = TeaKeyBytes[i]
  BY <1>2 DEF CardKeyBytes
<1>4. KeyWords(b) = << <<a[1] * 256 + a[2], a[3] * 256 + a[4]>>, LittleEndian(TeaKeyBytes, 5),
                       <<a[5] * 256 + a[6], a[7] * 256 + a[8]>>, LittleEndian(TeaKeyBytes, 13)>>
  BY <1>3 DEF KeyWords, LittleEndian
<1>5. /\ \A i \in 1..4 : SubSeq(a, 1, 4)[i] = a[i]
      /\ \A i \in 1..4 : SubSeq(a, 5, 8)[i] = a[i + 4]
  BY DEF Byte
<1>6. ServerKey(a) = << <<a[1] * 256 + a[2], a[3] * 256 + a[4]>>, LittleEndian(TeaKeyBytes, 5),
                       <<a[5] * 256 + a[6], a[7] * 256 + a[8]>>, LittleEndian(TeaKeyBytes, 13)>>
  BY <1>5 DEF ServerKey, KeyWords
<1>7. \A i \in 1..8 : a[i] \in Nat /\ a[i] < 256
  <2>1. \A x \in Byte : x \in Nat /\ x < 256
    BY DEF Byte
  <2>2. QED
    BY <2>1
<1>8. ServerKey(a) \in TeaKey
  <2>1. PICK p, q, r, s, t, u, v, w : /\ p = a[1] /\ q = a[2] /\ r = a[3] /\ s = a[4]
                                      /\ t = a[5] /\ u = a[6] /\ v = a[7] /\ w = a[8]
    OBVIOUS
  <2>2. /\ p * 256 + q \in HalfWord /\ r * 256 + s \in HalfWord
        /\ t * 256 + u \in HalfWord /\ v * 256 + w \in HalfWord
    <3>1. /\ p \in Nat /\ q \in Nat /\ r \in Nat /\ s \in Nat
          /\ t \in Nat /\ u \in Nat /\ v \in Nat /\ w \in Nat
      BY <1>7, <2>1
    <3>2. /\ p < 256 /\ q < 256 /\ r < 256 /\ s < 256
          /\ t < 256 /\ u < 256 /\ v < 256 /\ w < 256
      BY <1>7, <2>1
    <3>3. QED
      BY <3>1, <3>2 DEF HalfWord, Half
  <2>3. 231 * 256 + 106 \in HalfWord /\ 184 * 256 + 150 \in HalfWord
    BY DEF HalfWord, Half
  <2>4. 83 * 256 + 12 \in HalfWord /\ 141 * 256 + 36 \in HalfWord
    BY DEF HalfWord, Half
  <2>5. LittleEndian(TeaKeyBytes, 5) = <<231 * 256 + 106, 184 * 256 + 150>>
    BY DEF LittleEndian, TeaKeyBytes
  <2>6. LittleEndian(TeaKeyBytes, 13) = <<83 * 256 + 12, 141 * 256 + 36>>
    BY DEF LittleEndian, TeaKeyBytes
  <2>7. /\ <<p * 256 + q, r * 256 + s>> \in TeaWord /\ <<t * 256 + u, v * 256 + w>> \in TeaWord
        /\ LittleEndian(TeaKeyBytes, 5) \in TeaWord /\ LittleEndian(TeaKeyBytes, 13) \in TeaWord
    BY <2>2, <2>3, <2>4, <2>5, <2>6 DEF TeaWord
  <2>8. \A w1, w2, w3, w4 \in TeaWord : <<w1, w2, w3, w4>> \in TeaKey
    BY DEF TeaKey
  <2>9. QED
    BY <1>6, <2>1, <2>7, <2>8
<1>9. QED
  BY <1>1, <1>2, <1>4, <1>6, <1>8

LEMMA BlocksAre == ASSUME NEW v \in Blocks PROVE v \in Block
<1>1. 0..(Half - 1) = HalfWord
  <2>1. PICK h \in Nat : h = Half
    BY DEF Half
  <2>2. 0..(h - 1) = {n \in Nat : n < h}
    OBVIOUS
  <2>3. QED
    BY <2>1, <2>2 DEF HalfWord
<1>2. v \in Seq(TeaWord) /\ Len(v) >= 2
  BY <1>1, BlocksAssumption DEF TeaWord
<1>3. QED
  BY <1>2 DEF Block

\* Whatever the length of its data and the key that comes with it, the data of
\* a card are decrypted to what the card server encrypted (callTeaByteIn).
THEOREM CardAlwaysDecrypted == Spec => []CardDecrypted
<1>1. Init => CardDecrypted
  BY DEF Init, CardDecrypted
<1>2. CardDecrypted /\ [Next]_vars => CardDecrypted'
  <2> SUFFICES ASSUME CardDecrypted, [Next]_vars PROVE CardDecrypted'
    OBVIOUS
  <2>1. CASE UNCHANGED vars
    BY <2>1 DEF vars, CardDecrypted
  <2>2. ASSUME NEW s \in Serials, SetPhoneSerial(s) PROVE CardDecrypted'
    BY <2>2 DEF SetPhoneSerial, CardDecrypted
  <2>3. CASE SendSerial
    BY <2>3 DEF SendSerial, CardDecrypted
  <2>4. CASE DecryptCard
    <3>1. PICK v \in Blocks, keys \in CardKeys :
            last' = [of |-> "block", plain |-> v,
                     got |-> callTeaByteIn(TeaEncrypt(v, ServerKey(keys)), keys)]
      BY <2>4 DEF DecryptCard, Convert
    <3>2. callTeaByteIn(TeaEncrypt(v, ServerKey(keys)), keys) = v
      BY SameKey, BlocksAre, TeaUndone DEF callTeaByteIn
    <3>3. QED
      BY <3>1, <3>2 DEF CardDecrypted
  <2>5. CASE ShowCard
    BY <2>5 DEF ShowCard, Convert, CardDecrypted
  <2>6. CASE SendCommand
    BY <2>6 DEF SendCommand, Convert, CardDecrypted
  <2>7. CASE ReceiveAnswer
    BY <2>7 DEF ReceiveAnswer, Convert, CardDecrypted
  <2>8. CASE SendMessage
    BY <2>8 DEF SendMessage, Convert, CardDecrypted
  <2>9. CASE SetLine
    BY <2>9 DEF SetLine, Convert, CardDecrypted
  <2>10. CASE OpenBoard
    BY <2>10 DEF OpenBoard, Convert, CardDecrypted
  <2>11. QED
    BY <2>1, <2>2, <2>3, <2>4, <2>5, <2>6, <2>7, <2>8, <2>9, <2>10 DEF Next
<1>3. QED
  BY <1>1, <1>2, PTL DEF Spec

-----------------------------------------------------------------------------
(* Total adds up                                                           *)

\* g adds up the first numbers of s.
Sums(g, s) == g = [i \in 0..Len(s) |-> IF i = 0 THEN 0 ELSE g[i - 1] + s[i]]

\* One function does.
LEMMA SomeSum ==
  ASSUME NEW s \in Seq(Int)
  PROVE  \E g \in [0..Len(s) -> Int] : Sums(g, s)
<1>1. PICK next : next = [x \in Int \X Nat |-> IF x[2] \in 1..Len(s) THEN x[1] + s[x[2]] ELSE 0]
  OBVIOUS
<1>2. next \in [Int \X Nat -> Int]
  BY <1>1
<1>3. PICK n \in Nat : n = Len(s)
  OBVIOUS
<1>4. PICK g \in [0..n -> Int] : Repeats(g, n, 0, next)
  <2>1. PICK S : S = Int /\ 0 \in S /\ next \in [S \X Nat -> S]
    BY <1>2
  <2>2. \E g \in [0..n -> S] : Repeats(g, n, 0, next)
    BY <2>1, Recursion
  <2>3. QED
    BY <2>1, <2>2
<1>5. \A k \in 0..n : g[k] = IF k = 0 THEN 0 ELSE g[k - 1] + s[k]
  <2>1. ASSUME NEW k \in 0..n, k # 0 PROVE g[k] = g[k - 1] + s[k]
    <3>1. g[k] = next[<<g[k - 1], k>>]
      BY <1>4, <2>1 DEF Repeats
    <3>2. g[k - 1] \in Int /\ k \in 1..Len(s)
      BY <1>3, <2>1
    <3>3. QED
      BY <1>1, <3>1, <3>2
  <2>2. g[0] = 0
    BY <1>4 DEF Repeats
  <2>3. QED
    BY <2>1, <2>2
<1>6. QED
  BY <1>3, <1>5 DEF Sums

\* At most one function does.
LEMMA OneSum ==
  ASSUME NEW s \in Seq(Int), NEW g, NEW h, Sums(g, s), Sums(h, s)
  PROVE  g = h
<1> DEFINE T == {i \in Nat : g[i] = h[i]}
<1>1. PICK n \in Nat : n = Len(s)
  OBVIOUS
<1>2. /\ \A i \in 0..n : g[i] = IF i = 0 THEN 0 ELSE g[i - 1] + s[i]
      /\ \A i \in 0..n : h[i] = IF i = 0 THEN 0 ELSE h[i - 1] + s[i]
  BY <1>1 DEF Sums
<1>3. 0 \in T
  BY <1>2
<1>4. ASSUME NEW k \in Nat, k < n, k \in T PROVE k + 1 \in T
  BY <1>2, <1>4
<1>5. \A k \in 0..n : k \in T
  <2> HIDE DEF T
  <2> QED  BY <1>3, <1>4, UpTo
<1>6. QED
  BY <1>1, <1>5 DEF Sums

LEMMA TotalSum ==
  ASSUME NEW s \in Seq(Int), NEW g, Sums(g, s)
  PROVE  Total(s) = g[Len(s)]
<1>1. PICK f : f = CHOOSE h : h = [i \in 0..Len(s) |-> IF i = 0 THEN 0 ELSE h[i - 1] + s[i]]
  OBVIOUS
<1>2. Sums(f, s)
  BY <1>1 DEF Sums
<1>3. Total(s) = f[Len(s)]
  BY <1>1 DEF Total
<1>4. QED
  BY <1>2, <1>3, OneSum

LEMMA TotalType == ASSUME NEW s \in Seq(Int) PROVE Total(s) \in Int
BY SomeSum, TotalSum

\* Of two sequences, one after the other.
LEMMA TotalCat ==
  ASSUME NEW b \in Seq(Int), NEW c \in Seq(Int)
  PROVE  Total(b \o c) = Total(b) + Total(c)
<1>1. PICK g \in [0..Len(b) -> Int] : Sums(g, b)
  BY SomeSum
<1>2. PICK h \in [0..Len(c) -> Int] : Sums(h, c)
  BY SomeSum
<1>3. PICK m \in Nat, n \in Nat : m = Len(b) /\ n = Len(c)
  OBVIOUS
<1>4. PICK d \in Seq(Int) : d = b \o c
  BY ConcatProperties
<1>5. /\ Len(d) = m + n
      /\ \A i \in 1..m : d[i] = b[i]
      /\ \A i \in (m + 1)..(m + n) : d[i] = c[i - m]
  BY <1>3, <1>4
<1>6. /\ \A i \in 0..m : g[i] = IF i = 0 THEN 0 ELSE g[i - 1] + b[i]
      /\ \A i \in 0..n : h[i] = IF i = 0 THEN 0 ELSE h[i - 1] + c[i]
      /\ g \in [0..m -> Int] /\ h \in [0..n -> Int]
  BY <1>1, <1>2, <1>3 DEF Sums
<1>7. PICK s \in [0..Len(d) -> Int] : Sums(s, d)
  BY SomeSum
<1>8. /\ s \in [0..(m + n) -> Int]
      /\ \A i \in 0..(m + n) : s[i] = IF i = 0 THEN 0 ELSE s[i - 1] + d[i]
  BY <1>5, <1>7 DEF Sums
<1> DEFINE S == {i \in Nat : s[i] = g[i]}
           T == {i \in Nat : s[m + i] = g[m] + h[i]}
<1>9. m \in S
  <2>1. 0 \in S
    BY <1>6, <1>8
  <2>2. ASSUME NEW k \in Nat, k < m, k \in S PROVE k + 1 \in S
    <3>1. k + 1 \in 0..m /\ k + 1 \in 0..(m + n) /\ k + 1 \in 1..m /\ k + 1 # 0 /\ (k + 1) - 1 = k
      BY <2>2
    <3>2. d[k + 1] = b[k + 1] /\ s[k + 1] = s[k] + d[k + 1] /\ g[k + 1] = g[k] + b[k + 1]
      BY <1>5, <1>6, <1>8, <3>1
    <3>3. QED
      BY <2>2, <3>2
  <2> HIDE DEF S
  <2>3. \A k \in 0..m : k \in S
    BY <2>1, <2>2, UpTo
  <2>4. QED
    BY <2>3
<1>10. n \in T
  <2>1. 0 \in T
    <3>1. s[m] = g[m] /\ h[0] = 0 /\ g[m] \in Int
      BY <1>6, <1>9
    <3>2. QED
      BY <3>1
  <2>2. ASSUME NEW k \in Nat, k < n, k \in T PROVE k + 1 \in T
    <3>1. PICK j \in Nat : j = m + (k + 1)
      OBVIOUS
    <3>2. /\ j \in 0..(m + n) /\ j \in (m + 1)..(m + n) /\ j # 0 /\ j - 1 = m + k
          /\ k + 1 \in 0..n /\ k + 1 \in 1..n /\ (k + 1) - 1 = k /\ j - m = k + 1 /\ k \in 0..n
      BY <2>2, <3>1
    <3>3. d[j] = c[k + 1]
      BY <1>5, <3>2
    <3>4. s[j] = s[m + k] + d[j]
      BY <1>8, <3>2
    <3>5. h[k + 1] = h[k] + c[k + 1]
      <4>1. PICK l \in 0..n : l = k + 1 /\ l # 0 /\ l - 1 = k
        BY <3>2
      <4>2. h[l] = h[l - 1] + c[l]
        BY <1>6, <4>1
      <4>3. QED
        BY <4>1, <4>2
    <3>6. g[m] \in Int
      BY <1>6
    <3>7. h[k] \in Int
      BY <1>6, <3>2
    <3>8. c[k + 1] \in Int
      BY <1>3, <3>2
    <3>9. QED
      BY <2>2, <3>1, <3>3, <3>4, <3>5, <3>6, <3>7, <3>8
  <2> HIDE DEF T
  <2>3. \A k \in 0..n : k \in T
    BY <2>1, <2>2, UpTo
  <2>4. QED
    BY <2>3
<1>11. Total(d) = s[m + n] /\ Total(b) = g[m] /\ Total(c) = h[n]
  BY <1>1, <1>2, <1>3, <1>5, <1>7, TotalSum
<1>12. QED
  BY <1>4, <1>10, <1>11

LEMMA TotalNone == Total(<<>>) = 0
<1>1. <<>> \in Seq(Int) /\ Len(<<>>) = 0
  OBVIOUS
<1>2. PICK g \in [0..Len(<<>>) -> Int] : Sums(g, <<>>)
  BY <1>1, SomeSum
<1>3. g[0] = 0
  BY <1>1, <1>2 DEF Sums
<1>4. QED
  BY <1>1, <1>2, <1>3, TotalSum

LEMMA TotalOne == ASSUME NEW b \in Int PROVE Total(<<b>>) = b
<1>1. <<b>> \in Seq(Int) /\ Len(<<b>>) = 1 /\ <<b>>[1] = b
  OBVIOUS
<1>2. PICK g \in [0..Len(<<b>>) -> Int] : Sums(g, <<b>>)
  BY <1>1, SomeSum
<1>3. g[0] = 0 /\ g[1] = g[0] + b
  BY <1>1, <1>2 DEF Sums
<1>4. Total(<<b>>) = g[1]
  BY <1>1, <1>2, TotalSum
<1>5. QED
  BY <1>3, <1>4

LEMMA TotalThree ==
  ASSUME NEW a \in Int, NEW b \in Int, NEW c \in Int
  PROVE  Total(<<a, b, c>>) = a + b + c
<1>1. PICK s : s = <<a, b, c>>
  OBVIOUS
<1>2. s \in Seq(Int) /\ Len(s) = 3 /\ s[1] = a /\ s[2] = b /\ s[3] = c
  BY <1>1
<1>3. PICK g \in [0..Len(s) -> Int] : Sums(g, s)
  BY <1>2, SomeSum
<1>4. g[0] = 0 /\ g[1] = g[0] + a /\ g[2] = g[1] + b /\ g[3] = g[2] + c
  BY <1>2, <1>3 DEF Sums
<1>5. Total(s) = g[3]
  BY <1>2, <1>3, TotalSum
<1>6. QED
  BY <1>1, <1>4, <1>5

-----------------------------------------------------------------------------
(* Sequences of numbers, put together and cut                              *)

\* A sequence of n numbers.
Long(s, n)      == s \in Seq(Int) /\ Len(s) = n
Cat(s, t)       == s \o t
Piece(s, k, n)  == SubSeq(s, k + 1, k + n)

LEMMA Glue ==
  ASSUME NEW s, NEW t, NEW m \in Nat, NEW n \in Nat, Long(s, m), Long(t, n)
  PROVE  /\ Long(Cat(s, t), m + n)
         /\ \A i \in 1..m : Cat(s, t)[i] = s[i]
         /\ \A i \in 1..n : Cat(s, t)[m + i] = t[i]
         /\ \A i \in (m + 1)..(m + n) : Cat(s, t)[i] = t[i - m]
<1>1. s \in Seq(Int) /\ t \in Seq(Int) /\ Len(s) = m /\ Len(t) = n
  BY DEF Long
<1>2. PICK r : r = s \o t
  OBVIOUS
<1>3. /\ r \in Seq(Int) /\ Len(r) = m + n
      /\ \A i \in 1..(m + n) : r[i] = IF i <= m THEN s[i] ELSE t[i - m]
  BY <1>1, <1>2, ConcatProperties
<1>4. \A i \in 1..m : r[i] = s[i]
  BY <1>3
<1>5. ASSUME NEW i \in 1..n PROVE r[m + i] = t[i]
  <2>1. PICK j \in 1..(m + n) : j = m + i /\ ~(j <= m) /\ j - m = i
    OBVIOUS
  <2>2. QED
    BY <1>3, <2>1
<1>6. \A i \in (m + 1)..(m + n) : r[i] = t[i - m]
  BY <1>3
<1>7. QED
  BY <1>2, <1>3, <1>4, <1>5, <1>6 DEF Long, Cat

LEMMA Cut ==
  ASSUME NEW s, NEW m \in Nat, NEW k \in Nat, NEW n \in Nat, Long(s, m), k + n <= m
  PROVE  /\ Long(Piece(s, k, n), n)
         /\ \A i \in 1..n : Piece(s, k, n)[i] = s[k + i]
<1>1. PICK a \in Int, b \in Int : a = k + 1 /\ b = k + n
  OBVIOUS
<1>2. PICK r : r = SubSeq(s, a, b)
  OBVIOUS
<1>3. \A i \in a..b : s[i] \in Int
  BY <1>1 DEF Long
<1>4. /\ r \in Seq(Int) /\ Len(r) = (IF a <= b THEN b - a + 1 ELSE 0)
      /\ \A i \in 1..(b - a + 1) : r[i] = s[a + i - 1]
  BY <1>2, <1>3, SubSeqProperties
<1>5. Len(r) = n
  BY <1>1, <1>4
<1>6. ASSUME NEW i \in 1..n PROVE r[i] = s[k + i]
  <2>1. i \in 1..(b - a + 1) /\ a + i - 1 = k + i
    BY <1>1
  <2>2. QED
    BY <1>4, <2>1
<1>7. QED
  BY <1>1, <1>2, <1>4, <1>5, <1>6 DEF Long, Piece

LEMMA SameSeq ==
  ASSUME NEW s, NEW t, NEW n \in Nat, Long(s, n), Long(t, n), \A i \in 1..n : s[i] = t[i]
  PROVE  s = t
BY SeqEqual DEF Long

LEMMA At == ASSUME NEW s, NEW n \in Nat, Long(s, n), NEW i \in 1..n PROVE s[i] \in Int
BY DEF Long

LEMMA Tuple1 ==
  ASSUME NEW a \in Int PROVE Long(<<a>>, 1) /\ <<a>>[1] = a
BY DEF Long

LEMMA Tuple2 ==
  ASSUME NEW a \in Int, NEW b \in Int
  PROVE  Long(<<a, b>>, 2) /\ <<a, b>>[1] = a /\ <<a, b>>[2] = b
BY DEF Long

LEMMA Tuple3 ==
  ASSUME NEW a \in Int, NEW b \in Int, NEW c \in Int
  PROVE  Long(<<a, b, c>>, 3) /\ <<a, b, c>>[1] = a /\ <<a, b, c>>[2] = b /\ <<a, b, c>>[3] = c
BY DEF Long

LEMMA TotalParts ==
  ASSUME NEW s, NEW t, NEW m, NEW n, Long(s, m), Long(t, n)
  PROVE  Total(s) \in Int /\ Total(t) \in Int /\ Total(Cat(s, t)) = Total(s) + Total(t)
BY TotalCat, TotalType DEF Cat, Long

LEMMA TotalInt == ASSUME NEW s, NEW n, Long(s, n) PROVE Total(s) \in Int
BY TotalType DEF Long

\* Bytes as numbers.
LEMMA ByteRange == ASSUME NEW b \in Byte PROVE b \in Int /\ 0 <= b /\ b < 256
BY DEF Byte

LEMMA ByteSeqs ==
  ASSUME NEW s \in Seq(Byte)
  PROVE  /\ Len(s) \in Nat /\ Long(s, Len(s))
         /\ \A i \in 1..Len(s) : s[i] \in Int /\ 0 <= s[i] /\ s[i] < 256
<1>1. PICK n \in Nat : n = Len(s) /\ s \in [1..n -> Byte]
  OBVIOUS
<1>2. \A i \in 1..n : s[i] \in Int /\ 0 <= s[i] /\ s[i] < 256
  BY <1>1, ByteRange
<1>3. s \in Seq(Int)
  <2>1. s \in [1..n -> Int]
    BY <1>1, <1>2
  <2>2. QED
    BY <2>1
<1>4. QED
  BY <1>1, <1>2, <1>3 DEF Long

-----------------------------------------------------------------------------
(* Frames                                                                  *)

\* The bytes of a command's frame.
CheckByte(cmd) == 255 - ((255 + 212 + Total(cmd)) % 256)
IsFrame(fr, cmd, n) ==
  /\ Long(fr, n + 8)
  /\ fr[1] = 0 /\ fr[2] = 0 /\ fr[3] = 255 /\ fr[4] = n + 1
  /\ fr[5] = (256 - (n + 1)) % 256 /\ fr[6] = 212 /\ fr[n + 7] = CheckByte(cmd)
  /\ \A i \in 1..n : fr[6 + i] = cmd[i]

LEMMA CommandFrame ==
  ASSUME NEW cmd, NEW n \in Nat, Long(cmd, n), n < 255
  PROVE  IsFrame(buildCommand(cmd), cmd, n)
<1>1. Total(cmd) \in Int /\ n = Len(cmd)
  BY TotalInt DEF Long
<1>2. PICK k \in Int : k = CheckByte(cmd)
  BY <1>1 DEF CheckByte
<1>3. PICK x \in Int : x = (256 - (n + 1)) % 256
  OBVIOUS
<1>4. PICK p, d, h, e : /\ p = <<0, 0, 255>> /\ d = <<212>>
                        /\ h = <<n + 1, x, 212>> /\ e = <<k, 0>>
  OBVIOUS
<1>5. Long(p, 3) /\ p[1] = 0 /\ p[2] = 0 /\ p[3] = 255
  BY <1>4, Tuple3
<1>6. Long(h, 3) /\ h[1] = n + 1 /\ h[2] = x /\ h[3] = 212
  <2>1. n + 1 \in Int
    OBVIOUS
  <2>2. QED
    BY <1>4, <2>1, Tuple3
<1>7. Long(e, 2) /\ e[1] = k
  BY <1>4, Tuple2
<1>8. Bytes(Cat(Cat(p, d), cmd)) = (255 + 212 + Total(cmd)) % 256
  <2>1. Long(d, 1) /\ Total(d) = 212
    BY <1>4, Tuple1, TotalOne
  <2>2. Total(p) = 255
    <3>1. Total(p) = 0 + 0 + 255
      BY <1>4, TotalThree
    <3>2. QED
      BY <3>1
  <2>3. Long(Cat(p, d), 4) /\ Total(Cat(p, d)) = 255 + 212
    BY <1>5, <2>1, <2>2, TotalParts, Glue
  <2>4. Total(Cat(Cat(p, d), cmd)) = 255 + 212 + Total(cmd)
    BY <2>3, TotalParts
  <2>5. QED
    BY <2>4 DEF Bytes
<1>9. PICK a, b, fr : a = Cat(p, h) /\ b = Cat(a, cmd) /\ fr = buildCommand(cmd)
  OBVIOUS
<1>10. fr = Cat(b, e)
  <2>1. Cat(Cat(p, d), cmd) = PREAMBLE \o <<HOSTTOPN532>> \o cmd
    BY <1>4, Zenon DEF Cat, PREAMBLE, HOSTTOPN532
  <2>2. e = <<Not(Bytes(PREAMBLE \o <<HOSTTOPN532>> \o cmd)), 0>>
    <3>1. Not(Bytes(Cat(Cat(p, d), cmd))) = k
      <4>1. PICK z : z = Bytes(Cat(Cat(p, d), cmd))
        OBVIOUS
      <4>2. z = (255 + 212 + Total(cmd)) % 256
        BY <1>8, <4>1
      <4>3. Not(z) = k
        BY <1>2, <4>2 DEF Not, CheckByte
      <4>4. QED
        BY <4>1, <4>3
    <3>2. QED
      BY <1>4, <2>1, <3>1, Zenon
  <2>3. h = <<Len(cmd) + 1, (256 - (Len(cmd) + 1)) % 256, HOSTTOPN532>>
    BY <1>1, <1>3, <1>4, Zenon DEF HOSTTOPN532
  <2>4. p = PREAMBLE
    BY <1>4 DEF PREAMBLE
  <2>5. fr = PREAMBLE \o <<Len(cmd) + 1, (256 - (Len(cmd) + 1)) % 256, HOSTTOPN532>>
               \o cmd \o <<Not(Bytes(PREAMBLE \o <<HOSTTOPN532>> \o cmd)), 0>>
    BY <1>9, Zenon DEF buildCommand
  <2>6. QED
    BY <1>9, <2>2, <2>3, <2>4, <2>5, Zenon DEF Cat
<1>11. Long(a, 6)
  BY <1>5, <1>6, <1>9, Glue
<1>12. a[1] = 0 /\ a[2] = 0 /\ a[3] = 255 /\ a[4] = n + 1 /\ a[5] = x /\ a[6] = 212
  <2>1. \A i \in 1..3 : a[i] = p[i]
    BY <1>5, <1>6, <1>9, Glue
  <2>2. \A i \in 4..6 : a[i] = h[i - 3]
    BY <1>5, <1>6, <1>9, Glue
  <2>3. QED
    BY <1>5, <1>6, <2>1, <2>2
<1>13. Long(b, 6 + n) /\ (\A i \in 1..6 : b[i] = a[i]) /\ (\A i \in 1..n : b[6 + i] = cmd[i])
  BY <1>9, <1>11, Glue
<1>14. PICK m \in Nat : m = 6 + n /\ Long(b, m)
  BY <1>13
<1>15. Long(fr, m + 2) /\ (\A i \in 1..m : fr[i] = b[i]) /\ (\A i \in 1..2 : fr[m + i] = e[i])
  BY <1>7, <1>10, <1>14, Glue
<1>16. fr[n + 7] = k /\ Long(fr, n + 8)
  <2>1. fr[m + 1] = e[1] /\ m + 1 = n + 7 /\ m + 2 = n + 8
    BY <1>14, <1>15
  <2>2. QED
    BY <1>7, <1>15, <2>1
<1>17. ASSUME NEW i \in 1..n PROVE fr[6 + i] = cmd[i]
  BY <1>13, <1>14, <1>15
<1>18. \A i \in 1..6 : fr[i] = a[i]
  BY <1>13, <1>14, <1>15
<1>19. fr[1] = 0 /\ fr[2] = 0 /\ fr[3] = 255 /\ fr[4] = n + 1 /\ fr[5] = x /\ fr[6] = 212
  BY <1>12, <1>18
<1>20. QED
  BY <1>2, <1>3, <1>9, <1>16, <1>17, <1>19 DEF IsFrame

\* The length and its complement are 256, and with the check sum the bytes from
\* the direction on are a multiple of it.
LEMMA CommandTaken ==
  ASSUME NEW cmd \in Commands
  PROVE  BoardTakes(buildCommand(cmd))
<1>1. PICK n \in Nat : n = Len(cmd) /\ n < 255 /\ Long(cmd, n)
  BY CommandsAssumption, ByteSeqs
<1>2. Total(cmd) \in Int
  BY <1>1, TotalInt
<1>3. PICK fr, k : fr = buildCommand(cmd) /\ k = CheckByte(cmd)
  OBVIOUS
<1>4. /\ Long(fr, n + 8) /\ k \in Int
      /\ fr[1] = 0 /\ fr[2] = 0 /\ fr[3] = 255 /\ fr[4] = n + 1
      /\ fr[5] = (256 - (n + 1)) % 256 /\ fr[6] = 212 /\ fr[n + 7] = k
      /\ \A i \in 1..n : fr[6 + i] = cmd[i]
  <2>1. k \in Int
    BY <1>2, <1>3 DEF CheckByte
  <2>2. IsFrame(fr, cmd, n)
    BY <1>1, <1>3, CommandFrame
  <2>3. QED
    BY <1>3, <2>1, <2>2 DEF IsFrame
<1>5. Piece(fr, 0, 3) = PREAMBLE
  <2>1. PICK p, q : p = <<0, 0, 255>> /\ q = Piece(fr, 0, 3)
    OBVIOUS
  <2>2. Long(p, 3) /\ p[1] = 0 /\ p[2] = 0 /\ p[3] = 255
    BY <2>1, Tuple3
  <2>3. Long(q, 3) /\ \A i \in 1..3 : q[i] = fr[0 + i]
    <3>1. n + 8 \in Nat /\ 0 + 3 <= n + 8 /\ Long(fr, n + 8)
      BY <1>4
    <3>2. QED
      BY <2>1, <3>1, Cut
  <2>4. \A i \in 1..3 : q[i] = p[i]
    BY <1>4, <2>2, <2>3
  <2>5. QED
    BY <2>1, <2>2, <2>3, <2>4, SameSeq DEF PREAMBLE
<1>6. PICK d, b, c : d = <<212>> /\ b = Cat(d, cmd) /\ c = <<k>>
  OBVIOUS
<1>7. Long(d, 1) /\ d[1] = 212 /\ Long(c, 1) /\ c[1] = k /\ Total(d) = 212 /\ Total(c) = k
  <2>1. k \in Int /\ 212 \in Int
    BY <1>4
  <2>2. QED
    BY <1>6, <2>1, Tuple1, TotalOne
<1>8. /\ Long(b, 1 + n) /\ (\A i \in 1..1 : b[i] = d[i])
      /\ \A i \in 1..n : b[1 + i] = cmd[i]
  BY <1>1, <1>6, <1>7, Glue
<1>9. Total(b) = 212 + Total(cmd)
  BY <1>1, <1>6, <1>7, TotalParts
<1>10. Piece(fr, 5, n + 2) = Cat(b, c)
  <2>1. PICK l, r, m : l = Piece(fr, 5, n + 2) /\ r = Cat(b, c) /\ m = 1 + n
    OBVIOUS
  <2>2. Long(l, n + 2) /\ \A i \in 1..(n + 2) : l[i] = fr[5 + i]
    <3>1. /\ n + 8 \in Nat /\ n + 2 \in Nat /\ 5 + (n + 2) <= n + 8 /\ Long(fr, n + 8)
      BY <1>4
    <3>2. QED
      BY <2>1, <3>1, Cut
  <2>3. /\ Long(r, m + 1) /\ (\A i \in 1..m : r[i] = b[i])
        /\ \A i \in 1..1 : r[m + i] = c[i]
    BY <1>7, <1>8, <2>1, Glue
  <2>4. ASSUME NEW i \in 1..(n + 2) PROVE l[i] = r[i]
    <3>1. CASE i = 1
      <4>1. l[1] = fr[5 + 1] /\ r[1] = b[1] /\ b[1] = d[1]
        BY <1>8, <2>1, <2>2, <2>3
      <4>2. QED
        BY <1>4, <1>7, <3>1, <4>1
    <3>2. CASE i \in 2..(n + 1)
      <4>1. PICK j \in 1..n : i = 1 + j /\ 5 + i = 6 + j
        <5>1. i - 1 \in 1..n /\ i = 1 + (i - 1) /\ 5 + i = 6 + (i - 1)
          BY <3>2
        <5>2. QED
          BY <5>1
      <4>2. l[i] = cmd[j]
        BY <1>4, <2>2, <4>1
      <4>3. r[i] = cmd[j]
        BY <1>8, <2>1, <2>3, <3>2, <4>1
      <4>4. QED
        BY <4>2, <4>3
    <3>3. CASE i = n + 2
      <4>1. l[i] = fr[5 + i] /\ 5 + i = n + 7 /\ r[m + 1] = c[1] /\ i = m + 1
        BY <2>1, <2>2, <2>3, <3>3
      <4>2. QED
        BY <1>4, <1>7, <4>1
    <3>4. QED
      BY <3>1, <3>2, <3>3
  <2>5. Long(r, n + 2)
    <3>1. m + 1 = n + 2
      BY <2>1
    <3>2. QED
      BY <2>3, <3>1
  <2>6. QED
    BY <2>1, <2>2, <2>4, <2>5, SameSeq
<1>11. Total(Cat(b, c)) = 212 + Total(cmd) + k
  BY <1>7, <1>8, <1>9, TotalParts
<1>12. Bytes(SubSeq(fr, 6, n + 7)) = 0
  <2>1. (212 + Total(cmd) + k) % 256 = 0
    BY <1>2, <1>3 DEF CheckByte
  <2>2. 5 + 1 = 6 /\ 5 + (n + 2) = n + 7
    OBVIOUS
  <2>3. QED
    BY <1>10, <1>11, <2>1, <2>2 DEF Bytes, Piece
<1>13. QED
  <2>1. (n + 1) + 6 = n + 7 /\ (n + 1) + 7 = n + 8 /\ ((n + 1) + ((256 - (n + 1)) % 256)) % 256 = 0
    BY <1>1
  <2>2. 0 + 1 = 1 /\ 0 + 3 = 3
    OBVIOUS
  <2>3. SubSeq(fr, 1, 3) = PREAMBLE
    BY <1>5, <2>2 DEF Piece
  <2>4. Len(fr) = n + 8
    BY <1>4 DEF Long
  <2>5. QED
    BY <1>3, <1>4, <1>12, <2>1, <2>3, <2>4 DEF BoardTakes

\* The bytes of the answer's frame, behind the acknowledgement.
AnswerCheck(data) == (256 - ((280 + Total(data)) % 256)) % 256
IsHead(fr) ==
  /\ fr[1] = 0 /\ fr[2] = 0 /\ fr[3] = 255 /\ fr[4] = 0 /\ fr[5] = 255 /\ fr[6] = 0
  /\ fr[7] = 0 /\ fr[8] = 0 /\ fr[9] = 255
IsBody(fr, data, n) ==
  /\ fr[12] = 213 /\ fr[13] = 67 /\ fr[14] = 0 /\ \A i \in 1..n : fr[14 + i] = data[i]
IsAnswer(fr, data, n) ==
  /\ Long(fr, n + 16) /\ IsHead(fr) /\ fr[10] = n + 3 /\ IsBody(fr, data, n)
  /\ fr[n + 15] = AnswerCheck(data)

LEMMA Tuple6 ==
  ASSUME NEW s, s = <<0, 0, 255, 0, 255, 0>>
  PROVE  Long(s, 6) /\ s[1] = 0 /\ s[2] = 0 /\ s[3] = 255 /\ s[4] = 0 /\ s[5] = 255 /\ s[6] = 0
BY DEF Long

\* Status and data, and their sum.
LEMMA AnswerBody ==
  ASSUME NEW data, NEW n \in Nat, Long(data, n), NEW b, b = Cat(<<213, 67, 0>>, data)
  PROVE  /\ Long(b, 3 + n) /\ Total(b) = 280 + Total(data)
         /\ b[1] = 213 /\ b[2] = 67 /\ b[3] = 0 /\ \A i \in 1..n : b[3 + i] = data[i]
<1>1. PICK h : h = <<213, 67, 0>>
  OBVIOUS
<1>2. Long(h, 3) /\ h[1] = 213 /\ h[2] = 67 /\ h[3] = 0
  BY <1>1, Tuple3
<1>3. b = Cat(h, data)
  BY <1>1
<1>4. Long(b, 3 + n) /\ (\A i \in 1..3 : b[i] = h[i]) /\ \A i \in 1..n : b[3 + i] = data[i]
  BY <1>2, <1>3, Glue
<1>5. Total(h) = 280
  <2>1. Total(h) = 213 + 67 + 0
    BY <1>1, TotalThree
  <2>2. QED
    BY <2>1
<1>6. Total(b) = 280 + Total(data)
  BY <1>2, <1>3, <1>5, TotalParts
<1>7. QED
  BY <1>2, <1>4, <1>6

LEMMA AnswerFrame ==
  ASSUME NEW data, NEW n \in Nat, Long(data, n)
  PROVE  IsAnswer(BoardAnswer(data), data, n)
<1>1. PICK ack, pre, body, fr : /\ ack = <<0, 0, 255, 0, 255, 0>> /\ pre = <<0, 0, 255>>
                                /\ body = Cat(<<213, 67, 0>>, data) /\ fr = BoardAnswer(data)
  OBVIOUS
<1>2. /\ Long(body, 3 + n) /\ Total(body) = 280 + Total(data)
      /\ body[1] = 213 /\ body[2] = 67 /\ body[3] = 0 /\ \A i \in 1..n : body[3 + i] = data[i]
  BY <1>1, AnswerBody
<1>3. PICK l \in Nat : l = 3 + n /\ l = Len(body) /\ Long(body, l)
  BY <1>2 DEF Long
<1>4. PICK k \in Int : k = AnswerCheck(data) /\ k = (256 - Bytes(body)) % 256
  <2>1. PICK t : t = Total(body)
    OBVIOUS
  <2>2. t \in Int /\ t = 280 + Total(data)
    BY <1>2, <2>1, TotalInt
  <2>3. AnswerCheck(data) = (256 - (t % 256)) % 256 /\ Bytes(body) = t % 256
    BY <2>1, <2>2 DEF AnswerCheck, Bytes
  <2>4. AnswerCheck(data) \in Int
    BY <2>2, <2>3
  <2>5. QED
    BY <2>3, <2>4
<1>5. PICK e, f, c : e = <<l, 256 - l>> /\ f = <<k, 0>> /\ c = Cat(ack, pre)
  OBVIOUS
<1>6. PICK d, g : d = Cat(c, e) /\ g = Cat(d, body)
  OBVIOUS
<1>7. fr = Cat(g, f)
  <2>1. body = <<PN532TOHOST, 67, 0>> \o data
    BY <1>1 DEF Cat, PN532TOHOST
  <2>2. e = <<Len(body), 256 - Len(body)>> /\ f = <<(256 - Bytes(body)) % 256, 0>>
    BY <1>3, <1>4, <1>5, Zenon
  <2>3. ack = NFC_ACK /\ pre = PREAMBLE
    BY <1>1 DEF NFC_ACK, PREAMBLE
  <2>4. fr = NFC_ACK \o PREAMBLE \o <<Len(body), 256 - Len(body)>> \o body
               \o <<(256 - Bytes(body)) % 256, 0>>
    BY <1>1, <2>1, Zenon DEF BoardAnswer
  <2>5. QED
    BY <1>5, <1>6, <2>2, <2>3, <2>4, Zenon DEF Cat
<1>8. Long(ack, 6) /\ Long(pre, 3) /\ pre[1] = 0 /\ pre[2] = 0 /\ pre[3] = 255
  BY <1>1, Tuple6, Tuple3
<1>9. Long(c, 9) /\ (\A i \in 1..6 : c[i] = ack[i]) /\ (\A i \in 1..3 : c[6 + i] = pre[i])
  BY <1>5, <1>8, Glue
<1>10. Long(e, 2) /\ e[1] = l
  <2>1. 256 - l \in Int
    OBVIOUS
  <2>2. QED
    BY <1>5, <2>1, Tuple2
<1>11. Long(d, 11) /\ (\A i \in 1..9 : d[i] = c[i]) /\ (\A i \in 1..2 : d[9 + i] = e[i])
  BY <1>6, <1>9, <1>10, Glue
<1>12. /\ Long(g, 11 + l) /\ (\A i \in 1..11 : g[i] = d[i])
       /\ \A i \in 1..l : g[11 + i] = body[i]
  <2>1. PICK ll \in Nat : ll = 11 /\ Long(d, ll)
    BY <1>11
  <2>2. Long(g, ll + l)
    BY <1>3, <1>6, <2>1, Glue
  <2>3. \A i \in 1..ll : g[i] = d[i]
    BY <1>3, <1>6, <2>1, Glue
  <2>4. \A i \in 1..l : g[ll + i] = body[i]
    BY <1>3, <1>6, <2>1, Glue
  <2>5. QED
    BY <2>1, <2>2, <2>3, <2>4
<1>13. PICK m \in Nat : m = 11 + l /\ m = n + 14 /\ Long(g, m)
  BY <1>3, <1>12
<1>14. Long(f, 2) /\ f[1] = k
  BY <1>5, Tuple2
<1>15. /\ Long(fr, m + 2) /\ (\A i \in 1..m : fr[i] = g[i])
       /\ \A i \in 1..2 : fr[m + i] = f[i]
  BY <1>7, <1>13, <1>14, Glue
<1>16. (\A i \in 1..11 : fr[i] = d[i]) /\ (\A i \in 1..9 : fr[i] = c[i])
  BY <1>11, <1>12, <1>13, <1>15
<1>17. IsHead(fr)
  <2>1. /\ ack[1] = 0 /\ ack[2] = 0 /\ ack[3] = 255 /\ ack[4] = 0 /\ ack[5] = 255 /\ ack[6] = 0
    BY <1>1, Tuple6
  <2>2. /\ fr[1] = ack[1] /\ fr[2] = ack[2] /\ fr[3] = ack[3]
        /\ fr[4] = ack[4] /\ fr[5] = ack[5] /\ fr[6] = ack[6]
    BY <1>9, <1>16
  <2>3. fr[7] = pre[1] /\ fr[8] = pre[2] /\ fr[9] = pre[3]
    <3>1. c[6 + 1] = pre[1] /\ c[6 + 2] = pre[2] /\ c[6 + 3] = pre[3]
      BY <1>9
    <3>2. QED
      BY <1>16, <3>1
  <2>4. QED
    BY <1>8, <2>1, <2>2, <2>3 DEF IsHead
<1>18. fr[10] = n + 3
  <2>1. d[9 + 1] = e[1] /\ fr[10] = d[10]
    BY <1>11, <1>16
  <2>2. QED
    BY <1>3, <1>10, <2>1
<1>19. \A i \in 1..l : fr[11 + i] = body[i]
  BY <1>12, <1>13, <1>15
<1>20. IsBody(fr, data, n)
  <2>1. fr[11 + 1] = body[1] /\ fr[11 + 2] = body[2] /\ fr[11 + 3] = body[3]
    BY <1>3, <1>19
  <2>2. ASSUME NEW i \in 1..n PROVE fr[14 + i] = data[i]
    <3>1. 3 + i \in 1..l /\ 11 + (3 + i) = 14 + i
      BY <1>3
    <3>2. fr[11 + (3 + i)] = body[3 + i]
      BY <1>19, <3>1
    <3>3. QED
      BY <1>2, <3>1, <3>2
  <2>3. QED
    BY <1>2, <2>1, <2>2 DEF IsBody
<1>21. fr[n + 15] = k /\ Long(fr, n + 16)
  <2>1. fr[m + 1] = f[1] /\ m + 1 = n + 15 /\ m + 2 = n + 16
    BY <1>13, <1>15
  <2>2. QED
    BY <1>14, <1>15, <2>1
<1>22. QED
  BY <1>1, <1>4, <1>17, <1>18, <1>20, <1>21 DEF IsAnswer

\* A sum with one number changed.
LEMMA TotalChanged ==
  ASSUME NEW s, NEW n \in Nat, Long(s, n), NEW at \in 1..n, NEW v \in Int,
         NEW t, Long(t, n), t[at] = v, \A i \in 1..n : i # at => t[i] = s[i]
  PROVE  Total(t) = Total(s) - s[at] + v
<1>1. PICK j \in Nat, k \in Nat : j = at - 1 /\ k = n - at
  OBVIOUS
<1>2. PICK a, b : a = Piece(s, 0, j) /\ b = Piece(s, at, k)
  OBVIOUS
<1>3. /\ Long(a, j) /\ Long(b, k)
      /\ \A i \in 1..j : a[i] = s[i]
      /\ \A i \in 1..k : b[i] = s[at + i]
  <2>1. 0 + j <= n /\ at + k <= n /\ at \in Nat
    BY <1>1
  <2>2. Long(a, j) /\ \A i \in 1..j : a[i] = s[0 + i]
    BY <1>2, <2>1, Cut
  <2>3. Long(b, k) /\ \A i \in 1..k : b[i] = s[at + i]
    BY <1>2, <2>1, Cut
  <2>4. QED
    BY <2>2, <2>3
<1>4. ASSUME NEW u, NEW x \in Int, Long(u, n), u[at] = x, \A i \in 1..n : i # at => u[i] = s[i]
      PROVE  Total(u) = Total(a) + x + Total(b)
  <2>1. PICK o, c, d : o = <<x>> /\ c = Cat(a, o) /\ d = Cat(c, b)
    OBVIOUS
  <2>2. Long(o, 1) /\ o[1] = x /\ Total(o) = x
    BY <2>1, Tuple1, TotalOne
  <2>3. Long(c, j + 1) /\ (\A i \in 1..j : c[i] = a[i]) /\ \A i \in 1..1 : c[j + i] = o[i]
    BY <1>3, <2>1, <2>2, Glue
  <2>4. PICK l \in Nat : l = j + 1 /\ l = at /\ Long(c, l)
    BY <1>1, <2>3
  <2>5. Long(d, l + k) /\ (\A i \in 1..l : d[i] = c[i]) /\ \A i \in 1..k : d[l + i] = b[i]
    BY <1>3, <2>1, <2>4, Glue
  <2>6. ASSUME NEW i \in 1..n PROVE d[i] = u[i]
    <3>1. CASE i < at
      <4>1. i \in 1..j /\ i \in 1..l
        BY <1>1, <2>4, <3>1
      <4>2. d[i] = s[i]
        BY <1>3, <2>3, <2>5, <4>1
      <4>3. QED
        BY <1>4, <3>1, <4>2
    <3>2. CASE i = at
      <4>1. i \in 1..l /\ i = j + 1
        BY <2>4, <3>2
      <4>2. d[i] = c[i] /\ c[j + 1] = o[1]
        BY <2>3, <2>5, <4>1
      <4>3. QED
        BY <1>4, <2>2, <3>2, <4>1, <4>2
    <3>3. CASE i > at
      <4>1. PICK h \in 1..k : i = at + h
        <5>1. i - at \in 1..k /\ i = at + (i - at)
          BY <1>1, <3>3
        <5>2. QED
          BY <5>1
      <4>2. d[i] = b[h] /\ b[h] = s[i]
        BY <1>3, <2>4, <2>5, <4>1
      <4>3. QED
        BY <1>4, <3>3, <4>2
    <3>4. QED
      BY <3>1, <3>2, <3>3
  <2>7. Long(d, n)
    <3>1. l + k = n
      BY <1>1, <2>4
    <3>2. QED
      BY <2>5, <3>1
  <2>8. u = d
    BY <1>4, <2>6, <2>7, SameSeq
  <2>9. Total(c) = Total(a) + x
    BY <1>3, <2>1, <2>2, TotalParts
  <2>10. Total(d) = Total(c) + Total(b)
    BY <1>3, <2>1, <2>4, TotalParts
  <2>11. QED
    BY <2>8, <2>9, <2>10
<1>5. s[at] \in Int
  BY At
<1>6. Total(s) = Total(a) + s[at] + Total(b)
  BY <1>4, <1>5
<1>7. Total(t) = Total(a) + v + Total(b)
  BY <1>4
<1>8. Total(a) \in Int /\ Total(b) \in Int
  BY <1>3, TotalInt
<1>9. QED
  BY <1>5, <1>6, <1>7, <1>8

\* What the check sum is compared with.
LEMMA AnswerSum ==
  ASSUME NEW data, NEW n \in Nat, Long(data, n),
         NEW b, Long(b, n + 16), IsHead(b), IsBody(b, data, n)
  PROVE  CheckSum(SubSeq(b, 7, n + 16)) <=> 255 - ((535 + Total(data)) % 256) = b[n + 15]
<1>1. PICK m \in Nat : m = n + 10
  OBVIOUS
<1>2. PICK f : /\ Long(f, m) /\ f = Piece(b, 6, m)
               /\ \A i \in 1..m : f[i] = b[6 + i]
  <2>1. 6 + m <= n + 16 /\ n + 16 \in Nat
    BY <1>1
  <2>2. Long(Piece(b, 6, m), m) /\ \A i \in 1..m : Piece(b, 6, m)[i] = b[6 + i]
    BY <2>1, Cut
  <2>3. QED
    BY <2>2
<1>3. PICK p, q : p = Piece(f, 0, 3) /\ q = Piece(f, 5, n + 3)
  OBVIOUS
<1>4. Long(p, 3) /\ \A i \in 1..3 : p[i] = f[0 + i]
  <2>1. PICK l \in Nat : l = 3 /\ 0 + l <= m
    BY <1>1
  <2>2. Long(f, m)
    BY <1>2
  <2>3. Long(Piece(f, 0, l), l) /\ \A i \in 1..l : Piece(f, 0, l)[i] = f[0 + i]
    BY <2>1, <2>2, Cut
  <2>4. p = Piece(f, 0, l)
    BY <1>3, <2>1
  <2>5. QED
    BY <2>1, <2>3, <2>4
<1>5. Long(q, n + 3) /\ \A i \in 1..(n + 3) : q[i] = f[5 + i]
  <2>1. PICK l \in Nat : l = n + 3 /\ 5 + l <= m
    BY <1>1
  <2>2. Long(f, m)
    BY <1>2
  <2>3. Long(Piece(f, 5, l), l) /\ \A i \in 1..l : Piece(f, 5, l)[i] = f[5 + i]
    BY <2>1, <2>2, Cut
  <2>4. q = Piece(f, 5, l)
    BY <1>3, <2>1
  <2>5. QED
    BY <2>1, <2>3, <2>4
<1>6. Total(p) = 255
  <2>1. PICK h : h = <<0, 0, 255>>
    OBVIOUS
  <2>2. Long(h, 3) /\ h[1] = 0 /\ h[2] = 0 /\ h[3] = 255
    BY <2>1, Tuple3
  <2>3. p[1] = b[7] /\ p[2] = b[8] /\ p[3] = b[9]
    BY <1>1, <1>2, <1>4
  <2>4. \A i \in 1..3 : p[i] = h[i]
    BY <2>2, <2>3 DEF IsHead
  <2>5. p = h
    BY <1>4, <2>2, <2>4, SameSeq
  <2>6. Total(h) = 0 + 0 + 255
    BY <2>1, TotalThree
  <2>7. QED
    BY <2>5, <2>6
<1>7. Total(q) = 280 + Total(data)
  <2>1. PICK h : h = Cat(<<213, 67, 0>>, data)
    OBVIOUS
  <2>2. /\ Long(h, 3 + n) /\ Total(h) = 280 + Total(data)
        /\ h[1] = 213 /\ h[2] = 67 /\ h[3] = 0 /\ \A i \in 1..n : h[3 + i] = data[i]
    BY <2>1, AnswerBody
  <2>3. ASSUME NEW i \in 1..(n + 3) PROVE q[i] = b[11 + i]
    <3>1. 5 + i \in 1..m /\ 6 + (5 + i) = 11 + i
      BY <1>1
    <3>2. QED
      BY <1>2, <1>5, <3>1
  <2>4. ASSUME NEW i \in 1..(n + 3) PROVE q[i] = h[i]
    <3>1. CASE i <= 3
      <4>1. q[1] = b[11 + 1] /\ q[2] = b[11 + 2] /\ q[3] = b[11 + 3]
        BY <2>3
      <4>2. q[1] = h[1] /\ q[2] = h[2] /\ q[3] = h[3]
        BY <2>2, <4>1 DEF IsBody
      <4>3. i = 1 \/ i = 2 \/ i = 3
        BY <3>1
      <4>4. QED
        BY <4>2, <4>3
    <3>2. CASE i > 3
      <4>1. PICK j \in 1..n : i = 3 + j /\ 11 + i = 14 + j
        <5>1. i - 3 \in 1..n /\ i = 3 + (i - 3) /\ 11 + i = 14 + (i - 3)
          BY <3>2
        <5>2. QED
          BY <5>1
      <4>2. q[i] = data[j]
        BY <2>3, <4>1 DEF IsBody
      <4>3. h[i] = data[j]
        BY <2>2, <4>1
      <4>4. QED
        BY <4>2, <4>3
    <3>3. QED
      BY <3>1, <3>2
  <2>5. Long(h, n + 3)
    <3>1. 3 + n = n + 3
      OBVIOUS
    <3>2. QED
      BY <2>2, <3>1
  <2>6. n + 3 \in Nat
    OBVIOUS
  <2>7. QED
    BY <1>5, <2>2, <2>4, <2>5, <2>6, SameSeq
<1>8. Total(Cat(p, q)) = 255 + (280 + Total(data))
  BY <1>4, <1>5, <1>6, <1>7, TotalParts
<1>9. Total(data) \in Int
  BY TotalInt
<1>10. Bytes(Cat(p, q)) = (535 + Total(data)) % 256
  <2>1. 255 + (280 + Total(data)) = 535 + Total(data)
    BY <1>9
  <2>2. QED
    BY <1>8, <2>1 DEF Bytes
<1>11. Cat(p, q) = SubSeq(f, 1, 3) \o SubSeq(f, 6, Len(f) - 2)
  <2>1. Len(f) = m
    BY <1>2 DEF Long
  <2>2. Len(f) - 2 = 5 + (n + 3) /\ 0 + 1 = 1 /\ 0 + 3 = 3 /\ 5 + 1 = 6
    BY <1>1, <2>1
  <2>3. p = SubSeq(f, 1, 3) /\ q = SubSeq(f, 6, Len(f) - 2)
    BY <1>3, <2>2 DEF Piece
  <2>4. QED
    BY <2>3, Zenon DEF Cat
<1>12. f[Len(f) - 1] = b[n + 15]
  <2>1. Len(f) = m
    BY <1>2 DEF Long
  <2>2. Len(f) - 1 \in 1..m /\ 6 + (Len(f) - 1) = n + 15
    BY <1>1, <2>1
  <2>3. QED
    BY <1>2, <2>2
<1>13. f = SubSeq(b, 7, n + 16)
  <2>1. 6 + 1 = 7 /\ 6 + m = n + 16
    BY <1>1
  <2>2. QED
    BY <1>2, <2>1 DEF Piece
<1>14. CheckSum(f) <=> 255 - Bytes(Cat(p, q)) = b[n + 15]
  BY <1>11, <1>12, Zenon DEF CheckSum, Not
<1>15. QED
  BY <1>10, <1>13, <1>14

\* CmdRequest takes an answer for whole when its length byte says so.
LEMMA AckLength == ASSUME NEW l \in Int PROVE ACK_FRAME_LEN(l) = l + 13
<1>1. Len(NFC_ACK) = 6 /\ Len(PREAMBLE) = 3
  BY DEF NFC_ACK, PREAMBLE
<1>2. QED
  BY <1>1 DEF ACK_FRAME_LEN

LEMMA ReceivedWhole ==
  ASSUME NEW b, NEW n \in Nat, Long(b, n + 16), NEW cut \in 1..(n + 16)
  PROVE  /\ b[10] = n + 3 => Received(b, cut) = Parsed(b, n + 16)
         /\ cut = n + 16 /\ b[10] # n + 3 => Received(b, cut) = Error
<1>1. PICK S : S = {off \in {cut, Len(b)} : Complete(b, off)}
  OBVIOUS
<1>2. Received(b, cut) = IF S = {} THEN Error ELSE Parsed(b, Min(S))
  BY <1>1, Zenon DEF Received
<1>3. Len(b) = n + 16
  BY DEF Long
<1>4. b[10] \in Int
  BY At
<1>5. ASSUME NEW off \in {cut, Len(b)}
      PROVE  Complete(b, off) <=> off > 9 /\ b[10] > 0 /\ off = b[10] + 13
  BY <1>4, AckLength DEF Complete
<1>6. ASSUME b[10] = n + 3 PROVE Received(b, cut) = Parsed(b, n + 16)
  <2>1. ASSUME NEW off \in {cut, Len(b)} PROVE Complete(b, off) <=> off = n + 16
    <3>1. off \in Int
      BY <1>3
    <3>2. QED
      BY <1>5, <1>6, <3>1
  <2>2. S = {n + 16}
    BY <1>1, <1>3, <2>1
  <2>3. Min(S) = n + 16
    BY <2>2 DEF Min
  <2>4. QED
    BY <1>2, <2>2, <2>3
<1>7. ASSUME cut = n + 16, b[10] # n + 3 PROVE Received(b, cut) = Error
  <2>1. ASSUME NEW off \in {cut, Len(b)} PROVE ~Complete(b, off)
    BY <1>3, <1>4, <1>5, <1>7
  <2>2. S = {}
    BY <1>1, <2>1
  <2>3. QED
    BY <1>2, <2>2
<1>8. QED
  BY <1>6, <1>7

\* The acknowledgement and the preamble are compared byte by byte.
LEMMA HeadCompared ==
  ASSUME NEW b, NEW n \in Nat, Long(b, n + 16)
  PROVE  IsHead(b) <=> SubSeq(b, 1, 6) = NFC_ACK /\ SubSeq(b, 7, 9) = PREAMBLE
<1>1. PICK l \in Nat, k \in Nat, j \in Nat :
        l = n + 16 /\ k = 6 /\ j = 3 /\ 0 + k <= l /\ k + j <= l
  OBVIOUS
<1>2. Long(b, l)
  BY <1>1
<1>3. PICK p, q, a, h : /\ p = Piece(b, 0, k) /\ q = Piece(b, k, j)
                        /\ a = <<0, 0, 255, 0, 255, 0>> /\ h = <<0, 0, 255>>
  OBVIOUS
<1>4. Long(p, k) /\ \A i \in 1..k : p[i] = b[0 + i]
  <2>1. 0 + k <= l
    BY <1>1
  <2>2. Long(Piece(b, 0, k), k) /\ \A i \in 1..k : Piece(b, 0, k)[i] = b[0 + i]
    BY <1>2, <2>1, Cut
  <2>3. QED
    BY <1>3, <2>2
<1>5. Long(q, j) /\ \A i \in 1..j : q[i] = b[k + i]
  <2>1. k + j <= l
    BY <1>1
  <2>2. Long(Piece(b, k, j), j) /\ \A i \in 1..j : Piece(b, k, j)[i] = b[k + i]
    BY <1>2, <2>1, Cut
  <2>3. QED
    BY <1>3, <2>2
<1>6. /\ Long(a, k) /\ a[1] = 0 /\ a[2] = 0 /\ a[3] = 255
      /\ a[4] = 0 /\ a[5] = 255 /\ a[6] = 0
  BY <1>1, <1>3, Tuple6
<1>7. Long(h, j) /\ h[1] = 0 /\ h[2] = 0 /\ h[3] = 255
  BY <1>1, <1>3, Tuple3
<1>8. /\ p[1] = b[1] /\ p[2] = b[2] /\ p[3] = b[3] /\ p[4] = b[4] /\ p[5] = b[5] /\ p[6] = b[6]
      /\ q[1] = b[7] /\ q[2] = b[8] /\ q[3] = b[9]
  BY <1>1, <1>4, <1>5
<1>9. p = SubSeq(b, 1, 6) /\ q = SubSeq(b, 7, 9)
  <2>1. 0 + 1 = 1 /\ 0 + k = 6 /\ k + 1 = 7 /\ k + j = 9
    BY <1>1
  <2>2. QED
    BY <1>3, <2>1 DEF Piece
<1>10. p = a <=> \A i \in 1..k : p[i] = a[i]
  BY <1>4, <1>6, SameSeq
<1>11. q = h <=> \A i \in 1..j : q[i] = h[i]
  BY <1>5, <1>7, SameSeq
<1>12. (\A i \in 1..k : p[i] = a[i])
         <=> /\ p[1] = a[1] /\ p[2] = a[2] /\ p[3] = a[3]
             /\ p[4] = a[4] /\ p[5] = a[5] /\ p[6] = a[6]
  BY <1>1
<1>13. (\A i \in 1..j : q[i] = h[i]) <=> q[1] = h[1] /\ q[2] = h[2] /\ q[3] = h[3]
  BY <1>1
<1>14. IsHead(b) <=> p = a /\ q = h
  BY <1>6, <1>7, <1>8, <1>10, <1>11, <1>12, <1>13 DEF IsHead
<1>15. a = NFC_ACK /\ h = PREAMBLE
  BY <1>3, Zenon DEF NFC_ACK, PREAMBLE
<1>16. QED
  BY <1>9, <1>14, <1>15, Zenon

\* What is taken out of a whole answer.
LEMMA ParsedData ==
  ASSUME NEW b, NEW n \in Nat, Long(b, n + 16), b[10] = n + 3
  PROVE  /\ Parsed(b, n + 16) \in {Piece(b, 14, n), Error}
         /\ IsHead(b) /\ CheckSum(SubSeq(b, 7, n + 16)) => Parsed(b, n + 16) = Piece(b, 14, n)
         /\ Parsed(b, n + 16) # Error => IsHead(b) /\ CheckSum(SubSeq(b, 7, n + 16))
<1>1. 14 + b[10] - 3 = 14 + n /\ 14 + 1 = 15
  OBVIOUS
<1>2. SubSeq(b, 15, 14 + b[10] - 3) = Piece(b, 14, n)
  BY <1>1 DEF Piece
<1>3. Parsed(b, n + 16) = IF IsHead(b) /\ CheckSum(SubSeq(b, 7, n + 16))
                            THEN Piece(b, 14, n) ELSE Error
  BY <1>2, HeadCompared, Zenon DEF Parsed
<1>4. QED
  BY <1>3, Zenon

LEMMA PieceOf ==
  ASSUME NEW b, NEW n \in Nat, Long(b, n + 16)
  PROVE  Long(Piece(b, 14, n), n) /\ \A i \in 1..n : Piece(b, 14, n)[i] = b[14 + i]
<1>1. PICK l \in Nat : l = n + 16 /\ 14 + n <= l
  OBVIOUS
<1>2. Long(b, l)
  BY <1>1
<1>3. 14 + n <= l
  BY <1>1
<1>4. QED
  BY <1>2, <1>3, Cut

\* The sums of bytes that differ in one byte differ.
SumsAgree(t, u, v) ==
  255 - ((535 + (t - u + v)) % 256) = (256 - ((280 + t) % 256)) % 256

LEMMA OneByteCounts ==
  ASSUME NEW t \in Int, NEW u \in Int, 0 <= u, u < 256, NEW v \in Int, 0 <= v, v < 256,
         SumsAgree(t, u, v)
  PROVE  v = u
<1> USE DEF SumsAgree
<1>1. PICK a \in Int : a = (280 + t) % 256 /\ 0 <= a /\ a < 256
  OBVIOUS
<1>2. PICK c \in Int : c = (535 + (t - u + v)) % 256 /\ 0 <= c /\ c < 256
  OBVIOUS
<1>3. PICK x \in Int : x = (280 + t) \div 256
  OBVIOUS
<1>4. PICK y \in Int : y = (535 + (t - u + v)) \div 256
  OBVIOUS
<1>5. 280 + t = (256 * x) + a /\ 535 + (t - u + v) = (256 * y) + c
  BY <1>1, <1>2, <1>3, <1>4
<1>6. (256 - a = 255 - c) \/ (a = 0 /\ c = 255)
  <2>1. CASE a = 0
    <3>1. (256 - a) % 256 = 0
      BY <2>1
    <3>2. QED
      BY <1>1, <1>2, <2>1, <3>1
  <2>2. CASE a # 0
    <3>1. (256 - a) % 256 = 256 - a
      BY <1>1, <2>2
    <3>2. QED
      BY <1>1, <1>2, <3>1
  <2>3. QED
    BY <2>1, <2>2
<1>7. v - u = (256 * (y - x)) + c - a - 255
  BY <1>5
<1>8. (c - a - 255 = -256) \/ (c - a - 255 = 0)
  BY <1>1, <1>2, <1>6
<1>9. QED
  BY <1>7, <1>8

\* One byte of an answer is changed on the way.
Spoilt(b, s, n, at, byte) ==
  /\ Long(b, n + 16) /\ b[at] = byte /\ \A i \in 1..(n + 16) : i # at => b[i] = s[i]

\* Its data come out as they were, as long as they were, or not at all.
LEMMA SameData ==
  ASSUME NEW data, NEW n \in Nat, Long(data, n), NEW s, IsAnswer(s, data, n),
         \A i \in 1..n : data[i] \in Int /\ 0 <= data[i] /\ data[i] < 256,
         NEW at \in 1..(n + 16), NEW byte \in Int, 0 <= byte, byte < 256,
         NEW b, Spoilt(b, s, n, at, byte), b[10] = n + 3
  PROVE  Parsed(b, n + 16) \in {data, Error}
<1>1. PICK d : d = Piece(b, 14, n)
  OBVIOUS
<1>2. Long(b, n + 16) /\ b[at] = byte /\ \A i \in 1..(n + 16) : i # at => b[i] = s[i]
  BY DEF Spoilt
<1>3. Long(d, n) /\ \A i \in 1..n : d[i] = b[14 + i]
  BY <1>1, <1>2, PieceOf
<1>4. /\ s[12] = 213 /\ s[13] = 67 /\ s[14] = 0 /\ (\A i \in 1..n : s[14 + i] = data[i])
      /\ s[n + 15] = AnswerCheck(data)
  BY DEF IsAnswer, IsBody
<1>5. CASE ~(at \in 15..(n + 14))
  <2>1. ASSUME NEW i \in 1..n PROVE d[i] = data[i]
    <3>1. 14 + i \in 1..(n + 16) /\ 14 + i # at
      BY <1>5
    <3>2. QED
      BY <1>2, <1>3, <1>4, <3>1
  <2>2. d = data
    BY <1>3, <2>1, SameSeq
  <2>3. QED
    BY <1>1, <1>2, <2>2, ParsedData
<1>6. CASE at \in 15..(n + 14)
  <2>1. PICK k \in 1..n : at = 14 + k
    <3>1. at - 14 \in 1..n /\ at = 14 + (at - 14)
      BY <1>6
    <3>2. QED
      BY <3>1
  <2>2. d[k] = byte /\ \A i \in 1..n : i # k => d[i] = data[i]
    <3>1. ASSUME NEW i \in 1..n, i # k PROVE d[i] = data[i]
      <4>1. 14 + i \in 1..(n + 16) /\ 14 + i # at
        BY <2>1, <3>1
      <4>2. QED
        BY <1>2, <1>3, <1>4, <4>1
    <3>2. QED
      BY <1>2, <1>3, <2>1, <3>1
  <2>3. CASE IsHead(b) /\ CheckSum(SubSeq(b, 7, n + 16))
    <3>1. IsBody(b, d, n)
      <4>1. b[12] = s[12] /\ b[13] = s[13] /\ b[14] = s[14]
        BY <1>2, <1>6
      <4>2. QED
        BY <1>3, <1>4, <4>1 DEF IsBody
    <3>2. 255 - ((535 + Total(d)) % 256) = b[n + 15]
      BY <1>2, <1>3, <2>3, <3>1, AnswerSum
    <3>3. b[n + 15] = AnswerCheck(data)
      <4>1. n + 15 \in 1..(n + 16) /\ n + 15 # at
        BY <1>6
      <4>2. QED
        BY <1>2, <1>4, <4>1
    <3>4. PICK t \in Int : t = Total(data)
      BY TotalInt
    <3>5. Total(d) = t - data[k] + byte
      <4>1. Long(d, n) /\ d[k] = byte
        BY <1>3, <2>2
      <4>2. \A i \in 1..n : i # k => d[i] = data[i]
        BY <2>2
      <4>3. Total(d) = Total(data) - data[k] + byte
        BY <4>1, <4>2, TotalChanged
      <4>4. QED
        BY <3>4, <4>3
    <3>6. PICK u \in Int : u = data[k] /\ 0 <= u /\ u < 256
      OBVIOUS
    <3>7. SumsAgree(t, u, byte)
      <4>1. Total(d) = t - u + byte
        BY <3>5, <3>6
      <4>2. AnswerCheck(data) = (256 - ((280 + t) % 256)) % 256
        BY <3>4 DEF AnswerCheck
      <4>3. QED
        BY <3>2, <3>3, <4>1, <4>2 DEF SumsAgree
    <3>8. byte = u
      BY <3>6, <3>7, OneByteCounts
    <3>9. \A i \in 1..n : d[i] = data[i]
      BY <2>2, <3>6, <3>8
    <3>10. d = data
      BY <1>3, <3>9, SameSeq
    <3>11. QED
      BY <1>1, <1>2, <3>10, ParsedData
  <2>4. CASE ~(IsHead(b) /\ CheckSum(SubSeq(b, 7, n + 16)))
    BY <1>2, <2>4, ParsedData
  <2>5. QED
    BY <2>3, <2>4
<1>7. QED
  BY <1>5, <1>6

\* An answer as it was sent is received.
LEMMA DataReceived ==
  ASSUME NEW data, NEW n \in Nat, Long(data, n), NEW b, IsAnswer(b, data, n)
  PROVE  Parsed(b, n + 16) = data
<1>1. /\ Long(b, n + 16) /\ IsHead(b) /\ b[10] = n + 3 /\ IsBody(b, data, n)
      /\ b[n + 15] = AnswerCheck(data)
  BY DEF IsAnswer
<1>2. PICK t \in Int : t = Total(data)
  BY TotalInt
<1>3. CheckSum(SubSeq(b, 7, n + 16)) <=> 255 - ((535 + Total(data)) % 256) = b[n + 15]
  BY <1>1, AnswerSum
<1>4. 255 - ((535 + t) % 256) = (256 - ((280 + t) % 256)) % 256
  OBVIOUS
<1>5. CheckSum(SubSeq(b, 7, n + 16))
  BY <1>1, <1>2, <1>3, <1>4 DEF AnswerCheck
<1>6. Parsed(b, n + 16) = Piece(b, 14, n)
  BY <1>1, <1>5, ParsedData
<1>7. Long(Piece(b, 14, n), n) /\ \A i \in 1..n : Piece(b, 14, n)[i] = b[14 + i]
  BY <1>1, PieceOf
<1>8. \A i \in 1..n : Piece(b, 14, n)[i] = data[i]
  BY <1>1, <1>7 DEF IsBody
<1>9. Piece(b, 14, n) = data
  BY <1>7, <1>8, SameSeq
<1>10. QED
  BY <1>6, <1>9

-----------------------------------------------------------------------------
(* Messages to the server                                                  *)

LEMMA TwoBytes ==
  ASSUME NEW l \in Nat, l < Half
  PROVE  /\ Number((l \div 256) % 256, l % 256) = l
         /\ (l \div 256) % 256 \in Int /\ l % 256 \in Int
<1>1. l < 65536
  BY DEF Half
<1>2. l = (256 * (l \div 256)) + (l % 256) /\ l % 256 \in 0..255
  OBVIOUS
<1>3. PICK d \in Int : d = l \div 256
  OBVIOUS
<1>4. 0 <= d /\ d < 256
  BY <1>1, <1>2, <1>3
<1>5. d % 256 = d
  BY <1>4
<1>6. QED
  BY <1>2, <1>3, <1>5 DEF Number

\* A part of a message, its length before it and a zero behind it.
LEMMA PartCopied ==
  ASSUME NEW s, NEW n \in Nat, Long(s, n), n + 1 < Half, NEW c, c = CopyNetData(s, TRUE)
  PROVE  /\ Long(c, n + 3) /\ Number(c[1], c[2]) = n + 1
         /\ \A i \in 1..n : c[2 + i] = s[i]
<1>1. PICK l \in Nat : l = n + 1 /\ l < Half
  OBVIOUS
<1>2. PICK x \in Int, y \in Int : x = (l \div 256) % 256 /\ y = l % 256 /\ Number(x, y) = l
  BY <1>1, TwoBytes
<1>3. PICK h, z, d : h = <<x, y>> /\ z = <<0>> /\ d = Cat(h, s)
  OBVIOUS
<1>4. c = Cat(d, z)
  <2>1. Len(s) + 1 = l
    BY <1>1 DEF Long
  <2>2. c = <<((Len(s) + 1) \div 256) % 256, (Len(s) + 1) % 256>> \o s \o <<0>>
    BY DEF CopyNetData
  <2>3. c = h \o s \o z
    BY <1>2, <1>3, <2>1, <2>2
  <2>4. QED
    BY <1>3, <2>3, Zenon DEF Cat
<1>5. Long(h, 2) /\ h[1] = x /\ h[2] = y
  BY <1>3, Tuple2
<1>6. Long(z, 1)
  BY <1>3, Tuple1
<1>7. PICK k \in Nat : k = 2 /\ Long(h, k)
  BY <1>5
<1>8. Long(d, k + n) /\ (\A i \in 1..k : d[i] = h[i]) /\ \A i \in 1..n : d[k + i] = s[i]
  BY <1>3, <1>7, Glue
<1>9. PICK j \in Nat : j = k + n /\ Long(d, j)
  BY <1>8
<1>10. Long(c, j + 1) /\ \A i \in 1..j : c[i] = d[i]
  <2>1. PICK o \in Nat : o = 1 /\ Long(z, o)
    BY <1>6
  <2>2. Long(Cat(d, z), j + o) /\ \A i \in 1..j : Cat(d, z)[i] = d[i]
    BY <1>9, <2>1, Glue
  <2>3. QED
    BY <1>4, <2>1, <2>2
<1>11. Long(c, n + 3)
  <2>1. j + 1 = n + 3
    BY <1>7, <1>9
  <2>2. QED
    BY <1>10, <2>1
<1>12. c[1] = x /\ c[2] = y
  <2>1. 1 \in 1..j /\ 2 \in 1..j /\ 1 \in 1..k /\ 2 \in 1..k
    BY <1>7, <1>9
  <2>2. c[1] = d[1] /\ c[2] = d[2]
    BY <1>10, <2>1
  <2>3. d[1] = h[1] /\ d[2] = h[2]
    BY <1>8, <2>1
  <2>4. QED
    BY <1>5, <2>2, <2>3
<1>13. Number(c[1], c[2]) = n + 1
  BY <1>1, <1>2, <1>12, Zenon
<1>14. ASSUME NEW i \in 1..n PROVE c[2 + i] = s[i]
  <2>1. k + i \in 1..j /\ k + i = 2 + i
    BY <1>7, <1>9
  <2>2. c[k + i] = d[k + i] /\ d[k + i] = s[i]
    BY <1>8, <1>10, <2>1
  <2>3. QED
    BY <2>1, <2>2
<1>15. QED
  BY <1>11, <1>13, <1>14

LEMMA SameParts ==
  ASSUME NEW s, NEW m \in Nat, Long(s, m), NEW t, NEW n \in Nat, Long(t, n), m + n + 6 < Half
  PROVE  NetParts(NetMessage(17, s, t)) = [length |-> m + n + 6, first |-> s, second |-> t]
<1>1. PICK c, d, p : c = CopyNetData(s, TRUE) /\ d = CopyNetData(t, TRUE) /\ p = Cat(c, d)
  OBVIOUS
<1>2. m + 1 < Half /\ n + 1 < Half
  BY DEF Half
<1>3. Long(c, m + 3) /\ Number(c[1], c[2]) = m + 1 /\ \A i \in 1..m : c[2 + i] = s[i]
  BY <1>1, <1>2, PartCopied
<1>4. Long(d, n + 3) /\ Number(d[1], d[2]) = n + 1 /\ \A i \in 1..n : d[2 + i] = t[i]
  BY <1>1, <1>2, PartCopied
<1>5. PICK j \in Nat, k \in Nat : j = m + 3 /\ k = n + 3
  OBVIOUS
<1>6. Long(c, j) /\ Long(d, k)
  BY <1>3, <1>4, <1>5
<1>7. Long(p, j + k) /\ (\A i \in 1..j : p[i] = c[i]) /\ \A i \in 1..k : p[j + i] = d[i]
  <2>1. /\ Long(Cat(c, d), j + k) /\ (\A i \in 1..j : Cat(c, d)[i] = c[i])
        /\ \A i \in 1..k : Cat(c, d)[j + i] = d[i]
    BY <1>6, Glue
  <2>2. p = Cat(c, d)
    BY <1>1
  <2>3. QED
    BY <2>1, <2>2
<1>8. PICK l \in Nat : l = m + n + 6 /\ l = j + k /\ l < Half
  BY <1>5
<1>9. Long(p, l)
  BY <1>7, <1>8
<1>10. PICK x \in Int, y \in Int : x = (l \div 256) % 256 /\ y = l % 256 /\ Number(x, y) = l
  BY <1>8, TwoBytes
<1>11. PICK h, g : h = <<17, 2, x, y>> /\ g = Cat(h, p)
  OBVIOUS
<1>12. NetMessage(17, s, t) = g
  <2>1. Len(p) = l
    BY <1>9 DEF Long
  <2>2. NetMessage(17, s, t) = BuildNetHead(17, 2, Len(p)) \o p
    BY <1>1, Zenon DEF NetMessage, Cat
  <2>3. BuildNetHead(17, 2, Len(p)) = h
    BY <1>10, <1>11, <2>1 DEF BuildNetHead
  <2>4. QED
    BY <1>11, <2>2, <2>3, Zenon DEF Cat
<1>13. Long(h, 4) /\ h[3] = x /\ h[4] = y
  BY <1>11 DEF Long
<1>14. PICK f \in Nat : f = 4 /\ Long(h, f)
  BY <1>13
<1>15. Long(g, f + l) /\ (\A i \in 1..f : g[i] = h[i]) /\ \A i \in 1..l : g[f + i] = p[i]
  BY <1>9, <1>11, <1>14, Glue
<1>16. Number(g[3], g[4]) = l
  <2>1. g[3] = x /\ g[4] = y
    BY <1>13, <1>14, <1>15
  <2>2. QED
    BY <1>10, <2>1
<1>17. \A i \in 1..(m + 3) : g[4 + i] = c[i]
  BY <1>5, <1>7, <1>8, <1>14, <1>15
<1>18. ASSUME NEW i \in 1..(n + 3) PROVE g[m + 7 + i] = d[i]
  <2>1. i \in 1..k /\ j + i \in 1..l /\ f + (j + i) = m + 7 + i
    BY <1>5, <1>8, <1>14
  <2>2. g[f + (j + i)] = p[j + i] /\ p[j + i] = d[i]
    BY <1>7, <1>15, <2>1
  <2>3. QED
    BY <2>1, <2>2
<1>19. Number(g[5], g[6]) = m + 1
  <2>1. g[4 + 1] = c[1] /\ g[4 + 2] = c[2]
    BY <1>17
  <2>2. QED
    BY <1>3, <2>1
<1>20. Number(g[7 + (m + 1)], g[8 + (m + 1)]) = n + 1
  <2>1. g[m + 7 + 1] = d[1] /\ g[m + 7 + 2] = d[2]
    BY <1>18
  <2>2. m + 7 + 1 = 7 + (m + 1) /\ m + 7 + 2 = 8 + (m + 1)
    OBVIOUS
  <2>3. QED
    BY <1>4, <2>1, <2>2
<1>21. PICK e \in Nat : e = m + n + 10 /\ e = f + l /\ Long(g, e)
  BY <1>8, <1>14, <1>15
<1>22. Piece(g, 6, m) = s
  <2>1. 6 + m <= e
    BY <1>21
  <2>2. Long(Piece(g, 6, m), m) /\ \A i \in 1..m : Piece(g, 6, m)[i] = g[6 + i]
    BY <1>21, <2>1, Cut
  <2>3. ASSUME NEW i \in 1..m PROVE Piece(g, 6, m)[i] = s[i]
    <3>1. 2 + i \in 1..(m + 3) /\ 4 + (2 + i) = 6 + i
      OBVIOUS
    <3>2. g[4 + (2 + i)] = c[2 + i]
      BY <1>17, <3>1
    <3>3. QED
      BY <1>3, <2>2, <3>1, <3>2
  <2>4. QED
    BY <2>2, <2>3, SameSeq
<1>23. Piece(g, m + 9, n) = t
  <2>1. PICK a \in Nat : a = m + 9
    OBVIOUS
  <2>2. a + n <= e
    BY <1>21, <2>1
  <2>3. Long(Piece(g, a, n), n) /\ \A i \in 1..n : Piece(g, a, n)[i] = g[a + i]
    BY <1>21, <2>2, Cut
  <2>4. ASSUME NEW i \in 1..n PROVE Piece(g, a, n)[i] = t[i]
    <3>1. 2 + i \in 1..(n + 3) /\ m + 7 + (2 + i) = a + i
      BY <2>1
    <3>2. g[m + 7 + (2 + i)] = d[2 + i]
      BY <1>18, <3>1
    <3>3. QED
      BY <1>4, <2>3, <3>1, <3>2
  <2>5. Piece(g, a, n) = t
    BY <2>3, <2>4, SameSeq
  <2>6. QED
    BY <2>1, <2>5
<1>24. SubSeq(g, 7, 5 + (m + 1)) = s /\ SubSeq(g, 9 + (m + 1), 7 + (m + 1) + (n + 1)) = t
  <2>1. 6 + 1 = 7 /\ 6 + m = 5 + (m + 1)
    OBVIOUS
  <2>2. m + 9 + 1 = 9 + (m + 1) /\ m + 9 + n = 7 + (m + 1) + (n + 1)
    OBVIOUS
  <2>3. QED
    BY <1>22, <1>23, <2>1, <2>2 DEF Piece
<1>25. NetParts(g) = [length |-> l, first |-> s, second |-> t]
  <2>1. PICK u, v : u = Number(g[5], g[6]) /\ v = Number(g[7 + u], g[8 + u])
    OBVIOUS
  <2>2. u = m + 1 /\ v = n + 1
    BY <1>19, <1>20, <2>1, Zenon
  <2>3. NetParts(g) = [length |-> Number(g[3], g[4]), first |-> SubSeq(g, 7, 5 + u),
                       second |-> SubSeq(g, 9 + u, 7 + u + v)]
    BY <2>1, Zenon DEF NetParts
  <2>4. QED
    BY <1>16, <1>24, <2>2, <2>3, Zenon
<1>26. QED
  BY <1>8, <1>12, <1>25

-----------------------------------------------------------------------------
(* What is framed is found                                                 *)

LEMMA AnswersKept ==
  ASSUME NEW data \in Answers, NEW byte \in WrongBytes, NEW sent, sent = BoardAnswer(data),
         NEW at \in DOMAIN sent, NEW cut \in DOMAIN sent,
         NEW got, got = Received([sent EXCEPT ![at] = byte], cut)
  PROVE  /\ sent[at] = byte => got = data
         /\ at # 10 \/ cut = Len(sent) => got \in {data, Error}
<1>1. data \in Seq(Byte)
  BY AnswersAssumption
<1>2. PICK n \in Nat : n = Len(data)
  BY <1>1, ByteSeqs
<1>3. Long(data, n) /\ \A i \in 1..n : data[i] \in Int /\ 0 <= data[i] /\ data[i] < 256
  BY <1>1, <1>2, ByteSeqs
<1>4. byte \in Int /\ 0 <= byte /\ byte < 256
  BY WrongBytesAssumption, ByteRange
<1>5. IsAnswer(sent, data, n)
  BY <1>3, AnswerFrame
<1>6. Long(sent, n + 16) /\ sent[10] = n + 3
  BY <1>5 DEF IsAnswer
<1>7. sent \in [1..(n + 16) -> Int] /\ Len(sent) = n + 16 /\ DOMAIN sent = 1..(n + 16)
  BY <1>6 DEF Long
<1>8. at \in 1..(n + 16) /\ cut \in 1..(n + 16)
  BY <1>7
<1>9. PICK b : b = [sent EXCEPT ![at] = byte]
  OBVIOUS
<1>10. Spoilt(b, sent, n, at, byte)
  <2>1. b \in [1..(n + 16) -> Int]
    BY <1>4, <1>7, <1>9
  <2>2. b \in Seq(Int) /\ Len(b) = n + 16
    <3>1. PICK l \in Nat : l = n + 16
      OBVIOUS
    <3>2. b \in [1..l -> Int]
      BY <2>1, <3>1
    <3>3. b \in Seq(Int) /\ Len(b) = l
      BY <3>2
    <3>4. QED
      BY <3>1, <3>3
  <2>3. Long(b, n + 16)
    BY <2>2 DEF Long
  <2>4. b[at] = byte /\ \A i \in 1..(n + 16) : i # at => b[i] = sent[i]
    BY <1>7, <1>8, <1>9
  <2>5. QED
    BY <2>3, <2>4 DEF Spoilt
<1>11. Long(b, n + 16) /\ got = Received(b, cut)
  BY <1>9, <1>10 DEF Spoilt
<1>12. ASSUME sent[at] = byte PROVE got = data
  <2>1. b = sent
    <3>1. \A i \in 1..(n + 16) : b[i] = sent[i]
      BY <1>10, <1>12 DEF Spoilt
    <3>2. PICK l \in Nat : l = n + 16
      OBVIOUS
    <3>3. Long(b, l) /\ Long(sent, l) /\ \A i \in 1..l : b[i] = sent[i]
      BY <1>6, <1>11, <3>1, <3>2
    <3>4. QED
      BY <3>3, SameSeq
  <2>2. got = Parsed(b, n + 16)
    BY <1>6, <1>8, <1>11, <2>1, ReceivedWhole
  <2>3. QED
    BY <1>3, <1>5, <2>1, <2>2, DataReceived
<1>13. ASSUME b[10] = n + 3 PROVE got \in {data, Error}
  <2>1. got = Parsed(b, n + 16)
    BY <1>8, <1>11, <1>13, ReceivedWhole
  <2>2. QED
    BY <1>3, <1>4, <1>5, <1>8, <1>10, <1>13, <2>1, SameData
<1>14. ASSUME b[10] # n + 3, cut = Len(sent) PROVE got = Error
  BY <1>7, <1>8, <1>11, <1>14, ReceivedWhole
<1>15. ASSUME at # 10 PROVE b[10] = n + 3
  BY <1>6, <1>10, <1>15 DEF Spoilt
<1>16. QED
  BY <1>12, <1>13, <1>14, <1>15

LEMMA Numbers == ASSUME NEW n \in Nat, NEW s \in [1..n -> Int] PROVE Long(s, n)
BY DEF Long

\* The board takes every command, answers are received as they were sent or
\* known to be spoilt (but for a wrong length, if the answer comes in parts), the
\* server finds both parts of a message: for commands, answers and parts of any
\* bytes and of any length that fits, for every byte that is wrong and wherever
\* the answer is cut (buildCommand, CheckSum and CmdRequest of nfcprotocol.cpp,
\* CopyNetData and BuildNetHead of netprotocol.cpp).
THEOREM FramesAlwaysHold == Spec => []FramesHold
<1> USE DEF FramesHold, BoardTakesCommands, WrongByteNoticed, PartsFound
<1>1. Init => FramesHold
  BY DEF Init
<1>2. FramesHold /\ [Next]_vars => FramesHold'
  <2> SUFFICES ASSUME FramesHold, [Next]_vars PROVE FramesHold'
    OBVIOUS
  <2>1. CASE UNCHANGED vars
    BY <2>1 DEF vars
  <2>2. ASSUME NEW s \in Serials, SetPhoneSerial(s) PROVE FramesHold'
    BY <2>2 DEF SetPhoneSerial
  <2>3. CASE SendSerial
    BY <2>3 DEF SendSerial
  <2>4. CASE DecryptCard
    BY <2>4 DEF DecryptCard, Convert
  <2>5. CASE ShowCard
    BY <2>5 DEF ShowCard, Convert
  <2>6. CASE SendCommand
    <3>1. PICK cmd \in Commands :
            last' = [of |-> "command", cmd |-> cmd, frame |-> buildCommand(cmd)]
      BY <2>6 DEF SendCommand, Convert
    <3>2. BoardTakes(buildCommand(cmd))
      BY CommandTaken
    <3>3. last'.of = "command" /\ BoardTakes(last'.frame)
      BY <3>1, <3>2, Zenon
    <3>4. QED
      BY <3>3
  <2>7. CASE ReceiveAnswer
    <3>1. PICK data \in Answers, byte \in WrongBytes :
            \E at \in DOMAIN BoardAnswer(data), cut \in DOMAIN BoardAnswer(data) :
              last' = [of |-> "answer", data |-> data, at |-> at,
                       whole |-> cut = Len(BoardAnswer(data)),
                       wrong |-> BoardAnswer(data)[at] # byte,
                       got |-> Received([BoardAnswer(data) EXCEPT ![at] = byte], cut)]
      BY <2>7 DEF ReceiveAnswer, Convert
    <3>2. PICK sent : sent = BoardAnswer(data)
      OBVIOUS
    <3>3. PICK at \in DOMAIN sent, cut \in DOMAIN sent :
            last' = [of |-> "answer", data |-> data, at |-> at, whole |-> cut = Len(sent),
                     wrong |-> sent[at] # byte,
                     got |-> Received([sent EXCEPT ![at] = byte], cut)]
      BY <3>1, <3>2
    <3>4. PICK got : got = Received([sent EXCEPT ![at] = byte], cut)
      OBVIOUS
    <3>5. /\ sent[at] = byte => got = data
          /\ at # 10 \/ cut = Len(sent) => got \in {data, Error}
      BY <3>2, <3>4, AnswersKept
    <3>6. /\ last'.of = "answer" /\ last'.data = data /\ last'.at = at /\ last'.got = got
          /\ last'.whole = (cut = Len(sent)) /\ last'.wrong = (sent[at] # byte)
      BY <3>3, <3>4, Zenon
    <3>7. QED
      BY <3>5, <3>6
  <2>8. CASE SendMessage
    <3>1. PICK m \in Parts, n \in Parts :
            last' = [of |-> "message", m |-> m, n |-> n,
                     parts |-> NetParts(NetMessage(17, [i \in 1..m |-> 1], [i \in 1..n |-> 2])) =
                                 [length |-> m + n + 6, first |-> [i \in 1..m |-> 1],
                                  second |-> [i \in 1..n |-> 2]]]
      BY <2>8 DEF SendMessage, Convert
    <3>2. m \in Nat /\ n \in Nat /\ m + n + 6 < Half
      BY PartsAssumption
    <3>3. PICK s, t : s = [i \in 1..m |-> 1] /\ t = [i \in 1..n |-> 2]
      OBVIOUS
    <3>4. Long(s, m) /\ Long(t, n)
      <4>1. s \in [1..m -> Int] /\ t \in [1..n -> Int]
        BY <3>2, <3>3
      <4>2. QED
        BY <3>2, <4>1, Numbers
    <3>5. NetParts(NetMessage(17, s, t)) = [length |-> m + n + 6, first |-> s, second |-> t]
      BY <3>2, <3>4, SameParts
    <3>6. last'.of = "message" /\ last'.parts
      BY <3>1, <3>3, <3>5, Zenon
    <3>7. QED
      BY <3>6
  <2>9. CASE SetLine
    BY <2>9 DEF SetLine, Convert
  <2>10. CASE OpenBoard
    BY <2>10 DEF OpenBoard, Convert
  <2>11. QED
    BY <2>1, <2>2, <2>3, <2>4, <2>5, <2>6, <2>7, <2>8, <2>9, <2>10 DEF Next
<1>3. QED
  BY <1>1, <1>2, PTL DEF Spec

-----------------------------------------------------------------------------
(* SM4                                                                     *)

LEMMA XorBytes ==
  ASSUME NEW a \in Byte, NEW b \in Byte
  PROVE  Xor(a, b) \in Byte /\ Xor(a, b) \in Int
<1>1. a \in Int /\ b \in Int /\ 0 <= a /\ a < 256 /\ 0 <= b /\ b < 256
  BY ByteRange
<1>2. Digit(a, 256) = 0 /\ Digit(b, 256) = 0 /\ Digit(a, 4096) = 0 /\ Digit(b, 4096) = 0
  BY <1>1 DEF Digit
<1>3. PICK x \in HalfWord : x = Xor(a, b)
  BY <1>1, XorDigits
<1>4. Digit(x, 256) = 0 /\ Digit(x, 4096) = 0
  BY <1>1, <1>2, <1>3, XorDigits, Xor4Zero
<1>5. PICK p \in Nibble, q \in Nibble : p = Digit(x, 1) /\ q = Digit(x, 16)
  <2>1. x \in Int
    BY DEF HalfWord
  <2>2. QED
    BY <2>1, DigitType
<1>6. x = p + 16 * q
  BY <1>4, <1>5, Decomposed DEF Nibble
<1>7. QED
  BY <1>3, <1>6 DEF Nibble, Byte

Word == Byte \X Byte \X Byte \X Byte

LEMMA ByteInts == Byte \subseteq Int
BY ByteRange

LEMMA XorWords ==
  ASSUME NEW a \in Word, NEW b \in Word
  PROVE  BytesXor(a, b) \in Word
BY XorBytes DEF Word, BytesXor

LEMMA XorWordsTwice ==
  ASSUME NEW a \in Word, NEW b \in Word
  PROVE  BytesXor(BytesXor(a, b), b) = a
<1>1. ASSUME NEW x \in Byte, NEW y \in Byte PROVE Xor(Xor(x, y), y) = x
  <2>1. x \in HalfWord /\ y \in Int
    BY ByteRange DEF HalfWord, Half
  <2>2. QED
    BY <2>1, XorTwice
<1>2. PICK p \in Byte, q \in Byte, r \in Byte, s \in Byte : a = <<p, q, r, s>>
  BY DEF Word
<1>3. PICK t \in Byte, u \in Byte, v \in Byte, w \in Byte : b = <<t, u, v, w>>
  BY DEF Word
<1>4. BytesXor(a, b) = <<Xor(p, t), Xor(q, u), Xor(r, v), Xor(s, w)>>
  BY <1>2, <1>3 DEF BytesXor
<1>5. BytesXor(BytesXor(a, b), b)
        = <<Xor(Xor(p, t), t), Xor(Xor(q, u), u), Xor(Xor(r, v), v), Xor(Xor(s, w), w)>>
  BY <1>3, <1>4 DEF BytesXor
<1>6. QED
  BY <1>1, <1>2, <1>5

\* The order of three words does not matter.
LEMMA XorTurned ==
  ASSUME NEW a \in Word, NEW b \in Word, NEW c \in Word, NEW d \in Word
  PROVE  BytesXor3(a, b, BytesXor(c, d)) = BytesXor3(c, b, BytesXor(a, d))
<1>1. ASSUME NEW x \in Byte, NEW y \in Byte, NEW z \in Byte, NEW t \in Byte
      PROVE  Xor(x, Xor(y, Xor(z, t))) = Xor(z, Xor(y, Xor(x, t)))
  <2>1. /\ x \in Int /\ y \in Int /\ z \in Int /\ t \in Int
        /\ Xor(z, t) \in Int /\ Xor(x, t) \in Int /\ Xor(x, y) \in Int /\ Xor(y, z) \in Int
        /\ Xor(z, y) \in Int
    BY ByteInts, XorBytes
  <2>2. Xor(x, Xor(y, Xor(z, t))) = Xor(Xor(Xor(x, y), z), t)
    BY <2>1, XorAssoc
  <2>3. Xor(z, Xor(y, Xor(x, t))) = Xor(Xor(Xor(z, y), x), t)
    BY <2>1, XorAssoc
  <2>4. Xor(Xor(x, y), z) = Xor(Xor(z, y), x)
    <3>1. Xor(Xor(x, y), z) = Xor(x, Xor(y, z))
      BY <2>1, XorAssoc
    <3>2. Xor(x, Xor(y, z)) = Xor(Xor(y, z), x)
      BY <2>1, XorComm
    <3>3. Xor(y, z) = Xor(z, y)
      BY <2>1, XorComm
    <3>4. QED
      BY <3>1, <3>2, <3>3
  <2>5. QED
    BY <2>2, <2>3, <2>4
<1>2. ASSUME NEW w \in Word, NEW x \in Word, NEW y \in Word, NEW z \in Word
      PROVE  BytesXor3(w, x, BytesXor(y, z))
               = <<Xor(w[1], Xor(x[1], Xor(y[1], z[1]))), Xor(w[2], Xor(x[2], Xor(y[2], z[2]))),
                   Xor(w[3], Xor(x[3], Xor(y[3], z[3]))), Xor(w[4], Xor(x[4], Xor(y[4], z[4])))>>
  BY DEF BytesXor3, BytesXor
<1>3. /\ a[1] \in Byte /\ a[2] \in Byte /\ a[3] \in Byte /\ a[4] \in Byte
      /\ b[1] \in Byte /\ b[2] \in Byte /\ b[3] \in Byte /\ b[4] \in Byte
      /\ c[1] \in Byte /\ c[2] \in Byte /\ c[3] \in Byte /\ c[4] \in Byte
      /\ d[1] \in Byte /\ d[2] \in Byte /\ d[3] \in Byte /\ d[4] \in Byte
  BY DEF Word
<1>5. /\ Xor(a[1], Xor(b[1], Xor(c[1], d[1]))) = Xor(c[1], Xor(b[1], Xor(a[1], d[1])))
      /\ Xor(a[2], Xor(b[2], Xor(c[2], d[2]))) = Xor(c[2], Xor(b[2], Xor(a[2], d[2])))
      /\ Xor(a[3], Xor(b[3], Xor(c[3], d[3]))) = Xor(c[3], Xor(b[3], Xor(a[3], d[3])))
      /\ Xor(a[4], Xor(b[4], Xor(c[4], d[4]))) = Xor(c[4], Xor(b[4], Xor(a[4], d[4])))
  <2>1. Xor(a[1], Xor(b[1], Xor(c[1], d[1]))) = Xor(c[1], Xor(b[1], Xor(a[1], d[1])))
    <3>1. PICK x \in Byte, y \in Byte, z \in Byte, t \in Byte :
            x = a[1] /\ y = b[1] /\ z = c[1] /\ t = d[1]
      BY <1>3
    <3>2. Xor(x, Xor(y, Xor(z, t))) = Xor(z, Xor(y, Xor(x, t)))
      BY <1>1
    <3>3. QED
      BY <3>1, <3>2
  <2>2. Xor(a[2], Xor(b[2], Xor(c[2], d[2]))) = Xor(c[2], Xor(b[2], Xor(a[2], d[2])))
    <3>1. PICK x \in Byte, y \in Byte, z \in Byte, t \in Byte :
            x = a[2] /\ y = b[2] /\ z = c[2] /\ t = d[2]
      BY <1>3
    <3>2. Xor(x, Xor(y, Xor(z, t))) = Xor(z, Xor(y, Xor(x, t)))
      BY <1>1
    <3>3. QED
      BY <3>1, <3>2
  <2>3. Xor(a[3], Xor(b[3], Xor(c[3], d[3]))) = Xor(c[3], Xor(b[3], Xor(a[3], d[3])))
    <3>1. PICK x \in Byte, y \in Byte, z \in Byte, t \in Byte :
            x = a[3] /\ y = b[3] /\ z = c[3] /\ t = d[3]
      BY <1>3
    <3>2. Xor(x, Xor(y, Xor(z, t))) = Xor(z, Xor(y, Xor(x, t)))
      BY <1>1
    <3>3. QED
      BY <3>1, <3>2
  <2>4. Xor(a[4], Xor(b[4], Xor(c[4], d[4]))) = Xor(c[4], Xor(b[4], Xor(a[4], d[4])))
    <3>1. PICK x \in Byte, y \in Byte, z \in Byte, t \in Byte :
            x = a[4] /\ y = b[4] /\ z = c[4] /\ t = d[4]
      BY <1>3
    <3>2. Xor(x, Xor(y, Xor(z, t))) = Xor(z, Xor(y, Xor(x, t)))
      BY <1>1
    <3>3. QED
      BY <3>1, <3>2
  <2>5. QED
    BY <2>1, <2>2, <2>3, <2>4
<1>6. /\ BytesXor3(a, b, BytesXor(c, d))
           = <<Xor(a[1], Xor(b[1], Xor(c[1], d[1]))), Xor(a[2], Xor(b[2], Xor(c[2], d[2]))),
               Xor(a[3], Xor(b[3], Xor(c[3], d[3]))), Xor(a[4], Xor(b[4], Xor(c[4], d[4])))>>
      /\ BytesXor3(c, b, BytesXor(a, d))
           = <<Xor(c[1], Xor(b[1], Xor(a[1], d[1]))), Xor(c[2], Xor(b[2], Xor(a[2], d[2]))),
               Xor(c[3], Xor(b[3], Xor(a[3], d[3]))), Xor(c[4], Xor(b[4], Xor(a[4], d[4])))>>
  BY <1>2
<1>7. QED
  BY <1>5, <1>6, Zenon

LEMMA SboxWords == ASSUME NEW w \in Word PROVE sm4Sbox(w) \in Word
<1>1. ASSUME NEW b \in Byte PROVE SboxTable[b + 1] \in Byte
  BY DEF SboxTable, Byte
<1>2. w[1] \in Byte /\ w[2] \in Byte /\ w[3] \in Byte /\ w[4] \in Byte
  BY DEF Word
<1>3. /\ SboxTable[w[1] + 1] \in Byte /\ SboxTable[w[2] + 1] \in Byte
      /\ SboxTable[w[3] + 1] \in Byte /\ SboxTable[w[4] + 1] \in Byte
  BY <1>1, <1>2
<1>4. QED
  BY <1>3 DEF sm4Sbox, Word

\* Eight bits of two bytes, a power of two apart.
LEMMA TurnedByte ==
  ASSUME NEW x \in Byte, NEW y \in Byte, NEW k \in {1, 4, 32, 128}
  PROVE  ((x * k) % 256) + ((y * k) \div 256) \in Byte
<1>1. x \in Int /\ 0 <= x /\ x < 256 /\ y \in Int /\ 0 <= y /\ y < 256
  BY ByteRange
<1>2. PICK s \in Int : s = ((x * k) % 256) + ((y * k) \div 256)
  <2>1. CASE k = 1
    BY <1>1, <2>1
  <2>2. CASE k = 4
    BY <1>1, <2>2
  <2>3. CASE k = 32
    BY <1>1, <2>3
  <2>4. CASE k = 128
    BY <1>1, <2>4
  <2>5. QED
    BY <2>1, <2>2, <2>3, <2>4
<1>3. 0 <= s /\ s < 256
  <2>1. CASE k = 1
    BY <1>1, <1>2, <2>1
  <2>2. CASE k = 4
    BY <1>1, <1>2, <2>2
  <2>3. CASE k = 32
    BY <1>1, <1>2, <2>3
  <2>4. CASE k = 128
    BY <1>1, <1>2, <2>4
  <2>5. QED
    BY <2>1, <2>2, <2>3, <2>4
<1>4. QED
  BY <1>2, <1>3 DEF Byte

LEMMA TurnedWords ==
  ASSUME NEW w \in Word, NEW n \in {2, 10, 13, 18, 23, 24}
  PROVE  ROTL(w, n) \in Word
<1> DEFINE at(i) == w[((i - 1 + (n \div 8)) % 4) + 1]
<1>1. PICK k \in {1, 4, 32, 128} : k = Power(n % 8)
  BY DEF Power
<1>2. \A i \in 1..5 : at(i) \in Byte
  <2>1. ASSUME NEW i \in 1..5 PROVE ((i - 1 + (n \div 8)) % 4) + 1 \in {1, 2, 3, 4}
    OBVIOUS
  <2>2. \A j \in {1, 2, 3, 4} : w[j] \in Byte
    BY DEF Word
  <2>3. QED
    BY <2>1, <2>2
<1> DEFINE turned(i) == ((at(i) * Power(n % 8)) % 256) + ((at(i + 1) * Power(n % 8)) \div 256)
<1>4. ROTL(w, n) = <<turned(1), turned(2), turned(3), turned(4)>>
  BY DEF ROTL
<1> HIDE DEF at
<1>5. ASSUME NEW i \in 1..4 PROVE turned(i) \in Byte
  <2>1. PICK x \in Byte, y \in Byte : x = at(i) /\ y = at(i + 1)
    <3>1. i \in 1..5 /\ i + 1 \in 1..5
      OBVIOUS
    <3>2. QED
      BY <1>2, <3>1
  <2>2. ((x * k) % 256) + ((y * k) \div 256) \in Byte
    BY TurnedByte
  <2>3. QED
    BY <1>1, <2>1, <2>2
<1> HIDE DEF turned
<1>6. PICK p \in Byte, q \in Byte, r \in Byte, s \in Byte :
        p = turned(1) /\ q = turned(2) /\ r = turned(3) /\ s = turned(4)
  BY <1>5
<1>7. ROTL(w, n) = <<p, q, r, s>>
  BY <1>4, <1>6
<1>8. QED
  BY <1>7 DEF Word

LEMMA MixedWords == ASSUME NEW w \in Word PROVE sm4Lt(w) \in Word /\ sm4CalciRK(w) \in Word
<1>1. PICK b \in Word : b = sm4Sbox(w)
  BY SboxWords
<1>2. /\ ROTL(b, 2) \in Word /\ ROTL(b, 10) \in Word /\ ROTL(b, 13) \in Word
      /\ ROTL(b, 18) \in Word /\ ROTL(b, 23) \in Word /\ ROTL(b, 24) \in Word
  BY TurnedWords
<1>3. sm4Lt(w) = BytesXor3(b, BytesXor(ROTL(b, 2), ROTL(b, 10)),
                           BytesXor(ROTL(b, 18), ROTL(b, 24)))
  BY <1>1, Zenon DEF sm4Lt
<1>4. sm4CalciRK(w) = BytesXor3(b, ROTL(b, 13), ROTL(b, 23))
  BY <1>1, Zenon DEF sm4CalciRK
<1>5. \A x, y, z \in Word : BytesXor3(x, y, z) \in Word
  BY XorWords DEF BytesXor3
<1>6. /\ BytesXor(ROTL(b, 2), ROTL(b, 10)) \in Word
      /\ BytesXor(ROTL(b, 18), ROTL(b, 24)) \in Word
  BY <1>2, XorWords
<1>7. QED
  BY <1>2, <1>3, <1>4, <1>5, <1>6

-----------------------------------------------------------------------------
(* A round of SM4, and the round that takes it back                        *)

Words4   == [1..4 -> Word]
Turned(x) == <<x[4], x[3], x[2], x[1]>>

LEMMA RoundUndone ==
  ASSUME NEW x \in Words4, NEW rk \in Word
  PROVE  /\ Round(x, rk) \in Words4 /\ Turned(x) \in Words4
         /\ Round(Turned(Round(x, rk)), rk) = Turned(x)
<1>1. PICK a \in Word, b \in Word, c \in Word, d \in Word :
        x[1] = a /\ x[2] = b /\ x[3] = c /\ x[4] = d
  BY DEF Words4
<1>2. PICK e : e = sm4F(a, b, c, d, rk)
  OBVIOUS
<1>3. PICK m \in Word : m = BytesXor3(b, c, BytesXor(d, rk)) /\ m = BytesXor3(d, c, BytesXor(b, rk))
  <2>1. BytesXor3(b, c, BytesXor(d, rk)) \in Word
    <3>1. BytesXor(d, rk) \in Word
      BY XorWords
    <3>2. BytesXor(c, BytesXor(d, rk)) \in Word
      BY <3>1, XorWords
    <3>3. QED
      BY <3>2, XorWords DEF BytesXor3
  <2>2. QED
    BY <2>1, XorTurned
<1>4. PICK l \in Word : l = sm4Lt(m)
  BY MixedWords
<1>5. e = BytesXor(a, l) /\ e \in Word
  <2>1. e = BytesXor(a, l)
    BY <1>2, <1>3, <1>4, Zenon DEF sm4F
  <2>2. QED
    BY <2>1, XorWords
<1>6. sm4F(e, d, c, b, rk) = a
  <2>1. sm4F(e, d, c, b, rk) = BytesXor(e, l)
    BY <1>3, <1>4, Zenon DEF sm4F
  <2>2. BytesXor(BytesXor(a, l), l) = a
    BY XorWordsTwice
  <2>3. QED
    BY <1>5, <2>1, <2>2
<1>7. Round(x, rk) = <<b, c, d, e>>
  BY <1>1, <1>2, Zenon DEF Round
<1>8. Turned(Round(x, rk)) = <<e, d, c, b>>
  BY <1>7 DEF Turned
<1>9. Round(Turned(Round(x, rk)), rk) = <<d, c, b, a>>
  <2>1. PICK y : y = <<e, d, c, b>>
    OBVIOUS
  <2>2. y[1] = e /\ y[2] = d /\ y[3] = c /\ y[4] = b
    BY <2>1
  <2>3. Round(y, rk) = <<d, c, b, a>>
    BY <1>6, <2>2, Zenon DEF Round
  <2>4. QED
    BY <1>8, <2>1, <2>3
<1>10. Turned(x) = <<d, c, b, a>>
  BY <1>1, Zenon DEF Turned
<1>11. ASSUME NEW p \in Word, NEW q \in Word, NEW r \in Word, NEW s \in Word
       PROVE  <<p, q, r, s>> \in Words4
  BY DEF Words4
<1>12. QED
  BY <1>5, <1>7, <1>9, <1>10, <1>11

RoundKeysOf == [1..32 -> Word]

LEMMA RoundsSteps ==
  ASSUME NEW sk \in RoundKeysOf, NEW b, Words(b) \in Words4
  PROVE  \E x : /\ x[0] = Words(b) /\ x[32] = Rounds(sk, b)
                /\ \A i \in 0..32 : x[i] \in Words4
                /\ \A i \in 1..32 : x[i] = Round(x[i - 1], sk[i])
<1> DEFINE Is(x) == x = [i \in 0..32 |-> IF i = 0 THEN Words(b) ELSE Round(x[i - 1], sk[i])]
<1>1. PICK v \in Words4 : v = Words(b)
  OBVIOUS
<1>2. PICK next : next = [p \in Words4 \X Nat |->
                            IF p[2] \in 1..32 THEN Round(p[1], sk[p[2]]) ELSE v]
  OBVIOUS
<1>3. next \in [Words4 \X Nat -> Words4]
  <2>1. ASSUME NEW p \in Words4 \X Nat, p[2] \in 1..32 PROVE Round(p[1], sk[p[2]]) \in Words4
    <3>1. PICK y \in Words4, rk \in Word : y = p[1] /\ rk = sk[p[2]]
      BY <2>1 DEF RoundKeysOf
    <3>2. Round(y, rk) \in Words4
      BY RoundUndone
    <3>3. QED
      BY <3>1, <3>2
  <2>2. QED
    BY <1>2, <2>1
<1>4. PICK n \in Nat : n = 32
  OBVIOUS
<1>5. PICK g \in [0..n -> Words4] : Repeats(g, n, v, next)
  <2>1. PICK S : S = Words4 /\ v \in S /\ next \in [S \X Nat -> S]
    BY <1>3
  <2>2. \E g \in [0..n -> S] : Repeats(g, n, v, next)
    BY <2>1, Recursion
  <2>3. QED
    BY <2>1, <2>2
<1>6. ASSUME NEW k \in 0..32, k # 0 PROVE next[<<g[k - 1], k>>] = Round(g[k - 1], sk[k])
  <2>1. g[k - 1] \in Words4 /\ k \in 1..32 /\ k \in Nat
    BY <1>4, <1>5, <1>6
  <2>2. QED
    BY <1>2, <2>1
<1>7. g = [k \in 0..32 |-> IF k = 0 THEN v ELSE next[<<g[k - 1], k>>]]
  BY <1>4, <1>5 DEF Repeats
<1>8. Is(g)
  BY <1>1, <1>6, <1>7
<1>9. PICK x : x = CHOOSE h : Is(h)
  OBVIOUS
<1>10. Is(x) /\ Rounds(sk, b) = x[32]
  BY <1>8, <1>9 DEF Rounds
<1>11. x[0] = Words(b) /\ \A i \in 1..32 : x[i] = Round(x[i - 1], sk[i])
  BY <1>10
<1>12. \A i \in 0..32 : x[i] \in Words4
  <2> DEFINE T == {k \in Nat : x[k] \in Words4}
  <2>1. 0 \in T
    BY <1>11
  <2>2. ASSUME NEW k \in Nat, k < n, k \in T PROVE k + 1 \in T
    <3>1. PICK m \in 1..32 : m = k + 1 /\ m - 1 = k
      <4>1. k + 1 \in 1..32 /\ (k + 1) - 1 = k
        BY <1>4, <2>2
      <4>2. QED
        BY <4>1
    <3>2. x[m] = Round(x[m - 1], sk[m]) /\ sk[m] \in Word
      BY <1>11 DEF RoundKeysOf
    <3>3. Round(x[k], sk[m]) \in Words4
      BY <2>2, <3>2, RoundUndone
    <3>4. QED
      BY <3>1, <3>2, <3>3
  <2> HIDE DEF T
  <2>3. \A k \in 0..n : k \in T
    BY <2>1, <2>2, UpTo
  <2>4. QED
    BY <1>4, <2>3 DEF T
<1>13. QED
  BY <1>10, <1>11, <1>12

\* The rounds with the keys in reverse order take the words back.
LEMMA RoundsUndone ==
  ASSUME NEW sk \in RoundKeysOf, NEW rs \in RoundKeysOf, \A i \in 1..32 : rs[i] = sk[33 - i],
         NEW b, Words(b) \in Words4, NEW c, Words(c) = Turned(Rounds(sk, b))
  PROVE  Rounds(sk, b) \in Words4 /\ Rounds(rs, c) = Turned(Words(b))
<1>1. PICK x : /\ x[0] = Words(b) /\ x[32] = Rounds(sk, b)
               /\ \A i \in 0..32 : x[i] \in Words4
               /\ \A i \in 1..32 : x[i] = Round(x[i - 1], sk[i])
  BY RoundsSteps
<1>2. Words(c) \in Words4
  <2>1. PICK w \in Words4 : w = Rounds(sk, b)
    BY <1>1
  <2>2. \A v \in Words4 : Turned(v) \in Words4
    BY DEF Turned, Words4
  <2>3. QED
    BY <2>1, <2>2
<1>3. PICK y : /\ y[0] = Words(c) /\ y[32] = Rounds(rs, c)
               /\ \A i \in 1..32 : y[i] = Round(y[i - 1], rs[i])
  BY <1>2, RoundsSteps
<1>4. PICK n \in Nat : n = 32
  OBVIOUS
<1> DEFINE T == {k \in Nat : y[k] = Turned(x[32 - k])}
<1>5. 0 \in T
  BY <1>1, <1>3
<1>6. ASSUME NEW k \in Nat, k < n, k \in T PROVE k + 1 \in T
  <2>1. PICK m \in Nat : /\ m = 31 - k /\ 32 - k = m + 1 /\ m = 32 - (k + 1)
                         /\ m + 1 \in 1..32 /\ m \in 0..32
                         /\ k + 1 \in 1..32 /\ 33 - (k + 1) = m + 1
    BY <1>4, <1>6
  <2>2. y[k + 1] = Round(y[k], rs[k + 1]) /\ rs[k + 1] = sk[m + 1]
    BY <1>3, <2>1
  <2>3. y[k] = Turned(x[m + 1]) /\ x[m + 1] = Round(x[m], sk[m + 1])
    BY <1>1, <1>6, <2>1
  <2>4. x[m] \in Words4 /\ sk[m + 1] \in Word
    BY <1>1, <2>1 DEF RoundKeysOf
  <2>5. y[k + 1] = Turned(x[m])
    BY <2>2, <2>3, <2>4, RoundUndone
  <2>6. QED
    BY <2>1, <2>5
<1>7. n \in T
  <2> HIDE DEF T
  <2>1. \A k \in 0..n : k \in T
    BY <1>5, <1>6, UpTo
  <2>2. QED
    BY <2>1
<1>8. y[32] = Turned(x[0])
  BY <1>4, <1>7
<1>9. QED
  BY <1>1, <1>3, <1>8

-----------------------------------------------------------------------------
(* Blocks of SM4                                                           *)

IsBlock(s) == Long(s, 16) /\ \A i \in 1..16 : s[i] \in Byte

LEMMA WordLong ==
  ASSUME NEW w \in Word
  PROVE  /\ Long(w, 4) /\ \A i \in 1..4 : w[i] \in Byte
<1>1. PICK p \in Byte, q \in Byte, r \in Byte, s \in Byte : w = <<p, q, r, s>>
  BY DEF Word
<1>2. p \in Int /\ q \in Int /\ r \in Int /\ s \in Int
  BY ByteInts
<1>3. Long(w, 4)
  BY <1>1, <1>2 DEF Long
<1>4. QED
  BY <1>1, <1>3

LEMMA LongWord ==
  ASSUME NEW w, Long(w, 4), \A i \in 1..4 : w[i] \in Byte
  PROVE  w \in Word
<1>1. PICK p \in Byte, q \in Byte, r \in Byte, s \in Byte :
        p = w[1] /\ q = w[2] /\ r = w[3] /\ s = w[4]
  OBVIOUS
<1>2. PICK v : v = <<p, q, r, s>>
  OBVIOUS
<1>3. v \in Word /\ v[1] = p /\ v[2] = q /\ v[3] = r /\ v[4] = s
  BY <1>2 DEF Word
<1>4. Long(v, 4)
  BY <1>3, WordLong
<1>5. \A i \in 1..4 : w[i] = v[i]
  BY <1>1, <1>3
<1>6. w = v
  <2>1. PICK n \in Nat : n = 4
    OBVIOUS
  <2>2. Long(w, n) /\ Long(v, n) /\ \A i \in 1..n : w[i] = v[i]
    BY <1>4, <1>5, <2>1
  <2>3. QED
    BY <2>2, SameSeq
<1>7. QED
  BY <1>3, <1>6

\* The words of a block, byte by byte.
LEMMA WordsOf ==
  ASSUME NEW s, IsBlock(s)
  PROVE  /\ Words(s) \in Words4
         /\ \A j \in 1..4 : \A i \in 1..4 : Words(s)[j][i] = s[4 * (j - 1) + i]
<1>1. PICK n \in Nat, k \in Nat : n = 16 /\ k = 4
  OBVIOUS
<1>2. Long(s, n)
  BY <1>1 DEF IsBlock
<1>3. ASSUME NEW j \in 1..4
      PROVE  Words(s)[j] \in Word /\ \A i \in 1..4 : Words(s)[j][i] = s[4 * (j - 1) + i]
  <2>1. PICK a \in Nat : a = 4 * (j - 1) /\ a \in {0, 4, 8, 12}
    OBVIOUS
  <2>2. a + k <= n
    BY <1>1, <2>1
  <2>3. Long(Piece(s, a, k), k) /\ \A i \in 1..k : Piece(s, a, k)[i] = s[a + i]
    BY <1>2, <2>2, Cut
  <2>4. Words(s)[j] = Piece(s, a, k)
    <3>1. Words(s)[j] = SubSeq(s, 4 * j - 3, 4 * j)
      BY DEF Words
    <3>2. 4 * j - 3 = a + 1 /\ 4 * j = a + k
      BY <1>1, <2>1
    <3>3. QED
      BY <3>1, <3>2 DEF Piece
  <2>5. ASSUME NEW i \in 1..4 PROVE Words(s)[j][i] = s[a + i] /\ s[a + i] \in Byte
    <3>1. i \in 1..k /\ a + i \in 1..16
      BY <1>1, <2>1
    <3>2. QED
      BY <2>3, <2>4, <3>1 DEF IsBlock
  <2>6. Long(Words(s)[j], 4)
    BY <1>1, <2>3, <2>4
  <2>7. Words(s)[j] \in Word
    BY <2>5, <2>6, LongWord
  <2>8. QED
    BY <2>1, <2>5, <2>7
<1>4. Words(s) \in Words4
  <2>1. PICK w : w = Words(s)
    OBVIOUS
  <2>2. w = [j \in 1..4 |-> w[j]]
    BY <2>1 DEF Words
  <2>3. \A j \in 1..4 : w[j] \in Word
    BY <1>3, <2>1
  <2>4. QED
    BY <2>1, <2>2, <2>3 DEF Words4
<1>5. QED
  BY <1>3, <1>4

\* Blocks with the same words.
LEMMA SameBlock ==
  ASSUME NEW s, IsBlock(s), NEW t, IsBlock(t), Words(s) = Words(t)
  PROVE  s = t
<1>1. PICK n \in Nat : n = 16
  OBVIOUS
<1>2. ASSUME NEW l \in 1..n PROVE s[l] = t[l]
  <2>1. PICK j \in 1..4, i \in 1..4 : l = 4 * (j - 1) + i
    <3>1. PICK q \in Int, r \in Int : q = (l - 1) \div 4 /\ r = (l - 1) % 4
      OBVIOUS
    <3>2. l - 1 = (4 * q) + r /\ 0 <= r /\ r < 4 /\ l \in 1..16
      BY <1>1, <3>1
    <3>3. q + 1 \in 1..4 /\ r + 1 \in 1..4 /\ l = 4 * ((q + 1) - 1) + (r + 1)
      BY <3>2
    <3>4. QED
      BY <3>3
  <2>2. Words(s)[j][i] = s[l]
    BY <2>1, WordsOf
  <2>3. Words(t)[j][i] = t[l]
    BY <2>1, WordsOf
  <2>4. QED
    BY <2>2, <2>3
<1>3. Long(s, n) /\ Long(t, n)
  BY <1>1 DEF IsBlock
<1>4. QED
  BY <1>2, <1>3, SameSeq

\* A block of four words.
Joined(a, b, c, d) == a \o b \o c \o d

LEMMA WordsJoined ==
  ASSUME NEW a \in Word, NEW b \in Word, NEW c \in Word, NEW d \in Word
  PROVE  IsBlock(Joined(a, b, c, d)) /\ Words(Joined(a, b, c, d)) = <<a, b, c, d>>
<1>0. PICK s : s = Joined(a, b, c, d)
  OBVIOUS
<1>1. PICK p, q : p = Cat(a, b) /\ q = Cat(p, c)
  OBVIOUS
<1>2. s = Cat(q, d)
  BY <1>0, <1>1, Zenon DEF Cat, Joined
<1>3. PICK k \in Nat, l \in Nat, m \in Nat : k = 4 /\ l = 8 /\ m = 12
  OBVIOUS
<1>4. Long(a, k) /\ Long(b, k) /\ Long(c, k) /\ Long(d, k)
  BY <1>3, WordLong
<1>5. Long(p, l) /\ (\A i \in 1..k : p[i] = a[i]) /\ \A i \in 1..k : p[4 + i] = b[i]
  <2>1. /\ Long(Cat(a, b), k + k) /\ (\A i \in 1..k : Cat(a, b)[i] = a[i])
        /\ \A i \in 1..k : Cat(a, b)[k + i] = b[i]
    BY <1>4, Glue
  <2>2. k + k = l
    BY <1>3
  <2>3. QED
    BY <1>1, <1>3, <2>1, <2>2
<1>6. Long(q, m) /\ (\A i \in 1..l : q[i] = p[i]) /\ \A i \in 1..k : q[8 + i] = c[i]
  <2>1. /\ Long(Cat(p, c), l + k) /\ (\A i \in 1..l : Cat(p, c)[i] = p[i])
        /\ \A i \in 1..k : Cat(p, c)[l + i] = c[i]
    BY <1>4, <1>5, Glue
  <2>2. l + k = m
    BY <1>3
  <2>3. QED
    BY <1>1, <1>3, <2>1, <2>2
<1>7. Long(s, 16) /\ (\A i \in 1..m : s[i] = q[i]) /\ \A i \in 1..k : s[12 + i] = d[i]
  <2>1. /\ Long(Cat(q, d), m + k) /\ (\A i \in 1..m : Cat(q, d)[i] = q[i])
        /\ \A i \in 1..k : Cat(q, d)[m + i] = d[i]
    BY <1>4, <1>6, Glue
  <2>2. m + k = 16
    BY <1>3
  <2>3. QED
    BY <1>2, <1>3, <2>1, <2>2
<1>8. ASSUME NEW i \in 1..4
      PROVE  s[i] = a[i] /\ s[4 + i] = b[i] /\ s[8 + i] = c[i] /\ s[12 + i] = d[i]
  <2>1. s[i] = q[i] /\ s[4 + i] = q[4 + i] /\ s[8 + i] = q[8 + i]
    <3>1. i \in 1..m /\ 4 + i \in 1..m /\ 8 + i \in 1..m
      BY <1>3
    <3>2. QED
      BY <1>7, <3>1
  <2>2. q[i] = p[i] /\ q[4 + i] = p[4 + i]
    BY <1>3, <1>6
  <2>3. QED
    BY <1>3, <1>5, <1>6, <1>7, <2>1, <2>2
<1>9. IsBlock(s)
  <2>1. ASSUME NEW i \in 1..4
        PROVE  s[i] \in Byte /\ s[4 + i] \in Byte /\ s[8 + i] \in Byte /\ s[12 + i] \in Byte
    BY <1>8, WordLong
  <2>2. ASSUME NEW l1 \in 1..16 PROVE s[l1] \in Byte
    <3>1. PICK i \in 1..4 : l1 = i \/ l1 = 4 + i \/ l1 = 8 + i \/ l1 = 12 + i
      <4>1. CASE l1 \in 1..4
        BY <4>1
      <4>2. CASE l1 \in 5..8
        <5>1. l1 - 4 \in 1..4 /\ l1 = 4 + (l1 - 4)
          BY <4>2
        <5>2. QED
          BY <5>1
      <4>3. CASE l1 \in 9..12
        <5>1. l1 - 8 \in 1..4 /\ l1 = 8 + (l1 - 8)
          BY <4>3
        <5>2. QED
          BY <5>1
      <4>4. CASE l1 \in 13..16
        <5>1. l1 - 12 \in 1..4 /\ l1 = 12 + (l1 - 12)
          BY <4>4
        <5>2. QED
          BY <5>1
      <4>5. QED
        BY <4>1, <4>2, <4>3, <4>4
    <3>2. QED
      BY <2>1, <3>1
  <2>3. QED
    BY <1>7, <2>2 DEF IsBlock
<1>10. PICK w \in Words4 : w = Words(s)
  BY <1>9, WordsOf
<1>11. \A j \in 1..4 : \A i \in 1..4 : w[j][i] = s[4 * (j - 1) + i]
  BY <1>9, <1>10, WordsOf
<1>12. \A i \in 1..4 : w[1][i] = a[i] /\ w[2][i] = b[i] /\ w[3][i] = c[i] /\ w[4][i] = d[i]
  <2>1. ASSUME NEW i \in 1..4
        PROVE  w[1][i] = s[i] /\ w[2][i] = s[4 + i] /\ w[3][i] = s[8 + i] /\ w[4][i] = s[12 + i]
    <3>1. PICK e, f, g, h : e = 1 /\ f = 2 /\ g = 3 /\ h = 4
      OBVIOUS
    <3>2. e \in 1..4 /\ f \in 1..4 /\ g \in 1..4 /\ h \in 1..4
      BY <3>1
    <3>3. /\ w[e][i] = s[4 * (e - 1) + i] /\ w[f][i] = s[4 * (f - 1) + i]
          /\ w[g][i] = s[4 * (g - 1) + i] /\ w[h][i] = s[4 * (h - 1) + i]
      BY <1>11, <3>2
    <3>4. /\ 4 * (e - 1) + i = i /\ 4 * (f - 1) + i = 4 + i
          /\ 4 * (g - 1) + i = 8 + i /\ 4 * (h - 1) + i = 12 + i
      BY <3>1
    <3>5. QED
      BY <3>1, <3>3, <3>4
  <2>2. QED
    BY <1>8, <2>1
<1>13. w[1] = a /\ w[2] = b /\ w[3] = c /\ w[4] = d
  <2>1. ASSUME NEW u \in Word, NEW v \in Word, \A i \in 1..4 : u[i] = v[i] PROVE u = v
    <3>1. Long(u, k) /\ Long(v, k)
      BY <1>3, WordLong
    <3>2. \A i \in 1..k : u[i] = v[i]
      BY <1>3, <2>1
    <3>3. QED
      BY <3>1, <3>2, SameSeq
  <2>2. w[1] \in Word /\ w[2] \in Word /\ w[3] \in Word /\ w[4] \in Word
    BY DEF Words4
  <2>3. QED
    BY <1>12, <2>1, <2>2
<1>14. w = <<a, b, c, d>>
  BY <1>13 DEF Words4
<1>15. QED
  BY <1>0, <1>9, <1>10, <1>14

\* A block through the rounds of one key, and back through those of the other.
LEMMA OneRound ==
  ASSUME NEW sk \in RoundKeysOf, NEW rs \in RoundKeysOf, \A i \in 1..32 : rs[i] = sk[33 - i],
         NEW b, IsBlock(b)
  PROVE  /\ IsBlock(sm4_one_round(sk, b))
         /\ sm4_one_round(rs, sm4_one_round(sk, b)) = b
<1>1. PICK w \in Words4 : w = Words(b)
  BY WordsOf
<1>2. PICK x \in Words4 : x = Rounds(sk, b)
  <2>1. PICK v \in Words4 : v = Words(b)
    BY <1>1
  <2>2. Words(b) \in Words4
    BY <2>1
  <2>3. PICK x : x[32] = Rounds(sk, b) /\ \A i \in 0..32 : x[i] \in Words4
    BY <2>2, RoundsSteps
  <2>4. QED
    BY <2>3
<1>3. x[1] \in Word /\ x[2] \in Word /\ x[3] \in Word /\ x[4] \in Word
  BY DEF Words4
<1>4. PICK y : y = x[4] \o x[3] \o x[2] \o x[1]
  OBVIOUS
<1>5. sm4_one_round(sk, b) = y
  BY <1>2, <1>4, Zenon DEF sm4_one_round
<1>6. IsBlock(y) /\ Words(y) = <<x[4], x[3], x[2], x[1]>>
  <2>1. PICK p \in Word, q \in Word, r \in Word, u \in Word :
          p = x[4] /\ q = x[3] /\ r = x[2] /\ u = x[1]
    BY <1>3
  <2>2. y = Joined(p, q, r, u)
    BY <1>4, <2>1, Zenon DEF Joined
  <2>3. IsBlock(y) /\ Words(y) = <<p, q, r, u>>
    BY <2>2, WordsJoined
  <2>4. QED
    BY <2>1, <2>3, Zenon
<1>7. Words(y) = Turned(Rounds(sk, b))
  BY <1>2, <1>6, Zenon DEF Turned
<1>8. Rounds(rs, y) = Turned(Words(b))
  <2>1. Words(b) \in Words4
    BY <1>1
  <2>2. QED
    BY <1>7, <2>1, RoundsUndone
<1>9. PICK z : z = <<w[4], w[3], w[2], w[1]>>
  OBVIOUS
<1>10. Rounds(rs, y) = z
  BY <1>1, <1>8, <1>9, Zenon DEF Turned
<1>11. z[4] = w[1] /\ z[3] = w[2] /\ z[2] = w[3] /\ z[1] = w[4]
  BY <1>9
<1>12. PICK t : t = w[1] \o w[2] \o w[3] \o w[4]
  OBVIOUS
<1>13. sm4_one_round(rs, y) = t
  BY <1>10, <1>11, <1>12, Zenon DEF sm4_one_round
<1>14. IsBlock(t) /\ Words(t) = <<w[1], w[2], w[3], w[4]>>
  <2>1. PICK p \in Word, q \in Word, r \in Word, u \in Word :
          p = w[1] /\ q = w[2] /\ r = w[3] /\ u = w[4]
    BY DEF Words4
  <2>2. t = Joined(p, q, r, u)
    BY <1>12, <2>1, Zenon DEF Joined
  <2>3. IsBlock(t) /\ Words(t) = <<p, q, r, u>>
    BY <2>2, WordsJoined
  <2>4. QED
    BY <2>1, <2>3, Zenon
<1>15. Words(t) = Words(b)
  <2>1. w = <<w[1], w[2], w[3], w[4]>>
    BY DEF Words4
  <2>2. QED
    BY <1>1, <1>14, <2>1
<1>16. t = b
  BY <1>14, <1>15, SameBlock
<1>17. QED
  BY <1>5, <1>6, <1>13, <1>16

\* What a round of RoundKeys appends to the words before it.
NewKey(k, i) ==
  BytesXor(k[i], sm4CalciRK(BytesXor3(k[i + 1], k[i + 2], BytesXor(k[i + 3], CK(i - 1)))))

\* A function on 1..n is a sequence of length n.
LEMMA FunctionLong ==
  ASSUME NEW n \in Nat, NEW w \in [1..n -> Int]
  PROVE  Long(w, n)
<1>1. w \in Seq(Int)
  BY SeqDef
<1>2. Len(w) = n
  BY <1>1, LenProperties
<1>3. QED
  BY <1>1, <1>2 DEF Long

LEMMA ConstantWords ==
  /\ \A i \in 0..31 : CK(i) \in Word
  /\ \A j \in 1..4 : FK[j] \in Word
<1>1. ASSUME NEW i \in 0..31 PROVE CK(i) \in Word
  <2>1. PICK w : w = CK(i)
    OBVIOUS
  <2>2. ASSUME NEW j \in 1..4 PROVE w[j] \in Byte
    <3>1. PICK e \in Int : e = (4 * i + j - 1) * 7
      OBVIOUS
    <3>2. e % 256 \in Byte
      BY DEF Byte
    <3>3. w[j] = e % 256
      BY <2>1, <3>1 DEF CK
    <3>4. QED
      BY <3>2, <3>3
  <2>3. Long(w, 4)
    <3>1. w \in [1..4 -> Int]
      <4>1. w = [j \in 1..4 |-> w[j]]
        BY <2>1 DEF CK
      <4>2. QED
        BY <2>2, <4>1, ByteInts
    <3>2. PICK n \in Nat : n = 4
      OBVIOUS
    <3>3. w \in [1..n -> Int]
      BY <3>1, <3>2
    <3>4. QED
      BY <3>2, <3>3, FunctionLong
  <2>4. QED
    BY <2>1, <2>2, <2>3, LongWord
<1>2. ASSUME NEW j \in 1..4 PROVE FK[j] \in Word
  BY DEF FK, Word, Byte
<1>3. QED
  BY <1>1, <1>2

LEMMA NewKeyWord ==
  ASSUME NEW i \in 1..32, NEW k \in Seq(Word), Len(k) = 3 + i
  PROVE  NewKey(k, i) \in Word
<1>1. PICK a \in Word, b \in Word, c \in Word, d \in Word :
        a = k[i] /\ b = k[i + 1] /\ c = k[i + 2] /\ d = k[i + 3]
  <2>1. i \in 1..Len(k) /\ i + 1 \in 1..Len(k) /\ i + 2 \in 1..Len(k) /\ i + 3 \in 1..Len(k)
    OBVIOUS
  <2>2. QED
    BY <2>1
<1>2. PICK e \in Word : e = CK(i - 1)
  <2>1. i - 1 \in 0..31
    OBVIOUS
  <2>2. QED
    BY <2>1, ConstantWords
<1>3. PICK f \in Word : f = BytesXor3(b, c, BytesXor(d, e))
  BY XorWords, Zenon DEF BytesXor3
<1>4. BytesXor(a, sm4CalciRK(f)) \in Word
  BY MixedWords, XorWords
<1>5. NewKey(k, i) = BytesXor(a, sm4CalciRK(f))
  BY <1>1, <1>2, <1>3, Zenon DEF NewKey
<1>6. QED
  BY <1>4, <1>5

\* RoundKeys appends one word in each round.
WordSeqs == Seq(Word)

\* What is appended to words makes one word more.
LEMMA OneMore ==
  ASSUME NEW k \in WordSeqs, NEW w \in Word
  PROVE  Append(k, w) \in WordSeqs /\ Len(k) \in Nat /\ Len(Append(k, w)) = Len(k) + 1
BY DEF WordSeqs

LEMMA KeysMade ==
  ASSUME NEW key, Words(key) \in Words4
  PROVE  RoundKeys(key) \in WordSeqs /\ Len(RoundKeys(key)) = 36
<1> DEFINE First == [j \in 1..4 |-> BytesXor(Words(key)[j], FK[j])]
           Is(x) == x = [i \in 0..32 |->
                          IF i = 0 THEN First ELSE Append(x[i - 1], NewKey(x[i - 1], i))]
<1>1. PICK v \in WordSeqs : v = First /\ Len(v) = 4
  <2>1. \A j \in 1..4 : Words(key)[j] \in Word
    BY DEF Words4
  <2>2. \A j \in 1..4 : BytesXor(Words(key)[j], FK[j]) \in Word
    BY <2>1, ConstantWords, XorWords
  <2>3. First \in [1..4 -> Word]
    BY <2>2
  <2>4. First \in WordSeqs /\ Len(First) = 4
    BY <2>3 DEF WordSeqs
  <2>5. QED
    BY <2>4
<1>2. PICK word \in Word : word = v[1]
  BY <1>1 DEF WordSeqs
<1>3. PICK next : next = [p \in WordSeqs \X Nat |->
                            IF p[2] \in 1..32 /\ Len(p[1]) = 3 + p[2]
                              THEN Append(p[1], NewKey(p[1], p[2])) ELSE Append(p[1], word)]
  OBVIOUS
<1>4. next \in [WordSeqs \X Nat -> WordSeqs]
  <2>1. ASSUME NEW p \in WordSeqs \X Nat, p[2] \in 1..32, Len(p[1]) = 3 + p[2]
        PROVE  Append(p[1], NewKey(p[1], p[2])) \in WordSeqs
    <3>1. PICK k \in WordSeqs, i \in 1..32 : k = p[1] /\ i = p[2]
      BY <2>1
    <3>2. NewKey(k, i) \in Word
      BY <2>1, <3>1, NewKeyWord DEF WordSeqs
    <3>3. Append(k, NewKey(k, i)) \in WordSeqs
      BY <3>2, OneMore
    <3>4. QED
      BY <3>1, <3>3
  <2>2. ASSUME NEW p \in WordSeqs \X Nat PROVE Append(p[1], word) \in WordSeqs
    BY OneMore
  <2>3. QED
    BY <1>3, <2>1, <2>2
<1>5. PICK n \in Nat : n = 32
  OBVIOUS
<1>6. PICK g \in [0..n -> WordSeqs] : Repeats(g, n, v, next)
  <2>1. PICK S : S = WordSeqs /\ v \in S /\ next \in [S \X Nat -> S]
    BY <1>4
  <2>2. \E g \in [0..n -> S] : Repeats(g, n, v, next)
    BY <2>1, Recursion
  <2>3. QED
    BY <2>1, <2>2
<1>7. g[0] = v /\ \A k \in 1..32 : g[k] = next[<<g[k - 1], k>>]
  <2>1. \A k \in 0..n : g[k] = IF k = 0 THEN v ELSE next[<<g[k - 1], k>>]
    BY <1>6 DEF Repeats
  <2>2. 0 \in 0..n /\ \A k \in 1..32 : k \in 0..n /\ k # 0
    BY <1>5
  <2>3. QED
    BY <2>1, <2>2
<1>8. ASSUME NEW k \in 1..32, Len(g[k - 1]) = 3 + k
      PROVE  g[k] = Append(g[k - 1], NewKey(g[k - 1], k))
  <2>1. PICK h \in WordSeqs : h = g[k - 1]
    BY <1>5, <1>6
  <2>2. next[<<h, k>>] = Append(h, NewKey(h, k))
    <3>1. PICK p \in WordSeqs \X Nat : p = <<h, k>> /\ p[1] = h /\ p[2] = k
      <4>1. k \in Nat
        OBVIOUS
      <4>2. <<h, k>> \in WordSeqs \X Nat /\ <<h, k>>[1] = h /\ <<h, k>>[2] = k
        BY <4>1
      <4>3. QED
        BY <4>2, Zenon
    <3>2. p[2] \in 1..32 /\ Len(p[1]) = 3 + p[2]
      BY <1>8, <2>1, <3>1
    <3>3. next[p] = Append(p[1], NewKey(p[1], p[2]))
      BY <1>3, <3>2
    <3>4. QED
      BY <3>1, <3>3
  <2>3. QED
    BY <1>7, <2>1, <2>2
<1>9. \A k \in 0..n : Len(g[k]) = 4 + k
  <2> DEFINE T == {k \in Nat : Len(g[k]) = 4 + k}
  <2>1. 0 \in T
    BY <1>1, <1>7
  <2>2. ASSUME NEW k \in Nat, k < n, k \in T PROVE k + 1 \in T
    <3>1. PICK m \in 1..32 : m = k + 1 /\ m - 1 = k
      <4>1. k < 32
        BY <1>5, <2>2
      <4>2. k + 1 \in 1..32 /\ (k + 1) - 1 = k
        BY <4>1
      <4>3. QED
        BY <4>2
    <3>2. PICK h \in WordSeqs : h = g[k]
      BY <1>6, <2>2
    <3>3. Len(h) = 3 + m
      BY <2>2, <3>1, <3>2
    <3>4. g[m] = Append(h, NewKey(h, m)) /\ NewKey(h, m) \in Word
      BY <1>8, <3>1, <3>2, <3>3, NewKeyWord DEF WordSeqs
    <3>5. Len(Append(h, NewKey(h, m))) = Len(h) + 1
      BY <3>4, OneMore
    <3>6. QED
      BY <3>1, <3>3, <3>4, <3>5
  <2> HIDE DEF T
  <2>3. \A k \in 0..n : k \in T
    BY <2>1, <2>2, UpTo
  <2>4. QED
    BY <2>3 DEF T
<1>10. Is(g)
  <2>1. ASSUME NEW i \in 0..32, i # 0
        PROVE  next[<<g[i - 1], i>>] = Append(g[i - 1], NewKey(g[i - 1], i))
    <3>1. i \in 1..32 /\ i - 1 \in 0..n
      BY <1>5, <2>1
    <3>2. Len(g[i - 1]) = 3 + i
      BY <1>9, <3>1
    <3>3. QED
      BY <1>7, <1>8, <3>1, <3>2
  <2>2. g = [i \in 0..32 |-> IF i = 0 THEN v ELSE next[<<g[i - 1], i>>]]
    BY <1>5, <1>6 DEF Repeats
  <2>3. QED
    BY <1>1, <2>1, <2>2
<1>11. PICK x : x = CHOOSE h : Is(h)
  OBVIOUS
<1>12. Is(x) /\ RoundKeys(key) = x[32]
  <2>1. Is(x)
    BY <1>10, <1>11
  <2>2. RoundKeys(key) = x[32]
    BY <1>11 DEF RoundKeys, NewKey
  <2>3. QED
    BY <2>1, <2>2
<1>13. x[0] = v /\ \A i \in 1..32 : x[i] = Append(x[i - 1], NewKey(x[i - 1], i))
  <2> HIDE DEF First
  <2>1. ASSUME NEW i \in 0..32
        PROVE  x[i] = IF i = 0 THEN First ELSE Append(x[i - 1], NewKey(x[i - 1], i))
    BY <1>12
  <2>2. x[0] = First
    BY <2>1
  <2>3. ASSUME NEW i \in 1..32 PROVE x[i] = Append(x[i - 1], NewKey(x[i - 1], i))
    <3>1. i \in 0..32 /\ i # 0
      OBVIOUS
    <3>2. QED
      BY <2>1, <3>1, Zenon
  <2>4. QED
    BY <1>1, <2>2, <2>3
<1>14. \A k \in 0..n : x[k] \in WordSeqs /\ Len(x[k]) = 4 + k
  <2> DEFINE T == {k \in Nat : x[k] \in WordSeqs /\ Len(x[k]) = 4 + k}
  <2>1. 0 \in T
    <3>1. v \in WordSeqs /\ Len(v) = 4 + 0
      BY <1>1
    <3>2. QED
      BY <1>13, <3>1
  <2>2. ASSUME NEW k \in Nat, k < n, k \in T PROVE k + 1 \in T
    <3>1. PICK m \in 1..32 : m = k + 1 /\ m - 1 = k
      <4>1. k < 32
        BY <1>5, <2>2
      <4>2. k + 1 \in 1..32 /\ (k + 1) - 1 = k
        BY <4>1
      <4>3. QED
        BY <4>2
    <3>2. PICK h \in WordSeqs : h = x[k]
      BY <2>2
    <3>3. Len(h) = 3 + m
      BY <2>2, <3>1, <3>2
    <3>4. x[m] = Append(h, NewKey(h, m)) /\ NewKey(h, m) \in Word
      BY <1>13, <3>1, <3>2, <3>3, NewKeyWord DEF WordSeqs
    <3>5. Append(h, NewKey(h, m)) \in WordSeqs /\ Len(Append(h, NewKey(h, m))) = Len(h) + 1
      BY <3>4, OneMore
    <3>6. QED
      BY <3>1, <3>3, <3>4, <3>5
  <2> HIDE DEF T
  <2>3. \A k \in 0..n : k \in T
    BY <2>1, <2>2, UpTo
  <2>4. QED
    BY <2>3 DEF T
<1>15. QED
  BY <1>5, <1>12, <1>14

\* The keys of the rounds, and of the rounds back.
LEMMA SetKeys ==
  /\ sm4_setkey_enc(VerifyKey) \in RoundKeysOf
  /\ sm4_setkey_dec(VerifyKey) \in RoundKeysOf
  /\ \A i \in 1..32 : sm4_setkey_dec(VerifyKey)[i] = sm4_setkey_enc(VerifyKey)[33 - i]
<1>1. IsBlock(VerifyKey)
  <2>1. PICK k : k = VerifyKey
    OBVIOUS
  <2>2. k \in Seq(Int) /\ Len(k) = 16
    BY <2>1 DEF VerifyKey
  <2>3. \A i \in 1..16 : VerifyKey[i] \in Byte
    BY DEF VerifyKey, Byte
  <2>4. QED
    BY <2>1, <2>2, <2>3 DEF IsBlock, Long
<1>2. PICK ks \in Seq(Word) : ks = RoundKeys(VerifyKey) /\ Len(ks) = 36
  BY <1>1, WordsOf, KeysMade DEF WordSeqs
<1>3. PICK sk \in Seq(Word) : sk = SubSeq(ks, 5, 36) /\ Len(sk) = 32
  <2>1. PICK a \in Int, b \in Int : a = 5 /\ b = 36
    OBVIOUS
  <2>2. \A i \in a..b : ks[i] \in Word
    <3>1. \A i \in 1..36 : ks[i] \in Word
      BY <1>2, ElementOfSeq
    <3>2. \A i \in a..b : i \in 1..36
      BY <2>1
    <3>3. QED
      BY <3>1, <3>2, Zenon
  <2>3. SubSeq(ks, a, b) \in Seq(Word) /\ Len(SubSeq(ks, a, b)) = IF a <= b THEN b - a + 1 ELSE 0
    BY <2>2, SubSeqProperties
  <2>4. Len(SubSeq(ks, a, b)) = 32
    BY <2>1, <2>3
  <2>5. QED
    BY <2>1, <2>3, <2>4
<1>4. sm4_setkey_enc(VerifyKey) = sk /\ sm4_setkey_dec(VerifyKey) = Reverse(sk)
  BY <1>2, <1>3, Zenon DEF sm4_setkey_enc, sm4_setkey_dec, sm4_setkey
<1>5. sk \in [1..32 -> Word]
  BY <1>3, LenProperties
<1>6. Reverse(sk) = [i \in 1..32 |-> sk[(32 - i) + 1]]
  BY <1>3, Zenon DEF Reverse
<1>7. PICK rs : rs = Reverse(sk)
  OBVIOUS
<1>8. \A i \in 1..32 : rs[i] = sk[33 - i] /\ rs[i] \in Word
  <2>1. ASSUME NEW i \in 1..32 PROVE rs[i] = sk[33 - i] /\ rs[i] \in Word
    <3>1. PICK j \in 1..32 : j = 33 - i /\ j = (32 - i) + 1
      OBVIOUS
    <3>2. rs[i] = sk[j]
      BY <1>6, <1>7, <3>1
    <3>3. QED
      BY <1>5, <3>1, <3>2
  <2>2. QED
    BY <2>1
<1>9. rs \in [1..32 -> Word]
  BY <1>6, <1>7, <1>8
<1>10. QED
  BY <1>4, <1>5, <1>7, <1>8, <1>9 DEF RoundKeysOf

\* The block at number b, from 1, and the place of its byte j.
BlockAt(s, b) == Piece(s, 16 * b - 16, 16)

InBlock(i, n) == \E b \in 1..n : \E j \in 1..16 : i = (16 * b - 16) + j

LEMMA PlaceInBlock ==
  ASSUME NEW n \in Nat
  PROVE  /\ \A i \in 1..(16 * n) : InBlock(i, n)
         /\ \A b \in 1..n : \A j \in 1..16 :
              /\ (16 * b - 16) + j \in 1..(16 * n)
              /\ (((16 * b - 16) + j - 1) \div 16) + 1 = b
              /\ (((16 * b - 16) + j - 1) % 16) + 1 = j
<1>1. ASSUME NEW i \in 1..(16 * n)
      PROVE  InBlock(i, n)
  <2>1. PICK q \in Int, r \in Int : q = (i - 1) \div 16 /\ r = (i - 1) % 16
    OBVIOUS
  <2>2. i - 1 = (16 * q) + r /\ 0 <= r /\ r < 16 /\ 0 <= i - 1 /\ i <= 16 * n
    BY <2>1
  <2>3. q + 1 \in 1..n /\ r + 1 \in 1..16 /\ i = (16 * (q + 1) - 16) + (r + 1)
    BY <2>2
  <2>4. QED
    BY <2>3 DEF InBlock
<1>2. ASSUME NEW b \in 1..n, NEW j \in 1..16
      PROVE  /\ (16 * b - 16) + j \in 1..(16 * n)
             /\ (((16 * b - 16) + j - 1) \div 16) + 1 = b
             /\ (((16 * b - 16) + j - 1) % 16) + 1 = j
  OBVIOUS
<1>3. QED
  BY <1>1, <1>2

\* A text of whole blocks is taken block by block.
LEMMA EcbBlocks ==
  ASSUME NEW n \in Nat, NEW l \in Nat, l = 16 * n, NEW s, Long(s, l), NEW sk,
         \A b \in 1..n : IsBlock(sm4_one_round(sk, BlockAt(s, b)))
  PROVE  /\ Long(sm4_crypt_ecb(sk, s), l)
         /\ \A b \in 1..n : BlockAt(sm4_crypt_ecb(sk, s), b) = sm4_one_round(sk, BlockAt(s, b))
<1> DEFINE One(b) == sm4_one_round(sk, BlockAt(s, b))
           ByteAt(i) == One(((i - 1) \div 16) + 1)[((i - 1) % 16) + 1]
<1>1. PICK r : r = [i \in 1..l |-> ByteAt(i)]
  OBVIOUS
<1>2. sm4_crypt_ecb(sk, s) = r
  <2>1. Len(s) \div 16 = n
    BY DEF Long
  <2>2. PICK block : block = [b \in 1..n |-> sm4_one_round(sk, SubSeq(s, 16 * b - 15, 16 * b))]
    OBVIOUS
  <2>3. sm4_crypt_ecb(sk, s) = [i \in 1..(16 * n) |-> block[((i - 1) \div 16) + 1][((i - 1) % 16) + 1]]
    <3>1. PICK c : c = [b \in 1..(Len(s) \div 16) |->
                          sm4_one_round(sk, SubSeq(s, 16 * b - 15, 16 * b))]
      OBVIOUS
    <3>2. sm4_crypt_ecb(sk, s) = [i \in 1..(16 * (Len(s) \div 16)) |->
                                   c[((i - 1) \div 16) + 1][((i - 1) % 16) + 1]]
      BY <3>1 DEF sm4_crypt_ecb
    <3>3. c = block
      BY <2>1, <2>2, <3>1, Zenon
    <3>4. QED
      BY <2>1, <3>2, <3>3, Zenon
  <2>4. ASSUME NEW b \in 1..n PROVE block[b] = One(b)
    <3>1. 16 * b - 15 = (16 * b - 16) + 1 /\ 16 * b = (16 * b - 16) + 16
      OBVIOUS
    <3>2. QED
      BY <2>2, <3>1 DEF BlockAt, Piece
  <2>5. ASSUME NEW i \in 1..l PROVE block[((i - 1) \div 16) + 1] = One(((i - 1) \div 16) + 1)
    <3>1. PICK b \in 1..n, j \in 1..16 : i = (16 * b - 16) + j
      <4>1. InBlock(i, n)
        BY PlaceInBlock
      <4>2. QED
        BY <4>1 DEF InBlock
    <3>2. ((i - 1) \div 16) + 1 \in 1..n
      BY <3>1, PlaceInBlock
    <3>3. QED
      BY <2>4, <3>2
  <2> HIDE DEF One
  <2>6. QED
    BY <1>1, <2>3, <2>5
<1>3. ASSUME NEW b \in 1..n, NEW j \in 1..16
      PROVE  r[(16 * b - 16) + j] = One(b)[j] /\ One(b)[j] \in Int
  <2>1. PICK i : i = (16 * b - 16) + j
    OBVIOUS
  <2>2. i \in 1..l /\ ((i - 1) \div 16) + 1 = b /\ ((i - 1) % 16) + 1 = j
    BY <2>1, PlaceInBlock
  <2>3. r[i] = ByteAt(i)
    BY <1>1, <2>2
  <2>4. ByteAt(i) = One(b)[j]
    BY <2>2
  <2>5. One(b)[j] \in Int
    BY ByteInts DEF IsBlock
  <2>6. QED
    BY <2>1, <2>3, <2>4, <2>5
<1>4. Long(r, l)
  <2> HIDE DEF One
  <2>1. ASSUME NEW i \in 1..l PROVE ByteAt(i) \in Int
    <3>1. PICK b \in 1..n, j \in 1..16 : i = (16 * b - 16) + j
      <4>1. InBlock(i, n)
        BY PlaceInBlock
      <4>2. QED
        BY <4>1 DEF InBlock
    <3>2. ((i - 1) \div 16) + 1 = b /\ ((i - 1) % 16) + 1 = j
      BY <3>1, PlaceInBlock
    <3>3. QED
      BY <1>3, <3>2
  <2> HIDE DEF ByteAt
  <2>2. r \in [1..l -> Int]
    BY <1>1, <2>1
  <2>3. QED
    BY <2>2, FunctionLong
<1>5. ASSUME NEW b \in 1..n PROVE BlockAt(r, b) = One(b)
  <2>1. PICK k \in Nat, m \in Nat : k = 16 * b - 16 /\ m = 16
    OBVIOUS
  <2>2. k + m <= l
    BY <2>1
  <2>3. Long(Piece(r, k, m), m) /\ \A j \in 1..m : Piece(r, k, m)[j] = r[k + j]
    BY <1>4, <2>2, Cut
  <2>4. Long(One(b), m)
    BY <2>1 DEF IsBlock
  <2> HIDE DEF One
  <2>5. \A j \in 1..m : Piece(r, k, m)[j] = One(b)[j]
    BY <1>3, <2>1, <2>3
  <2>6. Piece(r, k, m) = One(b)
    BY <2>3, <2>4, <2>5, SameSeq
  <2>7. QED
    BY <2>1, <2>6, Zenon DEF BlockAt
<1>6. QED
  BY <1>2, <1>4, <1>5

\* The text of a block.
Whole(s, n)      == Long(s, 16 * n)
Nth(b, n)        == b \in 1..n
IsText(t, s, b) == \A j \in 1..16 : t[j] = s[(16 * b - 16) + j]

LEMMA BlockOf ==
  ASSUME NEW n \in Nat, NEW s, Whole(s, n), NEW b, Nth(b, n)
  PROVE  Long(BlockAt(s, b), 16) /\ IsText(BlockAt(s, b), s, b)
<1>0. b \in 1..n
  BY DEF Nth
<1>1. PICK k \in Nat, m \in Nat, l \in Nat : k = 16 * b - 16 /\ m = 16 /\ l = 16 * n
  BY <1>0
<1>2. k + m <= l /\ Long(s, l)
  BY <1>0, <1>1 DEF Whole
<1>3. Long(Piece(s, k, m), m) /\ \A j \in 1..m : Piece(s, k, m)[j] = s[k + j]
  BY <1>2, Cut
<1>4. QED
  BY <1>1, <1>3, Zenon DEF BlockAt, IsText

\* What was encrypted is decrypted.
LEMMA EcbUndone ==
  ASSUME NEW n \in Nat, NEW l \in Nat, l = 16 * n, NEW s, Long(s, l), \A i \in 1..l : s[i] \in Byte,
         NEW sk \in RoundKeysOf, NEW rs \in RoundKeysOf, \A i \in 1..32 : rs[i] = sk[33 - i]
  PROVE  sm4_crypt_ecb(rs, sm4_crypt_ecb(sk, s)) = s
<1>0. Whole(s, n)
  BY DEF Whole
<1>1. ASSUME NEW b \in 1..n PROVE IsBlock(BlockAt(s, b))
  <2>0. Long(BlockAt(s, b), 16) /\ IsText(BlockAt(s, b), s, b)
    <3>1. Nth(b, n)
      BY DEF Nth
    <3>2. QED
      BY <1>0, <3>1, BlockOf
  <2>1. \A j \in 1..16 : BlockAt(s, b)[j] \in Byte
    <3>1. \A j \in 1..16 : (16 * b - 16) + j \in 1..l
      BY PlaceInBlock
    <3>2. \A j \in 1..16 : BlockAt(s, b)[j] = s[(16 * b - 16) + j]
      BY <2>0, Zenon DEF IsText
    <3>3. QED
      BY <3>1, <3>2
  <2>2. QED
    BY <2>0, <2>1 DEF IsBlock
<1>2. ASSUME NEW b \in 1..n
      PROVE  /\ IsBlock(sm4_one_round(sk, BlockAt(s, b)))
             /\ sm4_one_round(rs, sm4_one_round(sk, BlockAt(s, b))) = BlockAt(s, b)
  BY <1>1, OneRound
<1>3. PICK c : c = sm4_crypt_ecb(sk, s)
  OBVIOUS
<1>4. /\ Long(c, l)
      /\ \A b \in 1..n : BlockAt(c, b) = sm4_one_round(sk, BlockAt(s, b))
  BY <1>2, <1>3, EcbBlocks
<1>5. \A b \in 1..n : sm4_one_round(rs, BlockAt(c, b)) = BlockAt(s, b)
  BY <1>2, <1>4
<1>6. PICK d : d = sm4_crypt_ecb(rs, c)
  OBVIOUS
<1>7. Long(d, l) /\ \A b \in 1..n : BlockAt(d, b) = BlockAt(s, b)
  <2>1. \A b \in 1..n : IsBlock(sm4_one_round(rs, BlockAt(c, b)))
    BY <1>1, <1>5
  <2>2. /\ Long(sm4_crypt_ecb(rs, c), l)
        /\ \A b \in 1..n : BlockAt(sm4_crypt_ecb(rs, c), b) = sm4_one_round(rs, BlockAt(c, b))
    BY <1>4, <2>1, EcbBlocks
  <2>3. QED
    BY <1>5, <1>6, <2>2
<1>8. ASSUME NEW b \in 1..n, NEW h \in 1..16
      PROVE  d[(16 * b - 16) + h] = s[(16 * b - 16) + h]
  <2>1. Whole(d, n) /\ Nth(b, n)
    BY <1>7 DEF Whole, Nth
  <2>2. IsText(BlockAt(d, b), d, b) /\ IsText(BlockAt(s, b), s, b)
    BY <1>0, <2>1, BlockOf
  <2>3. BlockAt(d, b) = BlockAt(s, b)
    BY <1>7
  <2>4. QED
    BY <2>2, <2>3 DEF IsText
<1>9. ASSUME NEW i \in 1..l PROVE d[i] = s[i]
  <2>1. PICK b \in 1..n, j \in 1..16 : i = (16 * b - 16) + j
    <3>1. InBlock(i, n)
      BY PlaceInBlock
    <3>2. QED
      BY <3>1 DEF InBlock
  <2>2. QED
    BY <1>8, <2>1
<1>10. d = s
  BY <1>7, <1>9, SameSeq
<1>11. QED
  BY <1>3, <1>6, <1>10

\* A serial of at most 31 bytes with its time, and what is sent of it.
LEMMA SerialDecrypted ==
  ASSUME NEW n \in Nat, n <= 31, NEW s, Long(s, n), \A i \in 1..n : s[i] \in Byte
  PROVE  sm4_crypt_ecb(sm4_setkey_dec(VerifyKey), sm4_serial_encode(Time, s))
           = SerialText(Time, s)
<1>0. PICK time : time = Time
  OBVIOUS
<1>1. PICK k \in Nat, l \in Nat, z \in Nat, e \in Nat :
        k = 6 /\ l = 64 /\ z = 58 - n /\ e = k + n
  <2>1. PICK k \in Nat, l \in Nat : k = 6 /\ l = 64
    OBVIOUS
  <2>2. 58 - n \in Nat /\ k + n \in Nat
    BY <2>1
  <2>3. QED
    BY <2>1, <2>2
<1>2. Long(time, k) /\ \A i \in 1..k : time[i] \in Byte
  BY <1>0, <1>1 DEF Time, Long, Byte
<1>3. PICK zeros : zeros = Zeros(z)
  OBVIOUS
<1>4. Long(zeros, z) /\ \A i \in 1..z : zeros[i] \in Byte
  <2>1. \A i \in 1..z : zeros[i] \in Byte /\ zeros[i] \in Int
    BY <1>3 DEF Zeros, Byte
  <2>2. zeros \in [1..z -> Int]
    BY <1>3, <2>1 DEF Zeros
  <2>3. QED
    BY <2>1, <2>2, FunctionLong
<1>5. PICK a : a = Cat(time, s)
  OBVIOUS
<1>6. Long(a, e) /\ \A i \in 1..e : a[i] \in Byte
  <2>1. /\ Long(Cat(time, s), k + n) /\ (\A i \in 1..k : Cat(time, s)[i] = time[i])
        /\ \A i \in 1..n : Cat(time, s)[k + i] = s[i]
    BY <1>2, Glue
  <2>2. ASSUME NEW i \in 1..e PROVE a[i] \in Byte
    <3>1. CASE i \in 1..k
      BY <1>2, <1>5, <2>1, <3>1
    <3>2. CASE i \notin 1..k
      <4>1. PICK j \in 1..n : i = k + j
        <5>1. i - k \in 1..n /\ i = k + (i - k)
          BY <1>1, <3>2
        <5>2. QED
          BY <5>1
      <4>2. QED
        BY <1>5, <2>1, <4>1
    <3>3. QED
      BY <3>1, <3>2
  <2>3. QED
    BY <1>1, <1>5, <2>1, <2>2
<1>7. PICK t : t = Cat(a, zeros)
  OBVIOUS
<1>8. Long(t, l) /\ \A i \in 1..l : t[i] \in Byte
  <2>1. /\ Long(Cat(a, zeros), e + z) /\ (\A i \in 1..e : Cat(a, zeros)[i] = a[i])
        /\ \A i \in 1..z : Cat(a, zeros)[e + i] = zeros[i]
    BY <1>4, <1>6, Glue
  <2>2. e + z = l
    BY <1>1
  <2>3. ASSUME NEW i \in 1..l PROVE t[i] \in Byte
    <3>1. CASE i \in 1..e
      BY <1>6, <1>7, <2>1, <3>1
    <3>2. CASE i \notin 1..e
      <4>1. PICK j \in 1..z : i = e + j
        <5>1. i - e \in 1..z /\ i = e + (i - e)
          BY <2>2, <3>2
        <5>2. QED
          BY <5>1
      <4>2. QED
        BY <1>4, <1>7, <2>1, <4>1
    <3>3. QED
      BY <3>1, <3>2
  <2>4. QED
    BY <1>7, <2>1, <2>2, <2>3
<1>9. SerialText(Time, s) = t
  <2>1. SM4_LEN - Len(Time) - Len(s) = z
    BY <1>0, <1>1, <1>2 DEF SM4_LEN, Long
  <2>2. SerialText(Time, s) = Time \o s \o Zeros(z)
    BY <2>1, Zenon DEF SerialText
  <2>3. QED
    BY <1>0, <1>3, <1>5, <1>7, <2>2, Zenon DEF Cat
<1>10. PICK m \in Nat : m = 4 /\ l = 16 * m
  BY <1>1
<1>11. sm4_crypt_ecb(sm4_setkey_dec(VerifyKey), sm4_crypt_ecb(sm4_setkey_enc(VerifyKey), t)) = t
  BY <1>8, <1>10, SetKeys, EcbUndone
<1>12. QED
  BY <1>9, <1>11, Zenon DEF sm4_serial_encode

-----------------------------------------------------------------------------
(* The serial                                                              *)

Least(m, S) == m \in S /\ \A i \in S : m <= i

\* The first of some numbers.
LEMMA MinIs ==
  ASSUME NEW S, S \subseteq Nat, S # {}
  PROVE  Least(Min(S), S)
<1>1. IsWellFoundedOn(Smaller, Nat)
  BY NatLessThanWellFounded DEF OpToRel, Smaller
<1>2. PICK x \in S : \A y \in S : <<y, x>> \notin Smaller
  BY <1>1, WFMin
<1>3. x \in Nat /\ \A y \in S : x <= y
  <2>1. ASSUME NEW y \in S, ~(x <= y) PROVE FALSE
    <3>1. x \in Nat /\ y \in Nat /\ y < x
      BY <2>1
    <3>2. QED
      BY <1>2, <2>1, <3>1 DEF Smaller
  <2>2. QED
    BY <2>1
<1>4. QED
  BY <1>2, <1>3 DEF Min, Least

\* How much of a serial is copied.
Room(s) == Min({Len(s), 50})

LEMMA RoomIs ==
  ASSUME NEW n \in Nat, NEW s, Len(s) = n
  PROVE  Room(s) \in Nat /\ Room(s) <= 50 /\ Room(s) <= n /\ Room(s) \in {n, 50}
<1>1. PICK S : S = {n, 50}
  OBVIOUS
<1>2. Least(Min(S), S)
  BY <1>1, MinIs
<1>3. Room(s) = Min(S)
  BY <1>1, Zenon DEF Room
<1>4. QED
  BY <1>1, <1>2, <1>3 DEF Least

\* The array holds the serial set last, and behind it what a longer one before
\* left: as many bytes as the longest serial has, and a zero behind them.
ArrayHolds(a, g) ==
  /\ g \in Seq(Serials)
  /\ a \in [1..64 -> Byte]
  /\ \A i \in 51..64 : a[i] = 0
  /\ \A i \in 1..50 : a[i] # 0 <=> \E k \in 1..Len(g) : i <= Len(g[k])
  /\ g # <<>> => \A i \in 1..50 : i <= Len(g[Len(g)]) => a[i] = g[Len(g)][i]

LEMMA SerialIs ==
  ASSUME NEW s \in Serials
  PROVE  /\ s \in Seq(Byte) /\ Len(s) \in Nat /\ Long(s, Len(s))
         /\ \A i \in 1..Len(s) : s[i] \in Byte /\ s[i] # 0
<1>1. s \in Seq(1..255)
  BY SerialsAssumption
<1>2. Len(s) \in Nat /\ \A i \in 1..Len(s) : s[i] \in 1..255
  BY <1>1, ElementOfSeq, LenProperties
<1>3. \A x \in 1..255 : x \in Byte /\ x # 0 /\ x \in Int
  BY DEF Byte
<1>4. \A i \in 1..Len(s) : s[i] \in Byte /\ s[i] # 0 /\ s[i] \in Int
  BY <1>2, <1>3, Zenon
<1>5. s \in Seq(Byte) /\ s \in Seq(Int)
  BY <1>1, <1>4
<1>6. QED
  BY <1>2, <1>4, <1>5 DEF Long

\* SetPhoneSerial keeps it so.
LEMMA SerialCopied ==
  ASSUME ArrayHolds(m_phoneSerial, given), NEW s \in Serials
  PROVE  ArrayHolds(Copied(s), Append(given, s))
<1>0. PICK g, a : g = given /\ a = m_phoneSerial
  OBVIOUS
<1>1. g = given /\ a = m_phoneSerial /\ g \in Seq(Serials) /\ a \in [1..64 -> Byte]
  BY <1>0 DEF ArrayHolds
<1>2. PICK h : h = Append(g, s)
  OBVIOUS
<1>3. PICK c \in Nat : /\ h \in Seq(Serials) /\ Len(g) = c /\ Len(h) = c + 1 /\ h # <<>>
                       /\ h[c + 1] = s /\ \A k \in 1..c : h[k] = g[k]
  <2>1. /\ h \in Seq(Serials) /\ Len(g) \in Nat /\ Len(h) = Len(g) + 1 /\ h # <<>>
        /\ h[Len(g) + 1] = s /\ \A k \in 1..Len(g) : h[k] = g[k]
    <3>1. g \in Seq(Serials)
      BY <1>1
    <3>2. /\ Append(g, s) \in Seq(Serials) /\ Append(g, s) # <<>>
          /\ Len(Append(g, s)) = Len(g) + 1 /\ Append(g, s)[Len(g) + 1] = s
          /\ \A k \in 1..Len(g) : Append(g, s)[k] = g[k]
      BY <3>1, AppendProperties
    <3>3. Len(g) \in Nat
      BY <3>1, LenProperties
    <3>4. QED
      BY <1>2, <3>2, <3>3, Zenon
  <2>2. QED
    BY <2>1
<1>4. PICK n \in Nat : n = Len(s)
  BY SerialIs
<1>5. PICK m \in Nat : m = Room(s) /\ m <= 50 /\ m <= n /\ m \in {n, 50}
  BY <1>4, RoomIs
<1>6. PICK b : b = [i \in 1..64 |-> IF i <= m THEN s[i] ELSE a[i]]
  OBVIOUS
<1>7. Copied(s) = b
  BY <1>1, <1>5, <1>6, Zenon DEF Copied, Room
<1>8. \A i \in 1..64 : b[i] = IF i <= m THEN s[i] ELSE a[i]
  BY <1>6
<1>9. ASSUME NEW i \in 1..64, i <= m PROVE b[i] = s[i] /\ b[i] \in Byte /\ b[i] # 0 /\ i <= n
  <2>1. i \in 1..n
    <3>1. m <= n
      BY <1>5
    <3>2. QED
      BY <1>9, <3>1
  <2>2. s[i] \in Byte /\ s[i] # 0
    BY <1>4, <2>1, SerialIs
  <2>3. QED
    BY <1>8, <1>9, <2>1, <2>2
<1>10. ASSUME NEW i \in 1..64, ~(i <= m) PROVE b[i] = a[i] /\ (i <= 50 => ~(i <= n))
  BY <1>5, <1>8, <1>10
<1>11. b \in [1..64 -> Byte]
  <2>1. \A i \in 1..64 : a[i] \in Byte
    BY <1>1
  <2>2. \A i \in 1..64 : b[i] \in Byte
    BY <1>9, <1>10, <2>1
  <2>3. QED
    BY <1>6, <2>2
<1>12. ASSUME NEW i \in 51..64 PROVE b[i] = 0
  <2>1. i \in 1..64 /\ ~(i <= m)
    <3>1. m <= 50
      BY <1>5
    <3>2. QED
      BY <3>1
  <2>2. a[i] = 0
    BY <1>1 DEF ArrayHolds
  <2>3. QED
    BY <1>10, <2>1, <2>2
<1>13. ASSUME NEW i \in 1..50
       PROVE  b[i] # 0 <=> \E k \in 1..Len(h) : i <= Len(h[k])
  <2>0. i \in 1..64
    OBVIOUS
  <2>1. CASE i <= m
    <3>1. b[i] # 0 /\ i <= Len(s)
      BY <1>4, <1>9, <2>0, <2>1
    <3>2. c + 1 \in 1..Len(h) /\ i <= Len(h[c + 1])
      BY <1>3, <3>1
    <3>3. QED
      BY <3>1, <3>2
  <2>2. CASE ~(i <= m)
    <3>1. b[i] = a[i] /\ ~(i <= Len(s))
      <4>1. b[i] = a[i] /\ (i <= 50 => ~(i <= n))
        BY <1>10, <2>0, <2>2
      <4>2. i <= 50
        OBVIOUS
      <4>3. QED
        BY <1>4, <4>1, <4>2, Zenon
    <3>2. a[i] # 0 <=> \E k \in 1..Len(g) : i <= Len(g[k])
      BY <1>1 DEF ArrayHolds
    <3>3. ASSUME NEW k \in 1..Len(h), i <= Len(h[k]) PROVE k \in 1..Len(g)
      <4>1. k # c + 1
        BY <1>3, <3>1, <3>3
      <4>2. QED
        BY <1>3, <4>1
    <3>4. \A k \in 1..Len(g) : k \in 1..Len(h)
      BY <1>3
    <3>5. (\E k \in 1..Len(g) : i <= Len(g[k])) <=> \E k \in 1..Len(h) : i <= Len(h[k])
      BY <1>3, <3>3, <3>4
    <3>6. QED
      BY <3>1, <3>2, <3>5
  <2>3. QED
    BY <2>1, <2>2
<1>14. ASSUME NEW i \in 1..50, i <= Len(h[Len(h)]) PROVE b[i] = h[Len(h)][i]
  <2>1. i <= n /\ i \in 1..64
    BY <1>3, <1>4, <1>14
  <2>2. i <= m
    BY <1>5, <2>1
  <2>3. h[Len(h)] = s
    BY <1>3
  <2>4. QED
    BY <1>9, <2>1, <2>2, <2>3
<1>15. ArrayHolds(b, h)
  BY <1>3, <1>11, <1>12, <1>13, <1>14 DEF ArrayHolds
<1>16. QED
  BY <1>1, <1>2, <1>7, <1>15

\* The length of the array as a string is that of the longest serial.
LEMMA LengthIs ==
  ASSUME NEW a, NEW g, ArrayHolds(a, g), NEW n \in Nat, n = StrLen(a), 2 <= n, n <= 31
  PROVE  /\ \A i \in 1..n : a[i] # 0
         /\ \A k \in 1..Len(g) : Len(g[k]) <= n
         /\ \E k \in 1..Len(g) : n <= Len(g[k])
<1>1. /\ a \in [1..64 -> Byte] /\ a[51] = 0 /\ g \in Seq(Serials)
      /\ \A i \in 1..50 : a[i] # 0 <=> \E k \in 1..Len(g) : i <= Len(g[k])
  BY DEF ArrayHolds
<1>2. PICK S : S = {i \in 1..64 : a[i] = 0}
  OBVIOUS
<1>3. 51 \in S /\ S \subseteq Nat
  <2>1. 51 \in 1..64 /\ \A i \in 1..64 : i \in Nat
    OBVIOUS
  <2>2. QED
    BY <1>1, <1>2, <2>1, Zenon
<1>4. Least(Min(S), S)
  BY <1>3, MinIs
<1>5. PICK m \in Nat : m = Min(S) /\ m = n + 1 /\ m \in 1..50 /\ a[m] = 0
  <2>1. Len(a) = 64
    <3>1. PICK l \in Nat : l = 64
      OBVIOUS
    <3>2. a \in [1..l -> Int]
      BY <1>1, <3>1, ByteInts
    <3>3. Long(a, l)
      BY <3>2, FunctionLong
    <3>4. QED
      BY <3>1, <3>3 DEF Long
  <2>2. StrLen(a) = Min(S) - 1
    BY <1>2, <2>1, Zenon DEF StrLen
  <2>3. Min(S) \in S
    BY <1>4, Zenon DEF Least
  <2>4. PICK m \in Nat : m = Min(S) /\ m \in S
    BY <1>3, <2>3
  <2>5. m = n + 1
    BY <2>2, <2>4
  <2>6. m \in 1..50 /\ a[m] = 0
    BY <1>2, <2>4, <2>5
  <2>7. QED
    BY <2>4, <2>5, <2>6
<1>6. ASSUME NEW i \in 1..n PROVE a[i] # 0
  <2>1. i \in 1..64 /\ ~(m <= i)
    BY <1>5
  <2>2. i \notin S
    BY <1>4, <1>5, <2>1 DEF Least
  <2>3. QED
    BY <1>2, <2>1, <2>2
<1>7. ASSUME NEW k \in 1..Len(g) PROVE Len(g[k]) <= n
  <2>1. m \in 1..50
    BY <1>5
  <2>2. ~(m <= Len(g[k]))
    BY <1>1, <1>5, <2>1
  <2>3. g[k] \in Serials
    BY <1>1, ElementOfSeq
  <2>4. PICK l \in Nat : l = Len(g[k])
    BY <2>3, SerialIs
  <2>5. QED
    BY <1>5, <2>2, <2>4
<1>8. \E k \in 1..Len(g) : n <= Len(g[k])
  <2>1. n \in 1..50 /\ n \in 1..n
    OBVIOUS
  <2>2. a[n] # 0
    BY <1>6, <2>1
  <2>3. QED
    BY <1>1, <2>1, <2>2
<1>9. QED
  BY <1>6, <1>7, <1>8

\* What is read from the array is the serial set last.
LEMMA SerialFound ==
  ASSUME NEW a, NEW g, ArrayHolds(a, g), NEW n \in Nat, n = StrLen(a), 2 <= n, n <= 31,
         NEW r, r = Piece(a, 0, n), NEW s, s = g[Len(g)]
  PROVE  /\ Long(r, n) /\ \A i \in 1..n : r[i] \in Byte
         /\ IsPrefix(s, r)
         /\ (\A k \in 1..Len(g) : Len(g[k]) <= Len(s)) => r = s
<1>1. /\ a \in [1..64 -> Byte] /\ g \in Seq(Serials)
      /\ g # <<>> => \A i \in 1..50 : i <= Len(g[Len(g)]) => a[i] = g[Len(g)][i]
  BY DEF ArrayHolds
<1>2. /\ \A k \in 1..Len(g) : Len(g[k]) <= n
      /\ \E k \in 1..Len(g) : n <= Len(g[k])
  BY LengthIs
<1>3. g # <<>> /\ Len(g) \in 1..Len(g) /\ s \in Serials
  <2>1. Len(g) \in Nat
    BY <1>1, LenProperties
  <2>2. PICK c \in Nat : c = Len(g)
    BY <2>1
  <2>3. PICK k \in 1..c : n <= Len(g[k])
    BY <1>2, <2>2
  <2>4. c \in 1..c
    OBVIOUS
  <2>5. g # <<>>
    BY <1>1, <2>2, <2>4
  <2>6. g[c] \in Serials
    BY <1>1, <2>2, <2>4, ElementOfSeq
  <2>7. QED
    BY <2>2, <2>4, <2>5, <2>6
<1>4. PICK l \in Nat : l = Len(s) /\ l <= n /\ Long(s, l)
  <2>1. Len(s) \in Nat /\ Long(s, Len(s))
    BY <1>3, SerialIs
  <2>2. Len(s) <= n
    BY <1>2, <1>3
  <2>3. QED
    BY <2>1, <2>2
<1>5. Long(r, n) /\ \A i \in 1..n : r[i] = a[i]
  <2>1. PICK m \in Nat, z \in Nat : m = 64 /\ z = 0
    OBVIOUS
  <2>2. a \in [1..m -> Int]
    BY <1>1, <2>1, ByteInts
  <2>3. Long(a, m)
    BY <2>2, FunctionLong
  <2>4. z + n <= m
    BY <2>1
  <2>5. Long(Piece(a, z, n), n) /\ \A i \in 1..n : Piece(a, z, n)[i] = a[z + i]
    BY <2>3, <2>4, Cut
  <2>6. r = Piece(a, z, n)
    BY <2>1, Zenon
  <2>7. \A i \in 1..n : z + i = i
    BY <2>1
  <2>8. QED
    BY <2>5, <2>6, <2>7
<1>6. \A i \in 1..n : r[i] \in Byte
  <2>1. \A i \in 1..n : i \in 1..64
    OBVIOUS
  <2>2. QED
    BY <1>1, <1>5, <2>1
<1>7. ASSUME NEW i \in 1..l PROVE r[i] = s[i]
  <2>1. i \in 1..50 /\ i <= l /\ i \in 1..n
    BY <1>4
  <2>2. i <= Len(g[Len(g)])
    BY <1>4, <2>1
  <2>3. a[i] = s[i]
    BY <1>1, <1>3, <2>1, <2>2
  <2>4. QED
    BY <1>5, <2>1, <2>3
<1>8. IsPrefix(s, r)
  <2>1. PICK z \in Nat : z = 0
    OBVIOUS
  <2>2. z + l <= n /\ z + l <= l
    BY <1>4, <2>1
  <2>3. Long(Piece(r, z, l), l) /\ \A i \in 1..l : Piece(r, z, l)[i] = r[z + i]
    BY <1>5, <2>2, Cut
  <2>4. Long(Piece(s, z, l), l) /\ \A i \in 1..l : Piece(s, z, l)[i] = s[z + i]
    BY <1>4, <2>2, Cut
  <2>5. \A i \in 1..l : z + i = i
    BY <2>1
  <2>6. \A i \in 1..l : Piece(s, z, l)[i] = Piece(r, z, l)[i]
    BY <1>7, <2>3, <2>4, <2>5
  <2>7. Piece(s, z, l) = Piece(r, z, l)
    BY <2>3, <2>4, <2>6, SameSeq
  <2>8. SubSeq(s, 1, l) = SubSeq(r, 1, l)
    <3>1. z + 1 = 1 /\ z + l = l
      BY <2>1
    <3>2. QED
      BY <2>7, <3>1, Zenon DEF Piece
  <2>9. Len(s) <= Len(r)
    BY <1>4, <1>5 DEF Long
  <2>10. QED
    BY <1>4, <2>8, <2>9, Zenon DEF IsPrefix
<1>9. ASSUME \A k \in 1..Len(g) : Len(g[k]) <= Len(s) PROVE r = s
  <2>1. PICK k \in 1..Len(g) : n <= Len(g[k])
    BY <1>2
  <2>2. Len(g[k]) <= l
    BY <1>4, <1>9
  <2>3. g[k] \in Serials
    BY <1>1, ElementOfSeq
  <2>4. PICK e \in Nat : e = Len(g[k])
    BY <2>3, SerialIs
  <2>5. n = l
    BY <1>4, <2>1, <2>2, <2>4
  <2>6. QED
    BY <1>4, <1>5, <1>7, <2>5, SameSeq
<1>10. QED
  BY <1>5, <1>6, <1>8, <1>9

\* A serial that is set arrives at the authorisation server, whole and as it
\* is (SetPhoneSerial, sm4_serial_encode), unless a longer one was set before.
THEOREM SerialAlwaysArrives == Spec => []SerialArrives
<1> DEFINE Inv == ArrayHolds(m_phoneSerial, given) /\ SerialArrives
<1>1. Init => Inv
  <2> SUFFICES ASSUME Init PROVE Inv
    OBVIOUS
  <2>1. PICK a : a = m_phoneSerial /\ a = [i \in 1..64 |-> 0]
    BY DEF Init, Zeros
  <2>2. PICK g : g = given /\ g = <<>>
    BY DEF Init
  <2>3. a \in [1..64 -> Byte] /\ \A i \in 1..64 : a[i] = 0
    BY <2>1 DEF Byte
  <2>4. g \in Seq(Serials) /\ Len(g) = 0
    BY <2>2
  <2>5. ArrayHolds(a, g)
    BY <2>2, <2>3, <2>4 DEF ArrayHolds
  <2>6. SerialArrives
    BY DEF Init, SerialArrives, SerialSent, SerialReceived
  <2>7. QED
    BY <2>1, <2>2, <2>5, <2>6
<1>2. Inv /\ [Next]_vars => Inv'
  <2> SUFFICES ASSUME Inv, [Next]_vars PROVE Inv'
    OBVIOUS
  <2> USE DEF SerialArrives
  <2>1. CASE UNCHANGED vars
    BY <2>1 DEF vars, SerialSent, SerialReceived, ArrayHolds
  <2>2. ASSUME NEW s \in Serials, SetPhoneSerial(s) PROVE Inv'
    <3>1. m_phoneSerial' = Copied(s) /\ given' = Append(given, s) /\ last'.of = "none"
      BY <2>2 DEF SetPhoneSerial
    <3>2. ArrayHolds(Copied(s), Append(given, s))
      BY SerialCopied
    <3>3. ArrayHolds(m_phoneSerial, given)'
      BY <3>1, <3>2, Zenon DEF ArrayHolds
    <3>4. QED
      BY <3>1, <3>3 DEF SerialSent, SerialReceived
  <2>3. CASE SendSerial
    <3>1. PICK n : n = StrLen(m_phoneSerial)
      OBVIOUS
    <3>2. PICK r : r = SubSeq(m_phoneSerial, 1, n)
      OBVIOUS
    <3>3. /\ n \in 2..31
          /\ last' = [of |-> "serial", serial |-> r, sent |-> sm4_serial_encode(Time, r)]
          /\ m_phoneSerial' = m_phoneSerial /\ given' = given
      BY <2>3, <3>1, <3>2 DEF SendSerial
    <3>4. last'.of = "serial" /\ last'.serial = r /\ last'.sent = sm4_serial_encode(Time, r)
      BY <3>3
    <3>5. n \in Nat /\ 2 <= n /\ n <= 31 /\ r = Piece(m_phoneSerial, 0, n)
      <4>1. n \in Nat /\ 2 <= n /\ n <= 31
        BY <3>3
      <4>2. 0 + 1 = 1 /\ 0 + n = n
        BY <4>1
      <4>3. QED
        BY <3>2, <4>1, <4>2, Zenon DEF Piece
    <3>6. PICK s : s = given[Len(given)]
      OBVIOUS
    <3>7. /\ Long(r, n) /\ \A i \in 1..n : r[i] \in Byte
          /\ IsPrefix(s, r)
          /\ (\A k \in 1..Len(given) : Len(given[k]) <= Len(s)) => r = s
      BY <3>1, <3>5, <3>6, SerialFound
    <3>8. sm4_crypt_ecb(sm4_setkey_dec(VerifyKey), sm4_serial_encode(Time, r)) = SerialText(Time, r)
      BY <3>5, <3>7, SerialDecrypted
    <3>9. SerialReceived'
      BY <3>4, <3>8 DEF SerialReceived
    <3>10. SerialSent'
      <4>1. DOMAIN given = 1..Len(given)
        BY DEF ArrayHolds
      <4>2. QED
        BY <3>3, <3>4, <3>6, <3>7, <4>1, Zenon DEF SerialSent
    <3>11. ArrayHolds(m_phoneSerial, given)'
      BY <3>3, Zenon DEF ArrayHolds
    <3>12. QED
      BY <3>9, <3>10, <3>11
  <2>4. CASE DecryptCard
    BY <2>4 DEF DecryptCard, Convert, SerialSent, SerialReceived, ArrayHolds
  <2>5. CASE ShowCard
    BY <2>5 DEF ShowCard, Convert, SerialSent, SerialReceived, ArrayHolds
  <2>6. CASE SendCommand
    BY <2>6 DEF SendCommand, Convert, SerialSent, SerialReceived, ArrayHolds
  <2>7. CASE ReceiveAnswer
    BY <2>7 DEF ReceiveAnswer, Convert, SerialSent, SerialReceived, ArrayHolds
  <2>8. CASE SendMessage
    BY <2>8 DEF SendMessage, Convert, SerialSent, SerialReceived, ArrayHolds
  <2>9. CASE SetLine
    BY <2>9 DEF SetLine, Convert, SerialSent, SerialReceived, ArrayHolds
  <2>10. CASE OpenBoard
    BY <2>10 DEF OpenBoard, Convert, SerialSent, SerialReceived, ArrayHolds
  <2>11. QED
    BY <2>1, <2>2, <2>3, <2>4, <2>5, <2>6, <2>7, <2>8, <2>9, <2>10 DEF Next
<1>3. QED
  BY <1>1, <1>2, PTL DEF Spec

-----------------------------------------------------------------------------
(* The line and the endpoints of a board                                   *)

NearTo(m, n) == (m - n) * 100 \in -n..n

\* The speed that the chip makes of two bytes of index.
ClockOver(x, y, high) == 48000000 \div (PowerOf2[12 - 3 * x - y] * (256 - high))
Divided(low, high) == ClockOver(low % 4, low \div 4, high)

\* The registers of a speed, taken apart again.
LEMMA SpeedRegister ==
  ASSUME NEW low \in 0..7, NEW high \in 0..255, NEW r, r.index = high * 256 + 136 + low
  PROVE  ChipLine(r).baud = Divided(low, high)
<1>1. r.index \div 256 = high /\ r.index % 4 = low % 4
  OBVIOUS
<1>2. (r.index \div 4) % 2 = low \div 4
  OBVIOUS
<1>3. ChipLine(r).baud = ClockOver(r.index % 4, (r.index \div 4) % 2, r.index \div 256)
  BY DEF ChipLine, Line, ClockOver
<1>4. QED
  BY <1>1, <1>2, <1>3, Zenon DEF Divided

\* The divisor of every row of the table is near enough.
LEMMA RowNear ==
  ASSUME NEW row \in OTG_SPEEDS
  PROVE  /\ row[1] \in Nat /\ row[2] \in 0..7 /\ row[3] \in 0..255
         /\ NearTo(Divided(row[2], row[3]), row[1])
BY DEF OTG_SPEEDS, NearTo, Divided, ClockOver, PowerOf2

\* The row that is taken is the one of the speed, or of 9600.
Found(speed) == IF speed \in KnownOTG THEN speed ELSE 9600

LEMMA RowOf ==
  ASSUME NEW speed, NEW row, row = CHOOSE r \in OTG_SPEEDS : r[1] = Found(speed)
  PROVE  row \in OTG_SPEEDS /\ row[1] = Found(speed)
<1>1. \E r \in OTG_SPEEDS : r[1] = Found(speed)
  <2>1. CASE speed \in KnownOTG
    <3>1. Found(speed) = speed
      BY <2>1 DEF Found
    <3>2. QED
      BY <2>1, <3>1, Zenon DEF KnownOTG
  <2>2. CASE speed \notin KnownOTG
    <3>1. <<9600, 2, 178>> \in OTG_SPEEDS /\ <<9600, 2, 178>>[1] = 9600
      BY DEF OTG_SPEEDS
    <3>2. Found(speed) = 9600
      BY <2>2 DEF Found
    <3>3. QED
      BY <3>1, <3>2
  <2>3. QED
    BY <2>1, <2>2
<1>2. QED
  BY <1>1, Zenon

LEMMA ChipSpeed ==
  ASSUME NEW speed, NEW databits, NEW stopbits, NEW parity
  PROVE  NearTo(ChipLine(Registers(speed, databits, stopbits, parity)).baud, Found(speed))
<1>1. PICK row : row = CHOOSE r \in OTG_SPEEDS : r[1] = Found(speed)
  OBVIOUS
<1>2. row \in OTG_SPEEDS /\ row[1] = Found(speed)
  BY <1>1, RowOf, Zenon
<1>3. PICK r : r = Registers(speed, databits, stopbits, parity)
  OBVIOUS
<1>4. r.index = row[3] * 256 + 136 + row[2]
  BY <1>1, <1>3 DEF Registers, Found
<1>5. /\ row[2] \in 0..7 /\ row[3] \in 0..255
      /\ NearTo(Divided(row[2], row[3]), row[1])
  BY <1>2, RowNear
<1>6. ChipLine(r).baud = Divided(row[2], row[3])
  BY <1>4, <1>5, SpeedRegister, Zenon
<1>7. QED
  BY <1>2, <1>3, <1>5, <1>6, Zenon

Parity(parity) == IF parity \notin 1..4 THEN "none"
                  ELSE <<"odd", "even", "mark", "space">>[parity]

IsLine(cable, databits, stopbits, parity) ==
  cable = Line(cable.baud, IF databits < 5 THEN 8 ELSE databits,
               IF stopbits = 2 THEN 2 ELSE 1, Parity(parity))

\* The line that the chip works with is the one that was asked for.
LEMMA ChipSettings ==
  ASSUME NEW speed \in Nat, NEW databits \in 0..8, NEW stopbits \in 0..2,
         NEW parity \in 0..4 \cup {78},
         NEW cable, cable = ChipLine(Registers(speed, databits, stopbits, parity))
  PROVE  IsLine(cable, databits, stopbits, parity)
<1>1. PICK r : r = Registers(speed, databits, stopbits, parity)
  OBVIOUS
<1>2. PICK lcr : lcr = LineControl(databits, stopbits, parity)
  OBVIOUS
<1>3. PICK bits : bits = IF databits \in 5..7 THEN databits - 5 ELSE 3
  OBVIOUS
<1>4. PICK stop : stop = IF stopbits = 2 THEN 1 ELSE 0
  OBVIOUS
<1>5. PICK par : par = CASE parity = 1 -> 1 [] parity = 2 -> 3
                         [] parity = 3 -> 5 [] parity = 4 -> 7 [] OTHER -> 0
  OBVIOUS
<1>6. bits \in 0..3 /\ stop \in 0..1 /\ par \in 0..7
  BY <1>3, <1>4, <1>5
<1>7. lcr = 192 + 8 * par + 4 * stop + bits
  BY <1>2, <1>3, <1>4, <1>5 DEF LineControl
<1>8. r.value = lcr * 256 + 156
  BY <1>1, <1>2 DEF Registers
<1>9. r.value \div 256 = lcr
  BY <1>6, <1>7, <1>8
<1>10. lcr % 4 = bits /\ (lcr \div 4) % 2 = stop /\ (lcr \div 8) % 8 = par
  BY <1>6, <1>7
<1>11. ChipLine(r) =
         Line(ChipLine(r).baud, bits + 5, IF stop = 1 THEN 2 ELSE 1,
              CASE par = 0 -> "none" [] par = 1 -> "odd" [] par = 3 -> "even"
                [] par = 5 -> "mark" [] par = 7 -> "space" [] OTHER -> "off")
  BY <1>9, <1>10 DEF ChipLine, Line
<1>12. bits + 5 = IF databits < 5 THEN 8 ELSE databits
  BY <1>3
<1>13. (IF stop = 1 THEN 2 ELSE 1) = IF stopbits = 2 THEN 2 ELSE 1
  BY <1>4
<1>14. (CASE par = 0 -> "none" [] par = 1 -> "odd" [] par = 3 -> "even"
          [] par = 5 -> "mark" [] par = 7 -> "space" [] OTHER -> "off") = Parity(parity)
  BY <1>5 DEF Parity
<1>15. QED
  BY <1>1, <1>11, <1>12, <1>13, <1>14, Zenon DEF IsLine


\* Cable and port compared, as LineSet does.
LEMMA PortLikeCable ==
  ASSUME NEW speed \in Nat, NEW databits \in 0..8, NEW stopbits \in 0..2,
         NEW parity \in {0, 78}, NEW baud,
         NEW cable, cable = Line(baud, IF databits < 5 THEN 8 ELSE databits,
                                 IF stopbits = 2 THEN 2 ELSE 1, "none")
  PROVE  LET port == SettingPort(speed, databits, stopbits, parity)
         IN port = [cable EXCEPT !.baud = port.baud]
<1>1. PICK port : port = SettingPort(speed, databits, stopbits, parity)
  OBVIOUS
<1>2. port = Line(port.baud, IF databits < 5 THEN 8 ELSE databits,
                  IF stopbits = 2 THEN 2 ELSE 1, "none")
  BY <1>1 DEF SettingPort, Line
<1>3. port = [cable EXCEPT !.baud = port.baud]
  BY <1>2 DEF Line
<1>4. QED
  BY <1>1, <1>3, Zenon

LEMMA PortSpeed ==
  ASSUME NEW speed, NEW databits, NEW stopbits, NEW parity,
         speed \notin {38400, 57600},
         speed \notin KnownOTG \ KnownPort, speed \notin KnownPort \ KnownOTG
  PROVE  SettingPort(speed, databits, stopbits, parity).baud = Found(speed)
<1>1. SettingPort(speed, databits, stopbits, parity).baud =
        IF speed \in {38400, 57600} THEN 19200
         ELSE IF speed \in KnownPort THEN speed ELSE 9600
  BY DEF SettingPort, Line
<1>2. speed \in KnownPort <=> speed \in KnownOTG
  OBVIOUS
<1>3. QED
  BY <1>1, <1>2 DEF Found

\* What LineSet says of a line.
AsAsked(asked, cable, port) ==
  /\ NearTo(cable.baud, IF asked.baud \in KnownOTG THEN asked.baud ELSE 9600)
  /\ cable.bits = IF asked.bits < 5 THEN 8 ELSE asked.bits
  /\ cable.stop = IF asked.stop = 2 THEN 2 ELSE 1
  /\ cable.parity = IF asked.parity \notin 1..4 THEN "none"
                       ELSE <<"odd", "even", "mark", "space">>[asked.parity]
  /\ asked.parity \notin 1..4 =>
       /\ port = [cable EXCEPT !.baud = port.baud]
       /\ \/ asked.baud \in {38400, 57600}
          \/ asked.baud \in KnownOTG \ KnownPort
          \/ asked.baud \in KnownPort \ KnownOTG
          \/ NearTo(cable.baud, port.baud)

LEMMA LineAsAsked ==
  ASSUME NEW speed \in Nat, NEW databits \in 0..8, NEW stopbits \in 0..2,
         NEW parity \in 0..4 \cup {78}, NEW cable, NEW port, NEW asked,
         asked = Line(speed, databits, stopbits, parity),
         port = SettingPort(speed, databits, stopbits, parity),
         NearTo(cable.baud, Found(speed)),
         IsLine(cable, databits, stopbits, parity)
  PROVE  AsAsked(asked, cable, port)
<1>1. /\ asked.baud = speed /\ asked.bits = databits
      /\ asked.stop = stopbits /\ asked.parity = parity
  BY DEF Line
<1>2. PICK baud : baud = cable.baud
  OBVIOUS
<1>3. cable = Line(baud, IF databits < 5 THEN 8 ELSE databits,
                   IF stopbits = 2 THEN 2 ELSE 1, Parity(parity))
  BY <1>2, Zenon DEF IsLine
<1>4. /\ cable.bits = IF databits < 5 THEN 8 ELSE databits
      /\ cable.stop = IF stopbits = 2 THEN 2 ELSE 1
      /\ cable.parity = Parity(parity)
  BY <1>3 DEF Line
<1>5. NearTo(cable.baud, IF asked.baud \in KnownOTG THEN asked.baud ELSE 9600)
  BY <1>1 DEF Found
<1>6. ASSUME asked.parity \notin 1..4
      PROVE  /\ port = [cable EXCEPT !.baud = port.baud]
             /\ \/ asked.baud \in {38400, 57600}
                \/ asked.baud \in KnownOTG \ KnownPort
                \/ asked.baud \in KnownPort \ KnownOTG
                \/ NearTo(cable.baud, port.baud)
  <2>1. parity \in {0, 78} /\ Parity(parity) = "none"
    BY <1>1, <1>6 DEF Parity
  <2>2. port = [cable EXCEPT !.baud = port.baud]
    BY <1>3, <2>1, PortLikeCable
  <2>3. CASE speed \in {38400, 57600} \/ speed \in KnownOTG \ KnownPort \/ speed \in KnownPort \ KnownOTG
    BY <1>1, <2>2, <2>3
  <2>4. CASE ~(speed \in {38400, 57600} \/ speed \in KnownOTG \ KnownPort \/ speed \in KnownPort \ KnownOTG)
    <3>1. port.baud = Found(speed)
      BY <2>4, PortSpeed
    <3>2. QED
      BY <2>2, <3>1
  <2>5. QED
    BY <2>3, <2>4
<1>7. QED
  <2>1. Parity(parity) = IF asked.parity \notin 1..4 THEN "none"
                           ELSE <<"odd", "even", "mark", "space">>[asked.parity]
    BY <1>1, Zenon DEF Parity
  <2>2. QED
    BY <1>1, <1>4, <1>5, <1>6, <2>1 DEF AsAsked

LEMMA TheFirst ==
  ASSUME NEW S, S \subseteq Int, NEW m \in S, \A y \in S : m <= y
  PROVE  Min(S) = m
<1>1. \E x \in S : \A y \in S : x <= y
  OBVIOUS
<1>2. Min(S) \in S /\ \A y \in S : Min(S) <= y
  BY <1>1 DEF Min
<1>3. Min(S) \in Int /\ m \in Int /\ Min(S) <= m /\ m <= Min(S)
  BY <1>2
<1>4. QED
  BY <1>3

LEMMA TheLast ==
  ASSUME NEW S, S \subseteq Int, NEW m \in S, \A y \in S : m >= y
  PROVE  Max(S) = m
<1>1. \E x \in S : \A y \in S : x >= y
  OBVIOUS
<1>2. Max(S) \in S /\ \A y \in S : Max(S) >= y
  BY <1>1 DEF Max
<1>3. Max(S) \in Int /\ m \in Int /\ Max(S) >= m /\ m >= Max(S)
  BY <1>2
<1>4. QED
  BY <1>3

EnoughIn(descs, p) ==
  /\ \E i \in 1..p : descs[i].type = "interface"
  /\ \E i, j \in {k \in 1..p : IsEndpoint(descs[k])} : i # j

\* The loop ends with the second endpoint.
LEMMA LookedUpTo ==
  ASSUME NEW n \in Nat, NEW descs, Len(descs) = n,
         NEW i \in 1..n, NEW a \in 1..n, NEW b \in 1..n, FirstPair(descs, i, a, b)
  PROVE  Looked(descs) = b
<1>1. PICK S : S = {p \in 1..n : EnoughIn(descs, p)} \cup {n}
  OBVIOUS
<1>2. Looked(descs) = Min(S)
  BY <1>1, Zenon DEF Looked, EnoughIn, IsEndpoint
<1>3. S \subseteq Int
  BY <1>1
<1>4. b \in S
  <2>1. IsEndpoint(descs[a]) /\ IsEndpoint(descs[b]) /\ descs[i].type = "interface"
    BY DEF FirstPair, IsEndpoint
  <2>2. i \in 1..b /\ a \in 1..b /\ b \in 1..b /\ a # b
    BY DEF FirstPair
  <2>3. EnoughIn(descs, b)
    BY <2>1, <2>2, Zenon DEF EnoughIn
  <2>4. QED
    BY <1>1, <2>3, Zenon
<1>5. ASSUME NEW p \in S PROVE b <= p
  <2>1. CASE p = n
    BY <2>1
  <2>2. CASE p \in 1..n /\ EnoughIn(descs, p)
    <3>1. PICK j \in 1..p, k \in 1..p : IsEndpoint(descs[j]) /\ IsEndpoint(descs[k]) /\ j # k
      BY <2>2, Zenon DEF EnoughIn
    <3>2. CASE p < b
      <4>1. j \in 1..b /\ k \in 1..b
        BY <2>2, <3>2
      <4>2. j \in {a, b} /\ k \in {a, b}
        BY <3>1, <4>1 DEF FirstPair
      <4>3. QED
        BY <3>1, <3>2, <4>2, <2>2
    <3>3. QED
      BY <2>2, <3>2
  <2>3. QED
    BY <1>1, <2>1, <2>2
<1>6. QED
  BY <1>2, <1>3, <1>4, <1>5, TheFirst

\* What is taken is the pair and its interface.
LEMMA PairTaken ==
  ASSUME NEW n \in Nat, NEW descs, Len(descs) = n,
         NEW i \in 1..n, NEW a \in 1..n, NEW b \in 1..n, FirstPair(descs, i, a, b)
  PROVE  EndpointsOf(descs) =
           [interface |-> descs[i].number,
            rd |-> IF descs[a].type = "in" THEN descs[a] ELSE descs[b],
            wr |-> IF descs[a].type = "in" THEN descs[b] ELSE descs[a]]
<1>1. Looked(descs) = b
  BY LookedUpTo
<1>2. PICK eps : eps = {k \in 1..b : descs[k].type \in {"in", "out"}}
  OBVIOUS
<1>3. PICK ints : ints = {k \in 1..b : descs[k].type = "interface"}
  OBVIOUS
<1>4. EndpointsOf(descs) =
        [interface |-> descs[Max(ints)].number,
         rd |-> IF descs[Min(eps)].type = "in" THEN descs[Min(eps)] ELSE descs[Max(eps)],
         wr |-> IF descs[Min(eps)].type = "in" THEN descs[Max(eps)] ELSE descs[Min(eps)]]
  BY <1>1, <1>2, <1>3, Zenon DEF EndpointsOf
<1>5. a \in eps /\ b \in eps /\ \A k \in eps : k = a \/ k = b
  BY <1>2 DEF FirstPair, IsEndpoint
<1>6. eps \subseteq Int /\ ints \subseteq Int /\ a < b
  BY <1>2, <1>3 DEF FirstPair
<1>7. Min(eps) = a
  <2>1. \A k \in eps : a <= k
    BY <1>5, <1>6
  <2>2. QED
    BY <1>5, <1>6, <2>1, TheFirst
<1>8. Max(eps) = b
  <2>1. \A k \in eps : b >= k
    BY <1>5, <1>6
  <2>2. QED
    BY <1>5, <1>6, <2>1, TheLast
<1>9. Max(ints) = i
  <2>1. i \in ints
    BY <1>3 DEF FirstPair
  <2>2. ASSUME NEW k \in ints PROVE i >= k
    BY <1>3, <2>2 DEF FirstPair
  <2>3. QED
    BY <1>6, <2>1, <2>2, TheLast
<1>10. QED
  BY <1>4, <1>7, <1>8, <1>9, Zenon

OwnerIn(descs, ep) ==
  LET at == Min({i \in DOMAIN descs : descs[i] = ep})
  IN descs[Max({i \in 1..at : descs[i].type = "interface"})].number

\* Both endpoints of the pair belong to its interface.
LEMMA PairOwned ==
  ASSUME NEW n \in Nat, NEW descs, DOMAIN descs = 1..n,
         NEW i \in 1..n, NEW a \in 1..n, NEW b \in 1..n, FirstPair(descs, i, a, b),
         NEW e \in {a, b}
  PROVE  OwnerIn(descs, descs[e]) = descs[i].number
<1>1. PICK same : same = {k \in DOMAIN descs : descs[k] = descs[e]}
  OBVIOUS
<1>2. same \subseteq Int /\ e \in same /\ e \in 1..b /\ i < e
  BY <1>1 DEF FirstPair
<1>3. ASSUME NEW k \in same PROVE e <= k
  <2>1. k \in 1..n /\ descs[k] = descs[e]
    BY <1>1
  <2>2. IsEndpoint(descs[k]) /\ descs[a] # descs[b]
    BY <2>1 DEF FirstPair, IsEndpoint
  <2>3. CASE k \in 1..b
    <3>1. k \in {a, b}
      BY <2>2, <2>3 DEF FirstPair
    <3>2. QED
      BY <2>1, <2>2, <3>1
  <2>4. CASE k \notin 1..b
    BY <1>2, <2>1, <2>4
  <2>5. QED
    BY <2>3, <2>4
<1>4. Min(same) = e
  BY <1>2, <1>3, TheFirst
<1>5. PICK ints : ints = {k \in 1..e : descs[k].type = "interface"}
  OBVIOUS
<1>6. OwnerIn(descs, descs[e]) = descs[Max(ints)].number
  BY <1>1, <1>4, <1>5, Zenon DEF OwnerIn
<1>7. Max(ints) = i
  <2>1. i \in ints /\ ints \subseteq Int
    BY <1>2, <1>5 DEF FirstPair
  <2>2. ASSUME NEW k \in ints PROVE i >= k
    BY <1>2, <1>5, <2>2 DEF FirstPair
  <2>3. QED
    BY <2>1, <2>2, TheLast
<1>8. QED
  BY <1>6, <1>7, Zenon

\* Every board has its line set as asked and its endpoints found.
THEOREM BoardAlwaysSetUp == Spec => []BoardSetUp
<1> USE DEF BoardSetUp
<1>1. Init => BoardSetUp
  BY DEF Init, LineSet, EndpointsFound
<1>2. BoardSetUp /\ [Next]_vars => BoardSetUp'
  <2> SUFFICES ASSUME BoardSetUp, [Next]_vars PROVE BoardSetUp'
    OBVIOUS
  <2>1. CASE UNCHANGED vars
    BY <2>1 DEF vars, LineSet, EndpointsFound
  <2>2. CASE SetLine
    <3>1. PICK speed \in Speeds, databits \in 0..8, stopbits \in 0..2, parity \in 0..4 \cup {78} :
            Convert([of |-> "line", asked |-> Line(speed, databits, stopbits, parity),
                     cable |-> ChipLine(Registers(speed, databits, stopbits, parity)),
                     port |-> SettingPort(speed, databits, stopbits, parity)])
      BY <2>2 DEF SetLine
    <3>2. PICK cable : cable = ChipLine(Registers(speed, databits, stopbits, parity))
      OBVIOUS
    <3>3. PICK port : port = SettingPort(speed, databits, stopbits, parity)
      OBVIOUS
    <3>4. /\ last'.of = "line" /\ last'.cable = cable /\ last'.port = port
          /\ last'.asked = Line(speed, databits, stopbits, parity)
      BY <3>1, <3>2, <3>3 DEF Convert
    <3>5. speed \in Nat
      BY SpeedsAssumption
    <3>6. NearTo(cable.baud, Found(speed))
      BY <3>2, ChipSpeed
    <3>7. IsLine(cable, databits, stopbits, parity)
      BY <3>2, <3>5, ChipSettings
    <3>8. LineSet'
      <4>1. PICK asked : asked = Line(speed, databits, stopbits, parity)
        OBVIOUS
      <4>2. last'.asked = asked
        BY <3>4, <4>1
      <4>3. AsAsked(asked, cable, port)
        BY <3>3, <3>5, <3>6, <3>7, <4>1, LineAsAsked
      <4>4. QED
        BY <3>4, <4>2, <4>3 DEF LineSet, AsAsked, NearTo
    <3>9. EndpointsFound'
      BY <3>4 DEF EndpointsFound
    <3>10. QED
      BY <3>8, <3>9
  <2>3. CASE OpenBoard
    <3>1. PICK descs \in Boards :
            Convert([of |-> "board", descs |-> descs, got |-> EndpointsOf(descs)])
      BY <2>3 DEF OpenBoard
    <3>2. PICK got : got = EndpointsOf(descs)
      OBVIOUS
    <3>3. last'.of = "board" /\ last'.descs = descs /\ last'.got = got
      BY <3>1, <3>2 DEF Convert
    <3>4. PICK n \in Nat : Len(descs) = n /\ DOMAIN descs = 1..n
      BY BoardsAssumption
    <3>5. PICK i \in 1..n, a \in 1..n, b \in 1..n : FirstPair(descs, i, a, b)
      BY <3>4, BoardsAssumption
    <3>6. got = [interface |-> descs[i].number,
                 rd |-> IF descs[a].type = "in" THEN descs[a] ELSE descs[b],
                 wr |-> IF descs[a].type = "in" THEN descs[b] ELSE descs[a]]
      BY <3>2, <3>4, <3>5, PairTaken
    <3>7. /\ OwnerIn(descs, descs[a]) = descs[i].number
          /\ OwnerIn(descs, descs[b]) = descs[i].number
      BY <3>4, <3>5, PairOwned
    <3>8. /\ got.rd.type = "in" /\ got.wr.type = "out" /\ got.interface = descs[i].number
          /\ got.rd \in {descs[a], descs[b]} /\ got.wr \in {descs[a], descs[b]}
      BY <3>5, <3>6 DEF FirstPair
    <3>9. OwnerIn(descs, got.rd) = got.interface /\ OwnerIn(descs, got.wr) = got.interface
      BY <3>7, <3>8
    <3>10. EndpointsFound'
      BY <3>3, <3>8, <3>9, Zenon DEF EndpointsFound, OwnerIn
    <3>11. LineSet'
      BY <3>3 DEF LineSet
    <3>12. QED
      BY <3>10, <3>11
  <2>4. CASE \E s \in Serials : SetPhoneSerial(s)
    BY <2>4 DEF SetPhoneSerial, LineSet, EndpointsFound
  <2>5. CASE SendSerial
    BY <2>5 DEF SendSerial, LineSet, EndpointsFound
  <2>6. CASE DecryptCard
    BY <2>6 DEF DecryptCard, Convert, LineSet, EndpointsFound
  <2>7. CASE ShowCard
    BY <2>7 DEF ShowCard, Convert, LineSet, EndpointsFound
  <2>8. CASE SendCommand
    BY <2>8 DEF SendCommand, Convert, LineSet, EndpointsFound
  <2>9. CASE ReceiveAnswer
    BY <2>9 DEF ReceiveAnswer, Convert, LineSet, EndpointsFound
  <2>10. CASE SendMessage
    BY <2>10 DEF SendMessage, Convert, LineSet, EndpointsFound
  <2>11. QED
    BY <2>1, <2>2, <2>3, <2>4, <2>5, <2>6, <2>7, <2>8, <2>9, <2>10 DEF Next
<1>3. QED
  BY <1>1, <1>2, PTL DEF Spec

-----------------------------------------------------------------------------
(* The fields of a card: where they are written, and where they are read   *)

First(f) == JavaPart[f][1]
Size(f)  == JavaPart[f][2] - JavaPart[f][1] + 1

\* The place of each member: eight of them are read.
LEMMA Starts ==
  /\ MemberStart[1] = 0 /\ MemberStart[2] = 38 /\ MemberStart[3] = 70
  /\ MemberStart[4] = 74 /\ MemberStart[5] = 80 /\ MemberStart[6] = 98
  /\ MemberStart[7] = 190 /\ MemberStart[8] = 282
<1>1. Len(MsgMembers) = 10
  BY DEF MsgMembers
<1>2. PICK size : size = <<38, 32, 4, 6, 18, 92, 92, 40, 1024, 16>>
  OBVIOUS
<1>3. \A k \in 1..10 : MsgMembers[k][2] = size[k]
  BY <1>2 DEF MsgMembers
<1>4. PICK g : g = [k \in 1..10 |-> <<0, 38, 70, 74, 80, 98, 190, 282, 322, 1346>>[k]]
  OBVIOUS
<1>5. g = [k \in 1..10 |-> IF k = 1 THEN 0 ELSE g[k - 1] + MsgMembers[k - 1][2]]
  <2>1. ASSUME NEW k \in 2..10 PROVE g[k] = g[k - 1] + size[k - 1]
    BY <1>2, <1>4
  <2>2. ASSUME NEW k \in 1..10
        PROVE  g[k] = IF k = 1 THEN 0 ELSE g[k - 1] + MsgMembers[k - 1][2]
    <3>1. CASE k = 1
      BY <1>4, <3>1
    <3>2. CASE k # 1
      <4>1. k \in 2..10 /\ k - 1 \in 1..10
        BY <3>2
      <4>2. MsgMembers[k - 1][2] = size[k - 1]
        BY <1>3, <4>1
      <4>3. QED
        BY <2>1, <3>2, <4>1, <4>2
    <3>3. QED
      BY <3>1, <3>2
  <2>3. QED
    BY <1>4, <2>2
<1>6. MemberStart = [k \in 1..10 |-> IF k = 1 THEN 0 ELSE MemberStart[k - 1] + MsgMembers[k - 1][2]]
  BY <1>1, <1>5 DEF MemberStart
<1>7. PICK s : s = MemberStart
  OBVIOUS
<1>8. \A k \in 1..10 : s[k] = IF k = 1 THEN 0 ELSE s[k - 1] + MsgMembers[k - 1][2]
  BY <1>6, <1>7
<1>9. s[1] = 0
  BY <1>8
<1>10. ASSUME NEW k \in 1..9 PROVE s[k + 1] = s[k] + size[k]
  <2>1. k + 1 \in 1..10 /\ k + 1 # 1 /\ (k + 1) - 1 = k /\ k \in 1..10
    OBVIOUS
  <2>2. QED
    BY <1>3, <1>8, <2>1
<1>11. s[2] = s[1] + 38 /\ s[3] = s[2] + 32 /\ s[4] = s[3] + 4 /\ s[5] = s[4] + 6
  BY <1>2, <1>10
<1>12. s[6] = s[5] + 18 /\ s[7] = s[6] + 92 /\ s[8] = s[7] + 92
  BY <1>2, <1>10
<1>13. QED
  BY <1>7, <1>9, <1>11, <1>12

\* The place that Java reads a field from is the one that it is written to.
LEMMA SamePlace ==
  ASSUME NEW f \in FieldNames
  PROVE  MsgOffset(f) = First(f)
<1>1. f \in {"name", "sex", "nation", "birth", "address", "number", "authority", "period"}
  BY DEF FieldNames, CardPart
<1>2. Len(MsgMembers) = 10
  BY DEF MsgMembers
<1>3. PICK k : k = CHOOSE j \in 1..10 : MsgMembers[j][1] = f
  OBVIOUS
<1>4. MsgOffset(f) = MemberStart[k]
  BY <1>2, <1>3 DEF MsgOffset
<1>5. /\ MsgMembers[1][1] = "number" /\ MsgMembers[2][1] = "name" /\ MsgMembers[3][1] = "sex"
      /\ MsgMembers[4][1] = "nation" /\ MsgMembers[5][1] = "birth"
      /\ MsgMembers[6][1] = "address" /\ MsgMembers[7][1] = "authority"
      /\ MsgMembers[8][1] = "period" /\ MsgMembers[9][1] = "photo" /\ MsgMembers[10][1] = "dn"
  BY DEF MsgMembers
<1>6. \E j \in 1..10 : MsgMembers[j][1] = f
  BY <1>1, <1>5
<1>7. k \in 1..10 /\ MsgMembers[k][1] = f
  BY <1>3, <1>6
<1>8. k # 9 /\ k # 10
  BY <1>1, <1>5, <1>7
<1>9. CASE k = 1
  <2>1. f = "number"
    BY <1>5, <1>7, <1>9
  <2>2. QED
    BY <1>4, <1>9, <2>1, Starts DEF First, JavaPart
<1>10. CASE k = 2
  <2>1. f = "name"
    BY <1>5, <1>7, <1>10
  <2>2. QED
    BY <1>4, <1>10, <2>1, Starts DEF First, JavaPart
<1>11. CASE k = 3
  <2>1. f = "sex"
    BY <1>5, <1>7, <1>11
  <2>2. QED
    BY <1>4, <1>11, <2>1, Starts DEF First, JavaPart
<1>12. CASE k = 4
  <2>1. f = "nation"
    BY <1>5, <1>7, <1>12
  <2>2. QED
    BY <1>4, <1>12, <2>1, Starts DEF First, JavaPart
<1>13. CASE k = 5
  <2>1. f = "birth"
    BY <1>5, <1>7, <1>13
  <2>2. QED
    BY <1>4, <1>13, <2>1, Starts DEF First, JavaPart
<1>14. CASE k = 6
  <2>1. f = "address"
    BY <1>5, <1>7, <1>14
  <2>2. QED
    BY <1>4, <1>14, <2>1, Starts DEF First, JavaPart
<1>15. CASE k = 7
  <2>1. f = "authority"
    BY <1>5, <1>7, <1>15
  <2>2. QED
    BY <1>4, <1>15, <2>1, Starts DEF First, JavaPart
<1>16. CASE k = 8
  <2>1. f = "period"
    BY <1>5, <1>7, <1>16
  <2>2. QED
    BY <1>4, <1>16, <2>1, Starts DEF First, JavaPart
<1>17. QED
  BY <1>7, <1>8, <1>9, <1>10, <1>11, <1>12, <1>13, <1>14, <1>15, <1>16

\* The fields that Java reads are apart.
LEMMA Apart ==
  ASSUME NEW f \in FieldNames, NEW g \in FieldNames, f # g
  PROVE  /\ First(f) \in Nat /\ Size(f) \in Nat
         /\ First(f) + Size(f) <= First(g) \/ First(g) + Size(g) <= First(f)
         /\ f # "period" => First(f) < First("period")
BY DEF FieldNames, CardPart, First, Size, JavaPart

\* What is copied to a member does not reach the next one; behind the period
\* is nothing that Java reads.
Copies(msg, D, N) ==
  /\ msg = {<<First(f), D[f]>> : f \in FieldNames}
  /\ \A f \in FieldNames : Long(D[f], N[f]) /\ N[f] \in Nat /\ (N[f] <= Size(f) \/ f = "period")

LEMMA ByteRead ==
  ASSUME NEW msg, NEW D, NEW N, Copies(msg, D, N), NEW f \in FieldNames,
         NEW k \in Nat, k < Size(f)
  PROVE  MsgByte(msg, First(f) + k) = IF k < N[f] THEN D[f][k + 1] ELSE 0
<1>1. PICK i : i = First(f) + k
  OBVIOUS
<1>2. PICK here : here = {w \in msg : i - w[1] \in 0..(Len(w[2]) - 1)}
  OBVIOUS
<1>3. PICK copy : copy = CHOOSE w \in here : TRUE
  OBVIOUS
<1>4. MsgByte(msg, i) = IF here = {} THEN 0 ELSE copy[2][i - copy[1] + 1]
  BY <1>2, <1>3 DEF MsgByte
<1>5. First(f) \in Nat /\ Size(f) \in Nat
  BY DEF FieldNames, CardPart, First, Size, JavaPart
<1>6. ASSUME NEW g \in FieldNames PROVE Len(D[g]) = N[g] /\ N[g] \in Nat
  BY DEF Copies, Long
<1>7. ASSUME NEW w \in here PROVE w = <<First(f), D[f]>> /\ k < N[f]
  <2>1. PICK g \in FieldNames : w = <<First(g), D[g]>>
    BY <1>2 DEF Copies
  <2>2. i - First(g) \in 0..(N[g] - 1)
    BY <1>2, <1>6, <2>1
  <2>3. CASE g = f
    BY <1>1, <1>5, <1>6, <2>1, <2>2, <2>3
  <2>4. CASE g # f
    <3>1. /\ First(g) \in Nat /\ Size(g) \in Nat
          /\ First(f) + Size(f) <= First(g) \/ First(g) + Size(g) <= First(f)
          /\ f # "period" => First(f) < First("period")
          /\ g = "period" => First(f) + Size(f) <= First(g)
      BY <2>4, Apart
    <3>2. N[g] \in Nat /\ (N[g] <= Size(g) \/ g = "period")
      BY <1>6 DEF Copies
    <3>3. QED
      BY <1>1, <1>5, <2>2, <3>1, <3>2
  <2>5. QED
    BY <2>3, <2>4
<1>8. CASE k < N[f]
  <2>1. PICK w : w = <<First(f), D[f]>>
    OBVIOUS
  <2>2. w \in msg /\ w[1] = First(f) /\ w[2] = D[f]
    BY <2>1 DEF Copies
  <2>3. i - w[1] \in 0..(Len(w[2]) - 1)
    BY <1>1, <1>5, <1>6, <1>8, <2>2
  <2>4. w \in here
    BY <1>2, <2>2, <2>3
  <2>5. copy \in here
    BY <1>3, <2>4
  <2>6. copy = w
    BY <1>7, <2>1, <2>5
  <2>7. here # {} /\ i - copy[1] + 1 = k + 1
    BY <1>1, <1>5, <2>2, <2>4, <2>6
  <2>8. QED
    BY <1>1, <1>4, <1>8, <2>2, <2>6, <2>7
<1>9. CASE ~(k < N[f])
  <2>1. here = {}
    BY <1>7, <1>9
  <2>2. QED
    BY <1>1, <1>4, <1>9, <2>1
<1>10. QED
  BY <1>8, <1>9

\* The characters that are made of some bytes and of zeros behind them.
ByteAt(bytes, n, i) == IF i <= n THEN bytes[i] ELSE 0
Characters(bytes, n, size) ==
  [j \in 1..(size \div 2) |-> ByteAt(bytes, n, 2 * j - 1) + 256 * ByteAt(bytes, n, 2 * j)]

LEMMA TextRead ==
  ASSUME NEW msg, NEW D, NEW N, Copies(msg, D, N), NEW f \in FieldNames
  PROVE  JavaText(f, msg) = Characters(D[f], N[f], Size(f))
<1>1. First(f) \in Nat /\ Size(f) \in Nat /\ N[f] \in Nat
  BY DEF FieldNames, CardPart, First, Size, JavaPart, Copies
<1>2. PICK n : n = Size(f)
  OBVIOUS
<1>3. PICK bytes : bytes = [i \in 1..n |-> MsgByte(msg, First(f) + i - 1)]
  OBVIOUS
<1>4. JavaText(f, msg) = Byte2Unicode(bytes)
  BY <1>2, <1>3, Zenon DEF JavaText, First, Size
<1>5. ASSUME NEW i \in 1..n PROVE bytes[i] = ByteAt(D[f], N[f], i)
  <2>1. PICK k \in Nat : k = i - 1 /\ k < Size(f) /\ k + 1 = i
    BY <1>1, <1>2
  <2>2. First(f) + i - 1 = First(f) + k
    BY <1>1, <2>1
  <2>3. MsgByte(msg, First(f) + k) = IF k < N[f] THEN D[f][k + 1] ELSE 0
    BY <2>1, ByteRead
  <2>4. bytes[i] = MsgByte(msg, First(f) + k)
    BY <1>3, <2>2
  <2>5. k < N[f] <=> i <= N[f]
    BY <1>1, <2>1
  <2>6. QED
    BY <2>1, <2>3, <2>4, <2>5 DEF ByteAt
<1>6. Len(bytes) = n
  BY <1>1, <1>2, <1>3
<1>7. ASSUME NEW j \in 1..(n \div 2)
      PROVE  bytes[2 * j - 1] + 256 * bytes[2 * j] =
               ByteAt(D[f], N[f], 2 * j - 1) + 256 * ByteAt(D[f], N[f], 2 * j)
  <2>1. 2 * j - 1 \in 1..n /\ 2 * j \in 1..n
    BY <1>1, <1>2
  <2>2. QED
    BY <1>5, <2>1
<1>8. Byte2Unicode(bytes) = [j \in 1..(n \div 2) |-> bytes[2 * j - 1] + 256 * bytes[2 * j]]
  BY <1>6, Zenon DEF Byte2Unicode
<1>9. QED
  BY <1>2, <1>4, <1>7, <1>8 DEF Characters

IsChars(chars, n) == Long(chars, n) /\ \A i \in 1..n : 0 < chars[i] /\ chars[i] < 65536

\* Two bytes of each character.
LEMMA BytesOf ==
  ASSUME NEW n \in Nat, NEW chars, IsChars(chars, n)
  PROVE  /\ Long(Bytes16(chars), 2 * n)
         /\ \A k \in 1..n : /\ Bytes16(chars)[2 * k - 1] = chars[k] % 256
                            /\ Bytes16(chars)[2 * k] = chars[k] \div 256
<1>1. PICK m \in Nat : m = 2 * n
  OBVIOUS
<1>2. Len(chars) = n
  BY DEF IsChars, Long
<1>3. PICK w : w = Bytes16(chars)
  OBVIOUS
<1>4. w = [i \in 1..m |-> IF i % 2 = 1 THEN chars[(i + 1) \div 2] % 256 ELSE chars[(i + 1) \div 2] \div 256]
  BY <1>1, <1>2, <1>3 DEF Bytes16
<1>5. ASSUME NEW i \in 1..m PROVE w[i] \in Int
  <2>1. (i + 1) \div 2 \in 1..n
    BY <1>1
  <2>2. PICK c \in Int : c = chars[(i + 1) \div 2]
    BY <2>1 DEF IsChars, Long
  <2>3. w[i] = IF i % 2 = 1 THEN c % 256 ELSE c \div 256
    BY <1>4, <2>2
  <2>4. QED
    BY <2>2, <2>3
<1>6. ASSUME NEW k \in 1..n
      PROVE  w[2 * k - 1] = chars[k] % 256 /\ w[2 * k] = chars[k] \div 256
  <2>1. PICK i \in 1..m : i = 2 * k - 1 /\ i % 2 = 1 /\ (i + 1) \div 2 = k
    BY <1>1
  <2>2. PICK j \in 1..m : j = 2 * k /\ j % 2 # 1 /\ (j + 1) \div 2 = k
    BY <1>1
  <2>3. w[i] = chars[k] % 256
    BY <1>4, <2>1
  <2>4. w[j] = chars[k] \div 256
    BY <1>4, <2>2
  <2>5. QED
    BY <2>1, <2>2, <2>3, <2>4
<1>7. w \in [1..m -> Int]
  BY <1>4, <1>5
<1>8. Long(w, m)
  BY <1>7, FunctionLong
<1>9. QED
  BY <1>1, <1>3, <1>6, <1>8

\* The characters of a text of which the first bytes are there.
LEMMA CutText ==
  ASSUME NEW n \in Nat, NEW chars, IsChars(chars, n), NEW size \in Nat, NEW m \in Nat,
         m <= 2 * n, NEW bytes, \A i \in 1..m : bytes[i] = Bytes16(chars)[i],
         NEW j \in 1..(size \div 2)
  PROVE  /\ 2 * j <= m => Characters(bytes, m, size)[j] = chars[j]
         /\ 2 * j - 1 = m => Characters(bytes, m, size)[j] = chars[j] % 256
         /\ 2 * j - 1 > m => Characters(bytes, m, size)[j] = 0
<1>1. PICK w : w = Bytes16(chars)
  OBVIOUS
<1>2. \A k \in 1..n : w[2 * k - 1] = chars[k] % 256 /\ w[2 * k] = chars[k] \div 256
  BY <1>1, BytesOf
<1>3. Characters(bytes, m, size)[j] = ByteAt(bytes, m, 2 * j - 1) + 256 * ByteAt(bytes, m, 2 * j)
  BY DEF Characters
<1>4. \A i \in 1..m : bytes[i] = w[i]
  BY <1>1
<1>5. CASE 2 * j <= m
  <2>1. j \in 1..n /\ 2 * j \in 1..m /\ 2 * j - 1 \in 1..m
    BY <1>5
  <2>2. bytes[2 * j - 1] = chars[j] % 256 /\ bytes[2 * j] = chars[j] \div 256
    BY <1>2, <1>4, <2>1
  <2>3. PICK c \in Int : c = chars[j]
    BY <2>1 DEF IsChars, Long
  <2>4. ByteAt(bytes, m, 2 * j - 1) = c % 256 /\ ByteAt(bytes, m, 2 * j) = c \div 256
    BY <1>5, <2>1, <2>2, <2>3 DEF ByteAt
  <2>5. (c % 256) + 256 * (c \div 256) = c
    BY <2>3
  <2>6. QED
    BY <1>3, <1>5, <2>3, <2>4, <2>5
<1>6. CASE 2 * j - 1 = m
  <2>1. j \in 1..n /\ 2 * j - 1 \in 1..m
    BY <1>6
  <2>2. bytes[2 * j - 1] = chars[j] % 256
    BY <1>2, <1>4, <2>1
  <2>3. PICK c \in Int : c = chars[j]
    BY <2>1 DEF IsChars, Long
  <2>4. ByteAt(bytes, m, 2 * j - 1) = c % 256 /\ ByteAt(bytes, m, 2 * j) = 0
    BY <1>6, <2>1, <2>2, <2>3 DEF ByteAt
  <2>5. QED
    BY <1>3, <1>6, <2>3, <2>4
<1>7. CASE 2 * j - 1 > m
  <2>1. ByteAt(bytes, m, 2 * j - 1) = 0 /\ ByteAt(bytes, m, 2 * j) = 0
    BY <1>7 DEF ByteAt
  <2>2. QED
    BY <1>3, <1>7, <2>1
<1>8. QED
  BY <1>5, <1>6, <1>7

LEMMA CharactersLong ==
  ASSUME NEW n \in Nat, NEW chars, IsChars(chars, n), NEW size \in Nat, NEW m \in Nat,
         m <= 2 * n, NEW bytes, \A i \in 1..m : bytes[i] = Bytes16(chars)[i]
  PROVE  Long(Characters(bytes, m, size), size \div 2)
<1>1. PICK h \in Nat : h = size \div 2
  OBVIOUS
<1>2. PICK t : t = Characters(bytes, m, size)
  OBVIOUS
<1>3. ASSUME NEW j \in 1..h PROVE t[j] \in Int
  <2>1. /\ 2 * j <= m => t[j] = chars[j]
        /\ 2 * j - 1 = m => t[j] = chars[j] % 256
        /\ 2 * j - 1 > m => t[j] = 0
    BY <1>1, <1>2, CutText
  <2>2. 2 * j <= m + 1 => chars[j] \in Int
    <3>1. SUFFICES ASSUME 2 * j <= m + 1 PROVE j \in 1..n
      BY DEF IsChars, Long
    <3>2. QED
      BY <3>1
  <2>3. QED
    BY <2>1, <2>2
<1>4. t = [j \in 1..h |-> t[j]]
  BY <1>1, <1>2 DEF Characters
<1>5. t \in [1..h -> Int]
  BY <1>3, <1>4
<1>6. QED
  BY <1>1, <1>2, <1>5, FunctionLong

\* A sequence up to the last of some of its places.
Ending(text, real) == IF real = {} THEN <<>> ELSE SubSeq(text, 1, Max(real))

LEMMA EndsAt ==
  ASSUME NEW m \in Nat, NEW text, Long(text, m), NEW real, real \subseteq 1..m,
         NEW n \in Nat, n <= m, n > 0 => n \in real, \A i \in real : i <= n
  PROVE  Ending(text, real) = Piece(text, 0, n)
<1>1. CASE n = 0
  <2>1. real = {}
    BY <1>1
  <2>2. Long(Piece(text, 0, n), n)
    BY Cut
  <2>3. Piece(text, 0, n) = <<>>
    BY <1>1, <2>2 DEF Long
  <2>4. QED
    BY <2>1, <2>3 DEF Ending
<1>2. CASE n > 0
  <2>1. Max(real) = n
    <3>1. real \subseteq Int /\ \A i \in real : n >= i
      OBVIOUS
    <3>2. QED
      BY <1>2, <3>1, TheLast
  <2>2. 0 + 1 = 1 /\ 0 + n = n /\ real # {}
    BY <1>2
  <2>3. QED
    BY <2>1, <2>2, Zenon DEF Ending, Piece
<1>3. QED
  BY <1>1, <1>2

\* Some numbers up to n have a last one.
LEMMA LastIn ==
  ASSUME NEW n \in Nat, NEW S, S \subseteq 1..n
  PROVE  \E m \in 0..n : (m > 0 => m \in S) /\ \A i \in S : i <= m
<1>1. CASE S = {}
  BY <1>1
<1>2. CASE S # {}
  <2>1. PICK R : R = {k \in 0..n : n - k \in S}
    OBVIOUS
  <2>2. R \subseteq Nat /\ R # {}
    <3>1. PICK i \in S : TRUE
      BY <1>2
    <3>2. PICK j \in 0..n : j = n - i /\ n - j = i
      BY <3>1
    <3>3. j \in R
      BY <2>1, <3>1, <3>2
    <3>4. R \subseteq Nat
      BY <2>1
    <3>5. QED
      BY <3>3, <3>4
  <2>3. Least(Min(R), R)
    BY <2>2, MinIs
  <2>4. PICK k \in 0..n : n - k \in S /\ \A j \in R : k <= j
    BY <2>1, <2>3 DEF Least
  <2>5. ASSUME NEW i \in S PROVE i <= n - k
    <3>1. n - i \in 0..n /\ n - (n - i) = i
      OBVIOUS
    <3>2. n - i \in R
      BY <2>1, <3>1
    <3>3. QED
      BY <2>4, <3>2
  <2>6. n - k \in 0..n
    BY <2>4
  <2>7. QED
    BY <2>4, <2>5, <2>6
<1>3. QED
  BY <1>1, <1>2

LEMMA SeenUpTo ==
  ASSUME NEW m \in Nat, NEW text, Long(text, m), NEW n \in Nat, n <= m,
         n > 0 => text[n] # 0, \A j \in 1..m : j > n => text[j] = 0
  PROVE  Visible(text) = Piece(text, 0, n)
<1>1. PICK real : real = {i \in DOMAIN text : text[i] # 0}
  OBVIOUS
<1>2. Visible(text) = Ending(text, real)
  BY <1>1, Zenon DEF Visible, Ending
<1>3. DOMAIN text = 1..m
  BY DEF Long
<1>4. real \subseteq 1..m /\ (n > 0 => n \in real) /\ \A i \in real : i <= n
  BY <1>1, <1>3
<1>5. QED
  BY <1>2, <1>4, EndsAt

LEMMA MeantIs ==
  ASSUME NEW n \in Nat, NEW chars, IsChars(chars, n)
  PROVE  \E l \in Nat : /\ l <= n /\ Meant(chars) = Piece(chars, 0, l)
                        /\ l > 0 => chars[l] # Blank
                        /\ \A i \in 1..n : i > l => chars[i] = Blank
<1>1. PICK real : real = {i \in DOMAIN chars : chars[i] # Blank}
  OBVIOUS
<1>2. Meant(chars) = Ending(chars, real)
  BY <1>1, Zenon DEF Meant, Ending
<1>3. DOMAIN chars = 1..n /\ Long(chars, n)
  BY DEF IsChars, Long
<1>4. real \subseteq 1..n
  BY <1>1, <1>3
<1>5. PICK l \in 0..n : (l > 0 => l \in real) /\ \A i \in real : i <= l
  BY <1>4, LastIn
<1>6. Ending(chars, real) = Piece(chars, 0, l)
  <2>1. l \in Nat /\ l <= n
    BY <1>5
  <2>2. QED
    BY <1>3, <1>4, <1>5, <2>1, EndsAt
<1>7. (l > 0 => chars[l] # Blank) /\ \A i \in 1..n : i > l => chars[i] = Blank
  BY <1>1, <1>3, <1>5
<1>8. QED
  BY <1>2, <1>5, <1>6, <1>7

\* What UpToBlank takes for a blank, and is none.
Inside(chars, n, beyond, k) ==
  chars[k] \div 256 = 32 /\ (IF k < n THEN chars[k + 1] % 256 ELSE beyond) = 0

Stops(bytes, beyond) ==
  {i \in 0..(Len(bytes) - 1) :
     bytes[i + 1] = Blank /\ (IF i + 2 <= Len(bytes) THEN bytes[i + 2] ELSE beyond) = 0}

LEMMA StopsAre ==
  ASSUME NEW n \in Nat, NEW chars, IsChars(chars, n), NEW beyond
  PROVE  /\ Stops(Bytes16(chars), beyond) \subseteq 0..(2 * n - 1)
         /\ \A k \in 1..n :
              /\ 2 * k - 2 \in Stops(Bytes16(chars), beyond) <=> chars[k] = Blank
              /\ 2 * k - 1 \in Stops(Bytes16(chars), beyond) <=> Inside(chars, n, beyond, k)
<1>1. PICK w : w = Bytes16(chars)
  OBVIOUS
<1>2. PICK m \in Nat : m = 2 * n
  OBVIOUS
<1>3. /\ Len(w) = m
      /\ \A k \in 1..n : w[2 * k - 1] = chars[k] % 256 /\ w[2 * k] = chars[k] \div 256
  <2>1. /\ Long(w, 2 * n)
        /\ \A k \in 1..n : w[2 * k - 1] = chars[k] % 256 /\ w[2 * k] = chars[k] \div 256
    BY <1>1, BytesOf
  <2>2. Long(w, m)
    BY <1>2, <2>1, Zenon
  <2>3. Len(w) = m
    BY <2>2 DEF Long
  <2>4. QED
    BY <2>1, <2>3, Zenon
<1>4. PICK stop : stop = Stops(w, beyond)
  OBVIOUS
<1>5. stop = {i \in 0..(m - 1) :
                w[i + 1] = Blank /\ (IF i + 2 <= m THEN w[i + 2] ELSE beyond) = 0}
  BY <1>3, <1>4 DEF Stops
<1>6. ASSUME NEW k \in 1..n PROVE 2 * k - 2 \in stop <=> chars[k] = Blank
  <2>1. PICK i \in 0..(m - 1) : i = 2 * k - 2 /\ i + 1 = 2 * k - 1 /\ i + 2 = 2 * k /\ i + 2 <= m
    BY <1>2
  <2>2. PICK c \in Int : c = chars[k] /\ 0 < c /\ c < 65536
    BY DEF IsChars, Long
  <2>3. w[i + 1] = c % 256 /\ w[i + 2] = c \div 256
    BY <1>3, <2>1, <2>2
  <2>4. i \in stop <=> c % 256 = 32 /\ c \div 256 = 0
    BY <1>5, <2>1, <2>3 DEF Blank
  <2>5. (c % 256 = 32 /\ c \div 256 = 0) <=> c = 32
    BY <2>2
  <2>6. QED
    BY <2>1, <2>2, <2>4, <2>5 DEF Blank
<1>7. ASSUME NEW k \in 1..n PROVE 2 * k - 1 \in stop <=> Inside(chars, n, beyond, k)
  <2>1. PICK i \in 0..(m - 1) : i = 2 * k - 1 /\ i + 1 = 2 * k
    BY <1>2
  <2>2. w[i + 1] = chars[k] \div 256
    BY <1>3, <2>1
  <2>3. CASE k < n
    <3>1. PICK j \in 1..n : j = k + 1 /\ 2 * j - 1 = i + 2 /\ i + 2 <= m
      BY <1>2, <2>1, <2>3
    <3>2. w[i + 2] = chars[k + 1] % 256
      BY <1>3, <3>1
    <3>3. QED
      BY <1>5, <2>1, <2>2, <2>3, <3>1, <3>2 DEF Inside, Blank
  <2>4. CASE ~(k < n)
    <3>1. ~(i + 2 <= m)
      BY <1>2, <2>1, <2>4
    <3>2. QED
      BY <1>5, <2>1, <2>2, <2>4, <3>1 DEF Inside, Blank
  <2>5. QED
    BY <2>3, <2>4
<1>8. QED
  BY <1>1, <1>2, <1>4, <1>5, <1>6, <1>7

\* Where a text is cut: nowhere, at a blank, or inside two characters.
NoCut(chars, n, beyond, u) ==
  u = <<>> /\ \A k \in 1..n : chars[k] # Blank
BlankCut(chars, n, beyond, u, k) ==
  /\ u = Piece(Bytes16(chars), 0, 2 * k - 2)
  /\ chars[k] = Blank /\ \A j \in 1..n : j < k => chars[j] # Blank
InsideCut(chars, n, beyond, u, k) ==
  /\ u = Piece(Bytes16(chars), 0, 2 * k - 1)
  /\ Inside(chars, n, beyond, k) /\ \A j \in 1..n : j <= k => chars[j] # Blank

LEMMA CutIs ==
  ASSUME NEW n \in Nat, NEW chars, IsChars(chars, n), NEW beyond,
         NEW u, u = UpToBlank(Bytes16(chars), beyond)
  PROVE  \/ NoCut(chars, n, beyond, u)
         \/ \E k \in 1..n : BlankCut(chars, n, beyond, u, k)
         \/ \E k \in 1..n : InsideCut(chars, n, beyond, u, k)
<1>1. PICK w : w = Bytes16(chars)
  OBVIOUS
<1>2. PICK stop : stop = Stops(w, beyond)
  OBVIOUS
<1>3. u = IF stop = {} THEN <<>> ELSE SubSeq(w, 1, Min(stop))
  BY <1>1, <1>2 DEF UpToBlank, Stops
<1>4. /\ stop \subseteq 0..(2 * n - 1)
      /\ \A k \in 1..n : /\ 2 * k - 2 \in stop <=> chars[k] = Blank
                         /\ 2 * k - 1 \in stop <=> Inside(chars, n, beyond, k)
  BY <1>1, <1>2, StopsAre
<1>5. CASE stop = {}
  <2>1. \A k \in 1..n : chars[k] # Blank
    BY <1>4, <1>5
  <2>2. QED
    BY <1>3, <1>5, <2>1 DEF NoCut
<1>6. CASE stop # {}
  <2>1. PICK m \in 0..(2 * n - 1) : m = Min(stop) /\ m \in stop /\ \A i \in stop : m <= i
    <3>1. stop \subseteq Nat
      BY <1>4
    <3>2. Least(Min(stop), stop)
      BY <1>6, <3>1, MinIs
    <3>3. QED
      BY <1>4, <3>2 DEF Least
  <2>2. u = Piece(w, 0, m)
    <3>1. 0 + 1 = 1 /\ 0 + m = m
      BY <2>1
    <3>2. QED
      BY <1>3, <1>6, <2>1, <3>1, Zenon DEF Piece
  <2>3. ASSUME NEW j \in 1..n, 2 * j - 2 < m PROVE chars[j] # Blank
    <3>1. 2 * j - 2 \notin stop
      BY <2>1, <2>3
    <3>2. QED
      BY <1>4, <3>1
  <2>4. CASE \E k \in 1..n : m = 2 * k - 2
    <3>1. PICK k \in 1..n : m = 2 * k - 2
      BY <2>4
    <3>2. chars[k] = Blank
      BY <1>4, <2>1, <3>1
    <3>3. \A j \in 1..n : j < k => chars[j] # Blank
      BY <2>3, <3>1
    <3>4. BlankCut(chars, n, beyond, u, k)
      BY <1>1, <2>2, <3>1, <3>2, <3>3, Zenon DEF BlankCut
    <3>5. QED
      BY <3>4
  <2>5. CASE \E k \in 1..n : m = 2 * k - 1
    <3>1. PICK k \in 1..n : m = 2 * k - 1
      BY <2>5
    <3>2. Inside(chars, n, beyond, k)
      BY <1>4, <2>1, <3>1
    <3>3. \A j \in 1..n : j <= k => chars[j] # Blank
      BY <2>3, <3>1
    <3>4. InsideCut(chars, n, beyond, u, k)
      BY <1>1, <2>2, <3>1, <3>2, <3>3, Zenon DEF InsideCut
    <3>5. QED
      BY <3>4
  <2>6. \E k \in 1..n : m = 2 * k - 2 \/ m = 2 * k - 1
    <3>1. PICK k \in 1..n : k = (m \div 2) + 1
      <4>1. (m \div 2) + 1 \in 1..n
        BY <2>1
      <4>2. QED
        BY <4>1
    <3>2. m = 2 * k - 2 \/ m = 2 * k - 1
      <4>1. m \in Int /\ k - 1 = m \div 2
        BY <2>1, <3>1
      <4>2. 2 * (m \div 2) <= m /\ m < 2 * (m \div 2) + 2
        BY <4>1
      <4>3. QED
        BY <4>1, <4>2
    <3>3. QED
      BY <3>2
  <2>7. QED
    BY <2>4, <2>5, <2>6
<1>7. QED
  BY <1>5, <1>6

\* What TextShown says of a text.
GoodText(chars, shown) ==
  LET n == Len(shown)
  IN /\ Regular(chars) => shown = Meant(chars)
     /\ n <= Len(Meant(chars))
     /\ \A i \in 1..(n - 1) : shown[i] = chars[i]
     /\ n > 0 => shown[n] \in {chars[n], chars[n] % 256}
     /\ n > 0 /\ Blank \notin ToSet(chars) /\ ~LooksBlank(chars) =>
          LET half == chars[Len(chars)] % 256
          IN \/ n = Len(chars) /\ shown[n] = half /\ half # chars[n]
             \/ n = Len(chars) - 1 /\ half = 0

\* A text that is cut at its first blank.
LEMMA GoodAtBlank ==
  ASSUME NEW n \in Nat, NEW chars, IsChars(chars, n), NEW p \in Nat, p < n,
         chars[p + 1] = Blank, \A j \in 1..n : j < p + 1 => chars[j] # Blank,
         NEW shown, Long(shown, p), \A i \in 1..p : shown[i] = chars[i]
  PROVE  GoodText(chars, shown)
<1>1. Len(chars) = n /\ DOMAIN chars = 1..n /\ Len(shown) = p /\ Long(chars, n)
  BY DEF IsChars, Long
<1>2. PICK l \in Nat : /\ l <= n /\ Meant(chars) = Piece(chars, 0, l)
                       /\ l > 0 => chars[l] # Blank
                       /\ \A i \in 1..n : i > l => chars[i] = Blank
  BY MeantIs
<1>3. Long(Meant(chars), l) /\ \A i \in 1..l : Meant(chars)[i] = chars[i]
  <2>1. Long(Piece(chars, 0, l), l) /\ \A i \in 1..l : Piece(chars, 0, l)[i] = chars[0 + i]
    BY <1>1, <1>2, Cut
  <2>2. QED
    BY <1>2, <2>1
<1>4. p <= l
  <2>1. CASE p > 0
    <3>1. chars[p] # Blank /\ p \in 1..n
      BY <2>1
    <3>2. QED
      BY <1>2, <3>1
  <2>2. QED
    BY <2>1, <1>2
<1>5. Len(Meant(chars)) = l /\ DOMAIN Meant(chars) = 1..l
  BY <1>3 DEF Long
<1>6. ASSUME Regular(chars) PROVE shown = Meant(chars)
  <2>1. \A i \in 1..l : chars[i] # Blank
    BY <1>5, <1>6, Zenon DEF Regular
  <2>2. ~(p + 1 <= l)
    BY <2>1
  <2>3. l = p
    BY <1>4, <2>2
  <2>4. QED
    BY <1>3, <2>3, SameSeq
<1>7. Blank \in ToSet(chars)
  <2>1. p + 1 \in DOMAIN chars
    BY <1>1
  <2>2. QED
    BY <2>1, Zenon DEF ToSet
<1>8. p > 0 => shown[p] = chars[p]
  OBVIOUS
<1>9. \A i \in 1..(p - 1) : shown[i] = chars[i]
  OBVIOUS
<1>10. QED
  BY <1>1, <1>4, <1>5, <1>6, <1>7, <1>8, <1>9 DEF GoodText

\* A text of which nothing is shown: it has no blank.
LEMMA GoodNothing ==
  ASSUME NEW n \in Nat, n > 0, NEW chars, IsChars(chars, n),
         \A j \in 1..n : chars[j] # Blank, NEW shown, Long(shown, 0)
  PROVE  GoodText(chars, shown)
<1>1. Len(chars) = n /\ Len(shown) = 0 /\ Long(chars, n)
  BY DEF IsChars, Long
<1>2. PICK l \in Nat : l <= n /\ Meant(chars) = Piece(chars, 0, l)
  BY MeantIs
<1>3. Len(Meant(chars)) = l
  BY <1>1, <1>2, Cut DEF Long
<1>4. ~Regular(chars)
  BY <1>1 DEF Regular
<1>5. QED
  BY <1>1, <1>3, <1>4 DEF GoodText

\* A text that is cut inside two characters.
LEMMA GoodHalf ==
  ASSUME NEW n \in Nat, NEW chars, IsChars(chars, n), NEW k \in 1..n, NEW beyond,
         Inside(chars, n, beyond, k), \A j \in 1..n : j <= k => chars[j] # Blank,
         NEW p \in Nat, p = IF chars[k] % 256 = 0 THEN k - 1 ELSE k,
         NEW shown, Long(shown, p), \A i \in 1..(k - 1) : shown[i] = chars[i],
         p = k => shown[k] = chars[k] % 256
  PROVE  GoodText(chars, shown)
<1>1. Len(chars) = n /\ DOMAIN chars = 1..n /\ Len(shown) = p /\ Long(chars, n)
  BY DEF IsChars, Long
<1>2. PICK l \in Nat : /\ l <= n /\ Meant(chars) = Piece(chars, 0, l)
                       /\ \A i \in 1..n : i > l => chars[i] = Blank
  BY MeantIs
<1>3. Len(Meant(chars)) = l
  BY <1>1, <1>2, Cut DEF Long
<1>4. k <= l /\ p <= l
  <2>1. chars[k] # Blank
    OBVIOUS
  <2>2. k <= l
    BY <1>2, <2>1
  <2>3. QED
    BY <2>2
<1>5. k < n => LooksBlank(chars)
  <2>1. SUFFICES ASSUME k < n PROVE LooksBlank(chars)
    OBVIOUS
  <2>2. chars[k] \div 256 = 32 /\ chars[k + 1] % 256 = 0 /\ k \in 1..(n - 1)
    BY <2>1 DEF Inside
  <2>3. QED
    BY <1>1, <2>2 DEF LooksBlank
<1>6. ~Regular(chars)
  <2>1. CASE k < n
    BY <1>5, <2>1 DEF Regular
  <2>2. CASE ~(k < n)
    <3>1. chars[n] # Blank
      BY <2>2
    <3>2. QED
      BY <1>1, <3>1 DEF Regular
  <2>3. QED
    BY <2>1, <2>2
<1>7. \A i \in 1..(p - 1) : shown[i] = chars[i]
  OBVIOUS
<1>8. p > 0 => shown[p] \in {chars[p], chars[p] % 256}
  <2>1. p = k \/ (p = k - 1 /\ (p > 0 => p \in 1..(k - 1)))
    OBVIOUS
  <2>2. QED
    BY <2>1
<1>9. ~LooksBlank(chars) =>
        \/ p = n /\ shown[p] = chars[n] % 256 /\ chars[n] % 256 # chars[p]
        \/ p = n - 1 /\ chars[n] % 256 = 0
  <2>1. SUFFICES ASSUME k = n
                 PROVE  \/ p = n /\ shown[p] = chars[n] % 256 /\ chars[n] % 256 # chars[p]
                        \/ p = n - 1 /\ chars[n] % 256 = 0
    BY <1>5
  <2>2. PICK c \in Int : c = chars[k] /\ c \div 256 = 32
    BY DEF IsChars, Long, Inside
  <2>3. c % 256 # c
    BY <2>2
  <2>4. CASE c % 256 = 0
    BY <2>1, <2>2, <2>4
  <2>5. CASE c % 256 # 0
    BY <2>1, <2>2, <2>3, <2>5
  <2>6. QED
    BY <2>4, <2>5
<1>10. QED
  BY <1>1, <1>3, <1>4, <1>6, <1>7, <1>8, <1>9 DEF GoodText

\* The first r characters of a text that has only blanks behind are read from
\* a member that has room for them.
LEMMA TextGood ==
  ASSUME NEW n \in Nat, n > 0, NEW chars, IsChars(chars, n), NEW beyond,
         NEW size \in Nat, NEW r \in Nat, r <= n, 2 * r <= size,
         \A i \in 1..n : i > r => chars[i] = Blank,
         NEW u, u = UpToBlank(Bytes16(chars), beyond), NEW m, Long(u, m), m \in Nat
  PROVE  GoodText(chars, Visible(Characters(u, m, size)))
<1>1. PICK w : w = Bytes16(chars)
  OBVIOUS
<1>2. Long(w, 2 * n)
  BY <1>1, BytesOf
<1>3. PICK h \in Nat : h = size \div 2
  OBVIOUS
<1>4. PICK text : text = Characters(u, m, size)
  OBVIOUS
<1>5. ASSUME NEW q \in Nat, q <= 2 * n, u = Piece(w, 0, q)
      PROVE  /\ m = q /\ Long(text, h)
             /\ \A j \in 1..h : /\ 2 * j <= q => text[j] = chars[j]
                                /\ 2 * j - 1 = q => text[j] = chars[j] % 256
                                /\ 2 * j - 1 > q => text[j] = 0
  <2>1. Long(Piece(w, 0, q), q) /\ \A i \in 1..q : Piece(w, 0, q)[i] = w[0 + i]
    BY <1>2, <1>5, Cut
  <2>2. m = q /\ \A i \in 1..m : u[i] = Bytes16(chars)[i]
    BY <1>1, <1>5, <2>1 DEF Long
  <2>3. Long(text, h)
    BY <1>3, <1>4, <1>5, <2>2, CharactersLong
  <2>4. ASSUME NEW j \in 1..h
        PROVE  /\ 2 * j <= m => text[j] = chars[j]
               /\ 2 * j - 1 = m => text[j] = chars[j] % 256
               /\ 2 * j - 1 > m => text[j] = 0
    BY <1>3, <1>4, <1>5, <2>2, CutText
  <2>5. QED
    BY <2>2, <2>3, <2>4
<1>6. \A i \in 1..n : chars[i] \in Int /\ 0 < chars[i]
  BY DEF IsChars, Long
<1>7. CASE NoCut(chars, n, beyond, u)
  <2>1. u = Piece(w, 0, 0)
    <3>1. Long(Piece(w, 0, 0), 0)
      BY <1>2, Cut
    <3>2. QED
      BY <1>7, <3>1 DEF Long, NoCut
  <2>2. Long(text, h) /\ \A j \in 1..h : text[j] = 0
    BY <1>5, <2>1
  <2>3. Visible(text) = Piece(text, 0, 0)
    BY <2>2, SeenUpTo
  <2>4. Long(Visible(text), 0)
    BY <2>2, <2>3, Cut
  <2>5. QED
    BY <1>4, <1>7, <2>4, GoodNothing DEF NoCut
<1>8. CASE \E k \in 1..n : BlankCut(chars, n, beyond, u, k)
  <2>1. PICK k \in 1..n : BlankCut(chars, n, beyond, u, k)
    BY <1>8
  <2>2. PICK p \in Nat : p = k - 1 /\ p + 1 = k /\ 2 * k - 2 = 2 * p /\ p < n
    OBVIOUS
  <2>3. p <= r
    <3>1. CASE r < n
      <4>1. r + 1 \in 1..n /\ r + 1 > r
        BY <3>1
      <4>2. chars[r + 1] = Blank
        BY <4>1
      <4>3. ~(r + 1 < k)
        BY <2>1, <4>1, <4>2 DEF BlankCut
      <4>4. QED
        BY <2>2, <4>3
    <3>2. QED
      BY <2>2, <3>1
  <2>4. p <= h
    BY <1>3, <2>3
  <2>5. u = Piece(w, 0, 2 * p)
    BY <1>1, <2>1, <2>2 DEF BlankCut
  <2>6. /\ Long(text, h)
        /\ \A j \in 1..h : /\ 2 * j <= 2 * p => text[j] = chars[j]
                           /\ 2 * j - 1 > 2 * p => text[j] = 0
    <3>1. 2 * p \in Nat /\ 2 * p <= 2 * n
      BY <2>2
    <3>2. QED
      BY <1>5, <2>5, <3>1
  <2>7. \A j \in 1..p : text[j] = chars[j]
    BY <2>4, <2>6
  <2>8. \A j \in 1..h : j > p => text[j] = 0
    BY <2>6
  <2>9. p > 0 => text[p] # 0
    BY <1>6, <2>2, <2>7
  <2>10. Visible(text) = Piece(text, 0, p)
    BY <2>4, <2>6, <2>8, <2>9, SeenUpTo
  <2>11. Long(Visible(text), p) /\ \A i \in 1..p : Visible(text)[i] = chars[i]
    <3>1. Long(Piece(text, 0, p), p) /\ \A i \in 1..p : Piece(text, 0, p)[i] = text[0 + i]
      BY <2>4, <2>6, Cut
    <3>2. QED
      BY <2>7, <2>10, <3>1
  <2>12. chars[p + 1] = Blank /\ \A j \in 1..n : j < p + 1 => chars[j] # Blank
    BY <2>1, <2>2 DEF BlankCut
  <2>13. QED
    BY <1>4, <2>2, <2>11, <2>12, GoodAtBlank
<1>9. CASE \E k \in 1..n : InsideCut(chars, n, beyond, u, k)
  <2>1. PICK k \in 1..n : InsideCut(chars, n, beyond, u, k)
    BY <1>9
  <2>2. chars[k] # Blank /\ u = Piece(w, 0, 2 * k - 1)
    BY <1>1, <2>1 DEF InsideCut
  <2>3. k <= r /\ k <= h
    BY <1>3, <2>2
  <2>4. /\ Long(text, h)
        /\ \A j \in 1..h : /\ 2 * j <= 2 * k - 1 => text[j] = chars[j]
                           /\ 2 * j - 1 = 2 * k - 1 => text[j] = chars[j] % 256
                           /\ 2 * j - 1 > 2 * k - 1 => text[j] = 0
    <3>1. 2 * k - 1 \in Nat /\ 2 * k - 1 <= 2 * n
      OBVIOUS
    <3>2. QED
      BY <1>5, <2>2, <3>1
  <2>5. \A j \in 1..(k - 1) : text[j] = chars[j]
    BY <2>3, <2>4
  <2>6. text[k] = chars[k] % 256
    BY <2>3, <2>4
  <2>7. \A j \in 1..h : j > k => text[j] = 0
    BY <2>4
  <2>8. PICK p \in Nat : p = IF chars[k] % 256 = 0 THEN k - 1 ELSE k
    <3>1. k - 1 \in Nat /\ k \in Nat
      OBVIOUS
    <3>2. QED
      BY <3>1
  <2>9. p <= h /\ (p > 0 => text[p] # 0) /\ \A j \in 1..h : j > p => text[j] = 0
    <3>1. CASE chars[k] % 256 = 0
      <4>1. p = k - 1
        BY <2>8, <3>1
      <4>2. \A j \in 1..h : j > p => j = k \/ j > k
        BY <4>1
      <4>3. p > 0 => p \in 1..n /\ text[p] = chars[p]
        BY <2>5, <4>1
      <4>4. QED
        BY <1>6, <2>3, <2>6, <2>7, <3>1, <4>1, <4>2, <4>3
    <3>2. CASE chars[k] % 256 # 0
      BY <2>3, <2>6, <2>7, <2>8, <3>2
    <3>3. QED
      BY <3>1, <3>2
  <2>10. Visible(text) = Piece(text, 0, p)
    BY <2>4, <2>9, SeenUpTo
  <2>11. Long(Visible(text), p) /\ \A i \in 1..p : Visible(text)[i] = text[i]
    <3>1. Long(Piece(text, 0, p), p) /\ \A i \in 1..p : Piece(text, 0, p)[i] = text[0 + i]
      BY <2>4, <2>9, Cut
    <3>2. QED
      BY <2>10, <3>1
  <2>12. /\ \A i \in 1..(k - 1) : Visible(text)[i] = chars[i]
         /\ p = k => Visible(text)[k] = chars[k] % 256
    <3>1. p = k - 1 \/ p = k
      BY <2>8
    <3>2. QED
      BY <2>5, <2>6, <2>11, <3>1
  <2>13. Inside(chars, n, beyond, k) /\ \A j \in 1..n : j <= k => chars[j] # Blank
    BY <2>1 DEF InsideCut
  <2>14. QED
    BY <1>4, <2>8, <2>11, <2>12, <2>13, GoodHalf
<1>10. QED
  BY <1>7, <1>8, <1>9, CutIs

LEMMA CharRange == ASSUME NEW c \in Char PROVE c \in Int /\ 0 < c /\ c < 65536
BY DEF Char

LEMMA FieldLengths ==
  /\ CharsOf("name") = 15 /\ CharsOf("sex") = 1 /\ CharsOf("nation") = 2
  /\ CharsOf("birth") = 8 /\ CharsOf("address") = 35 /\ CharsOf("number") = 18
  /\ CharsOf("authority") = 15 /\ CharsOf("period") = 34
  /\ Size("name") = 32 /\ Size("sex") = 4 /\ Size("nation") = 6
  /\ Size("birth") = 18 /\ Size("address") = 92 /\ Size("number") = 38
  /\ Size("authority") = 92 /\ Size("period") = 40
BY DEF CharsOf, CardPart, Size, JavaPart

LEMMA FieldsAre ==
  FieldNames = {"name", "sex", "nation", "birth", "address", "number", "authority", "period"}
BY DEF FieldNames, CardPart

LEMMA CardChars ==
  ASSUME NEW card \in Cards, NEW f \in FieldNames
  PROVE  CharsOf(f) \in Nat /\ CharsOf(f) > 0 /\ IsChars(card[f], CharsOf(f))
<1>1. CharsOf(f) \in Nat /\ CharsOf(f) > 0
  BY FieldsAre, FieldLengths
<1>2. PICK n \in Nat : n = CharsOf(f)
  BY <1>1
<1>3. card[f] \in [1..n -> Char]
  BY <1>2, CardsAssumption, Zenon
<1>4. PICK chars : chars = card[f]
  OBVIOUS
<1>5. ASSUME NEW i \in 1..n PROVE chars[i] \in Int /\ 0 < chars[i] /\ chars[i] < 65536
  <2>1. chars[i] \in Char
    BY <1>3, <1>4
  <2>2. QED
    BY <2>1, CharRange
<1>6. chars \in [1..n -> Int]
  <2>1. chars = [i \in 1..n |-> chars[i]]
    BY <1>3, <1>4
  <2>2. QED
    BY <1>5, <2>1
<1>7. Long(chars, n)
  BY <1>6, FunctionLong
<1>8. QED
  BY <1>1, <1>2, <1>4, <1>5, <1>7 DEF IsChars

LEMMA LimitedChars == IsChars(LIMITED_IFNO, 16)
<1>1. PICK n \in Nat : n = 16
  OBVIOUS
<1>2. LIMITED_IFNO = [i \in 1..n |-> 88]
  BY <1>1 DEF LIMITED_IFNO
<1>3. LIMITED_IFNO \in [1..n -> Int]
  BY <1>2
<1>4. Long(LIMITED_IFNO, n)
  BY <1>3, FunctionLong
<1>5. QED
  BY <1>1, <1>2, <1>4 DEF IsChars

LEMMA CutLong ==
  ASSUME NEW n \in Nat, NEW chars, IsChars(chars, n), NEW beyond,
         NEW u, u = UpToBlank(Bytes16(chars), beyond)
  PROVE  \E m \in Nat : Long(u, m) /\ m <= 2 * n
<1>1. PICK w : w = Bytes16(chars)
  OBVIOUS
<1>2. Long(w, 2 * n)
  BY <1>1, BytesOf
<1>3. ASSUME NEW q \in Nat, q <= 2 * n, u = Piece(w, 0, q)
      PROVE  \E m \in Nat : Long(u, m) /\ m <= 2 * n
  <2>1. Long(Piece(w, 0, q), q)
    BY <1>2, <1>3, Cut
  <2>2. QED
    BY <1>3, <2>1
<1>4. CASE NoCut(chars, n, beyond, u)
  <2>1. u = Piece(w, 0, 0)
    <3>1. Long(Piece(w, 0, 0), 0)
      BY <1>2, Cut
    <3>2. QED
      BY <1>4, <3>1 DEF Long, NoCut
  <2>2. QED
    BY <1>3, <2>1
<1>5. ASSUME NEW k \in 1..n, BlankCut(chars, n, beyond, u, k)
      PROVE  \E m \in Nat : Long(u, m) /\ m <= 2 * n
  <2>1. 2 * k - 2 \in Nat /\ 2 * k - 2 <= 2 * n /\ u = Piece(w, 0, 2 * k - 2)
    BY <1>1, <1>5 DEF BlankCut
  <2>2. QED
    BY <1>3, <2>1
<1>6. ASSUME NEW k \in 1..n, InsideCut(chars, n, beyond, u, k)
      PROVE  \E m \in Nat : Long(u, m) /\ m <= 2 * n
  <2>1. 2 * k - 1 \in Nat /\ 2 * k - 1 <= 2 * n /\ u = Piece(w, 0, 2 * k - 1)
    BY <1>1, <1>6 DEF InsideCut
  <2>2. QED
    BY <1>3, <2>1
<1>7. QED
  BY <1>4, <1>5, <1>6, CutIs

\* What is copied to a member.
Hidden(f, limited)   == f \in {"address", "number"} /\ limited
IsCut(f) == f \in {"name", "address", "authority", "period"}
Copy(f, card, limited, beyond) == Delivered(f, Bytes16(card[f]), limited, beyond)

LEMMA CopyIs ==
  ASSUME NEW f, NEW card, NEW limited \in BOOLEAN, NEW beyond
  PROVE  /\ Hidden(f, limited) => Copy(f, card, limited, beyond) = Bytes16(LIMITED_IFNO)
         /\ ~Hidden(f, limited) /\ IsCut(f) =>
              Copy(f, card, limited, beyond) = UpToBlank(Bytes16(card[f]), beyond)
         /\ ~Hidden(f, limited) /\ ~IsCut(f) =>
              Copy(f, card, limited, beyond) = Bytes16(card[f])
BY DEF Copy, Delivered, Hidden, IsCut

\* A copy stays in its member, but for the period.
LEMMA CopyFits ==
  ASSUME NEW card \in Cards, NEW f \in FieldNames, NEW limited \in BOOLEAN, NEW beyond
  PROVE  \E m \in Nat : /\ Long(Copy(f, card, limited, beyond), m)
                        /\ m <= Size(f) \/ f = "period"
<1>1. PICK u : u = Copy(f, card, limited, beyond)
  OBVIOUS
<1>2. PICK n \in Nat : n = CharsOf(f) /\ IsChars(card[f], n)
  BY CardChars
<1>3. Size(f) \in Nat /\ (2 * n <= Size(f) \/ f = "period")
  BY <1>2, FieldsAre, FieldLengths
<1>4. CASE Hidden(f, limited)
  <2>1. u = Bytes16(LIMITED_IFNO)
    BY <1>1, <1>4, CopyIs
  <2>2. Long(u, 2 * 16)
    BY <2>1, LimitedChars, BytesOf
  <2>3. 2 * 16 \in Nat /\ 2 * 16 <= Size(f)
    BY <1>4, FieldLengths DEF Hidden
  <2>4. QED
    BY <1>1, <2>2, <2>3
<1>5. CASE ~Hidden(f, limited) /\ IsCut(f)
  <2>1. u = UpToBlank(Bytes16(card[f]), beyond)
    BY <1>1, <1>5, CopyIs
  <2>2. PICK m \in Nat : Long(u, m) /\ m <= 2 * n
    BY <1>2, <2>1, CutLong
  <2>3. m <= Size(f) \/ f = "period"
    BY <1>3, <2>2
  <2>4. QED
    BY <1>1, <2>2, <2>3
<1>6. CASE ~Hidden(f, limited) /\ ~IsCut(f)
  <2>1. u = Bytes16(card[f])
    BY <1>1, <1>6, CopyIs
  <2>2. Long(u, 2 * n) /\ 2 * n \in Nat
    BY <1>2, <2>1, BytesOf
  <2>3. QED
    BY <1>1, <1>3, <2>2
<1>7. QED
  BY <1>4, <1>5, <1>6

\* Java reads what was copied.
LEMMA CopyRead ==
  ASSUME NEW card \in Cards, NEW f \in FieldNames, NEW limited \in BOOLEAN, NEW beyond,
         NEW m \in Nat, Long(Copy(f, card, limited, beyond), m)
  PROVE  JavaText(f, CardMsg(card, limited, beyond)) =
           Characters(Copy(f, card, limited, beyond), m, Size(f))
<1>1. PICK D : D = [g \in FieldNames |-> Copy(g, card, limited, beyond)]
  OBVIOUS
<1>2. PICK N : N = [g \in FieldNames |-> Len(Copy(g, card, limited, beyond))]
  OBVIOUS
<1>3. PICK msg : msg = CardMsg(card, limited, beyond)
  OBVIOUS
<1>4. ASSUME NEW g \in FieldNames
      PROVE  Long(D[g], N[g]) /\ N[g] \in Nat /\ (N[g] <= Size(g) \/ g = "period")
  <2>1. PICK k \in Nat : /\ Long(Copy(g, card, limited, beyond), k)
                         /\ k <= Size(g) \/ g = "period"
    BY CopyFits
  <2>2. N[g] = k
    BY <1>2, <2>1 DEF Long
  <2>3. QED
    BY <1>1, <2>1, <2>2
<1>5. msg = {<<MsgOffset(g), Copy(g, card, limited, beyond)>> : g \in FieldNames}
  BY <1>3, Zenon DEF CardMsg, Copy
<1>6. \A g \in FieldNames :
        <<MsgOffset(g), Copy(g, card, limited, beyond)>> = <<First(g), D[g]>>
  BY <1>1, SamePlace
<1>7. msg = {<<First(g), D[g]>> : g \in FieldNames}
  BY <1>5, <1>6
<1>8. Copies(msg, D, N)
  BY <1>4, <1>7 DEF Copies
<1>9. JavaText(f, msg) = Characters(D[f], N[f], Size(f))
  BY <1>8, TextRead
<1>10. D[f] = Copy(f, card, limited, beyond) /\ N[f] = m
  BY <1>1, <1>2 DEF Long
<1>11. QED
  BY <1>3, <1>9, <1>10

\* A text that is copied in full is read in full.
LEMMA FullRead ==
  ASSUME NEW n \in Nat, n > 0, NEW chars, IsChars(chars, n), NEW size \in Nat, 2 * n <= size,
         NEW text, text = Characters(Bytes16(chars), 2 * n, size)
  PROVE  /\ Long(text, size \div 2) /\ n <= size \div 2
         /\ \A j \in 1..n : text[j] = chars[j]
         /\ \A j \in 1..(size \div 2) : j > n => text[j] = 0
<1>1. PICK h \in Nat : h = size \div 2
  OBVIOUS
<1>2. n <= h /\ 2 * n \in Nat /\ 2 * n <= 2 * n
  BY <1>1
<1>3. \A i \in 1..(2 * n) : Bytes16(chars)[i] = Bytes16(chars)[i]
  OBVIOUS
<1>4. Long(text, h)
  BY <1>1, <1>2, <1>3, CharactersLong
<1>5. ASSUME NEW j \in 1..h
      PROVE  /\ 2 * j <= 2 * n => text[j] = chars[j]
             /\ 2 * j - 1 > 2 * n => text[j] = 0
  BY <1>1, <1>2, <1>3, CutText
<1>6. \A j \in 1..n : text[j] = chars[j]
  BY <1>2, <1>5
<1>7. \A j \in 1..h : j > n => text[j] = 0
  BY <1>5
<1>8. QED
  BY <1>1, <1>2, <1>4, <1>6, <1>7

LEMMA FullSeen ==
  ASSUME NEW n \in Nat, n > 0, NEW chars, IsChars(chars, n), NEW size \in Nat, 2 * n <= size
  PROVE  Visible(Characters(Bytes16(chars), 2 * n, size)) = chars
<1>1. PICK text : text = Characters(Bytes16(chars), 2 * n, size)
  OBVIOUS
<1>2. PICK h \in Nat : h = size \div 2
  OBVIOUS
<1>3. /\ Long(text, h) /\ n <= h
      /\ \A j \in 1..n : text[j] = chars[j]
      /\ \A j \in 1..h : j > n => text[j] = 0
  BY <1>1, <1>2, FullRead
<1>4. text[n] # 0 /\ Long(chars, n)
  <2>1. n \in 1..n
    OBVIOUS
  <2>2. QED
    BY <1>3, <2>1 DEF IsChars
<1>5. Visible(text) = Piece(text, 0, n)
  BY <1>3, <1>4, SeenUpTo
<1>6. Long(Piece(text, 0, n), n) /\ \A i \in 1..n : Piece(text, 0, n)[i] = text[0 + i]
  BY <1>3, Cut
<1>7. \A i \in 1..n : Piece(text, 0, n)[i] = chars[i]
  BY <1>3, <1>6
<1>8. Piece(text, 0, n) = chars
  BY <1>4, <1>6, <1>7, SameSeq
<1>9. QED
  BY <1>1, <1>5, <1>8

\* What trim leaves of a code: its digits.
LEMMA FullTrimmed ==
  ASSUME NEW n \in Nat, n > 0, NEW chars, IsChars(chars, n), NEW size \in Nat, 2 * n <= size,
         \A i \in 1..n : chars[i] > 32
  PROVE  Trim(Characters(Bytes16(chars), 2 * n, size)) = chars
<1>1. PICK text : text = Characters(Bytes16(chars), 2 * n, size)
  OBVIOUS
<1>2. PICK h \in Nat : h = size \div 2
  OBVIOUS
<1>3. /\ Long(text, h) /\ n <= h
      /\ \A j \in 1..n : text[j] = chars[j]
      /\ \A j \in 1..h : j > n => text[j] = 0
  BY <1>1, <1>2, FullRead
<1>4. PICK real : real = {i \in DOMAIN text : text[i] > Blank}
  OBVIOUS
<1>5. Trim(text) = IF real = {} THEN <<>> ELSE SubSeq(text, Min(real), Max(real))
  BY <1>4, Zenon DEF Trim
<1>6. DOMAIN text = 1..h
  BY <1>3 DEF Long
<1>7. \A i \in 1..h : text[i] > Blank <=> i <= n
  BY <1>3 DEF Blank
<1>8. real = 1..n
  BY <1>3, <1>4, <1>6, <1>7
<1>9. Min(real) = 1
  <2>1. real \subseteq Int /\ 1 \in real /\ \A y \in real : 1 <= y
    BY <1>8
  <2>2. QED
    BY <2>1, TheFirst
<1>10. Max(real) = n
  <2>1. real \subseteq Int /\ n \in real /\ \A y \in real : n >= y
    BY <1>8
  <2>2. QED
    BY <2>1, TheLast
<1>11. Trim(text) = Piece(text, 0, n)
  <2>1. 0 + 1 = 1 /\ 0 + n = n /\ real # {}
    BY <1>8
  <2>2. QED
    BY <1>5, <1>9, <1>10, <2>1, Zenon DEF Piece
<1>12. Long(Piece(text, 0, n), n) /\ \A i \in 1..n : Piece(text, 0, n)[i] = text[0 + i]
  BY <1>3, Cut
<1>13. \A i \in 1..n : Piece(text, 0, n)[i] = chars[i]
  BY <1>3, <1>12
<1>14. Piece(text, 0, n) = chars
  BY <1>12, <1>13, SameSeq DEF IsChars
<1>15. QED
  BY <1>1, <1>11, <1>14

\* A code of sex is shown as what it stands for.
LEMMA SexIs ==
  ASSUME NEW chars, Long(chars, 1), chars[1] \in {48, 49, 50, 57}, NEW text, Trim(text) = chars
  PROVE  Digits(getSex(text))[2] = chars[1]
<1>1. PICK c \in Int : c = chars[1] /\ (c = 48 \/ c = 49 \/ c = 50 \/ c = 57)
  OBVIOUS
<1>2. PICK hits : hits = {n \in {1, 2, 9} : <<48 + n>> = Trim(text)}
  OBVIOUS
<1>3. getSex(text) = IF hits = {} THEN 0 ELSE Min(hits)
  BY <1>2 DEF getSex
<1>4. ASSUME NEW n \in {1, 2, 9} PROVE n \in hits <=> 48 + n = c
  <2>1. PICK d \in Int : d = 48 + n
    OBVIOUS
  <2>2. Long(<<d>>, 1) /\ <<d>>[1] = d
    BY Tuple1
  <2>3. d = c => <<d>> = chars
    <3>1. SUFFICES ASSUME d = c PROVE <<d>> = chars
      OBVIOUS
    <3>2. \A i \in 1..1 : <<d>>[i] = chars[i]
      BY <1>1, <2>2, <3>1
    <3>3. QED
      BY <2>2, <3>2, SameSeq
  <2>4. <<d>> = chars => d = c
    BY <1>1, <2>2
  <2>5. QED
    BY <1>2, <2>1, <2>3, <2>4
<1>5. hits \subseteq {1, 2, 9}
  BY <1>2
<1>6. getSex(text) = c - 48
  <2>1. CASE c = 48
    <3>1. hits = {}
      BY <1>4, <1>5, <2>1
    <3>2. QED
      BY <1>3, <2>1, <3>1
  <2>2. CASE c # 48
    <3>1. PICK n \in {1, 2, 9} : 48 + n = c
      BY <1>1, <2>2
    <3>2. n \in hits /\ \A y \in hits : n <= y
      BY <1>4, <1>5, <3>1
    <3>3. Min(hits) = n
      <4>1. hits \subseteq Int
        BY <1>5
      <4>2. QED
        BY <3>2, <4>1, TheFirst
    <3>4. QED
      BY <1>3, <3>1, <3>2, <3>3
  <2>3. QED
    BY <2>1, <2>2
<1>7. QED
  BY <1>1, <1>6 DEF Digits

\* A code of a nation is shown as the nation, but for 40.
LEMMA NationIs ==
  ASSUME NEW n \in Nat, n < 100, NEW text, Trim(text) = Digits(n)
  PROVE  getMinZu(text) = IF n \in (1..57) \ {40} THEN n ELSE 0
<1>1. PICK hits : hits = {k \in 1..57 : Listed(k) = Trim(text)}
  OBVIOUS
<1>2. getMinZu(text) = IF hits = {} THEN 0 ELSE Min(hits)
  BY <1>1 DEF getMinZu
<1>3. ASSUME NEW k \in 1..57 PROVE k \in hits <=> k = n /\ k # 40
  <2>1. CASE k = 40
    <3>1. Listed(k)[2] = 45
      BY <2>1 DEF Listed
    <3>2. Digits(n)[2] # 45
      BY DEF Digits
    <3>3. QED
      BY <1>1, <2>1, <3>1, <3>2
  <2>2. CASE k # 40
    <3>1. Listed(k) = Digits(k)
      BY <2>2 DEF Listed
    <3>2. Digits(k) = Digits(n) => k = n
      <4>1. SUFFICES ASSUME Digits(k) = Digits(n) PROVE k = n
        OBVIOUS
      <4>2. Digits(k)[1] = Digits(n)[1] /\ Digits(k)[2] = Digits(n)[2]
        BY <4>1
      <4>3. 48 + (k \div 10) = 48 + (n \div 10) /\ 48 + (k % 10) = 48 + (n % 10)
        BY <4>2 DEF Digits
      <4>4. QED
        BY <4>3
    <3>3. QED
      BY <1>1, <2>2, <3>1, <3>2
  <2>3. QED
    BY <2>1, <2>2
<1>4. hits \subseteq 1..57
  BY <1>1
<1>5. CASE n \in (1..57) \ {40}
  <2>1. n \in hits /\ \A y \in hits : n <= y
    BY <1>3, <1>4, <1>5
  <2>2. Min(hits) = n
    <3>1. hits \subseteq Int
      BY <1>4
    <3>2. QED
      BY <2>1, <3>1, TheFirst
  <2>3. QED
    BY <1>2, <1>5, <2>1, <2>2
<1>6. CASE n \notin (1..57) \ {40}
  <2>1. hits = {}
    BY <1>3, <1>4, <1>6
  <2>2. QED
    BY <1>2, <1>6, <2>1
<1>7. QED
  BY <1>5, <1>6

\* What the screen shows of a text, and of one that is hidden.
LEMMA TextIs ==
  ASSUME NEW card \in Cards, NEW limited \in BOOLEAN, NEW beyond,
         NEW f \in {"name", "address", "authority", "period"}
  PROVE  LET seen == Visible(JavaText(f, CardMsg(card, limited, beyond)))
         IN IF f = "address" /\ limited THEN seen = LIMITED_IFNO ELSE GoodText(card[f], seen)
<1>1. PICK u : u = Copy(f, card, limited, beyond)
  OBVIOUS
<1>2. f \in FieldNames
  BY FieldsAre
<1>3. PICK seen : seen = Visible(JavaText(f, CardMsg(card, limited, beyond)))
  OBVIOUS
<1>4. PICK size \in Nat : size = Size(f)
  BY FieldLengths
<1>5. ASSUME NEW m \in Nat, Long(u, m) PROVE seen = Visible(Characters(u, m, size))
  BY <1>1, <1>2, <1>3, <1>4, <1>5, CopyRead
<1>6. CASE f = "address" /\ limited
  <2>1. u = Bytes16(LIMITED_IFNO)
    BY <1>1, <1>6, CopyIs DEF Hidden
  <2>2. PICK n \in Nat : n = 16 /\ n > 0 /\ 2 * n <= size /\ 2 * n \in Nat
    BY <1>4, <1>6, FieldLengths
  <2>3. IsChars(LIMITED_IFNO, n)
    BY <2>2, LimitedChars
  <2>4. Long(u, 2 * n)
    BY <2>1, <2>3, BytesOf
  <2>5. Visible(Characters(Bytes16(LIMITED_IFNO), 2 * n, size)) = LIMITED_IFNO
    BY <2>2, <2>3, FullSeen
  <2>6. QED
    BY <1>3, <1>5, <1>6, <2>1, <2>2, <2>4, <2>5
<1>7. CASE ~(f = "address" /\ limited)
  <2>1. u = UpToBlank(Bytes16(card[f]), beyond)
    <3>1. ~Hidden(f, limited) /\ IsCut(f)
      BY <1>7 DEF Hidden, IsCut
    <3>2. QED
      BY <1>1, <3>1, CopyIs
  <2>2. PICK n \in Nat : n = CharsOf(f) /\ n > 0 /\ IsChars(card[f], n)
    BY <1>2, CardChars
  <2>3. PICK m \in Nat : Long(u, m)
    BY <2>1, <2>2, CutLong
  <2>4. PICK r \in Nat : /\ r <= n /\ 2 * r <= size
                         /\ \A i \in 1..n : i > r => card[f][i] = Blank
    <3>1. CASE f = "period"
      <4>1. n = 34 /\ size = 40
        BY <1>4, <2>2, <3>1, FieldLengths
      <4>2. \A i \in 17..34 : card[f][i] = Blank
        BY <2>2, <3>1, <4>1, CardsAssumption
      <4>3. \A i \in 1..n : i > 16 => card[f][i] = Blank
        BY <4>1, <4>2
      <4>4. QED
        BY <4>1, <4>3
    <3>2. CASE f # "period"
      <4>1. 2 * n <= size
        BY <1>4, <2>2, <3>2, FieldLengths
      <4>2. \A i \in 1..n : i > n => card[f][i] = Blank
        OBVIOUS
      <4>3. QED
        BY <4>1, <4>2
    <3>3. QED
      BY <3>1, <3>2
  <2>5. PICK chars : chars = card[f]
    OBVIOUS
  <2>6. GoodText(chars, Visible(Characters(u, m, size)))
    BY <2>1, <2>2, <2>3, <2>4, <2>5, TextGood
  <2>7. QED
    BY <1>3, <1>5, <1>7, <2>3, <2>5, <2>6
<1>8. QED
  BY <1>6, <1>7

\* A field that is copied in full is read in full.
LEMMA FieldRead ==
  ASSUME NEW card \in Cards, NEW limited \in BOOLEAN, NEW beyond,
         NEW f \in {"sex", "nation", "birth", "number"}
  PROVE  LET read == JavaText(f, CardMsg(card, limited, beyond))
         IN /\ Visible(read) = IF f = "number" /\ limited THEN LIMITED_IFNO ELSE card[f]
            /\ f # "number" /\ (\A i \in 1..CharsOf(f) : card[f][i] > 32) => Trim(read) = card[f]
<1>1. PICK u : u = Copy(f, card, limited, beyond)
  OBVIOUS
<1>2. f \in FieldNames
  BY FieldsAre
<1>3. PICK read : read = JavaText(f, CardMsg(card, limited, beyond))
  OBVIOUS
<1>4. PICK size \in Nat : size = Size(f)
  BY FieldLengths
<1>5. ASSUME NEW m \in Nat, Long(u, m) PROVE read = Characters(u, m, size)
  BY <1>1, <1>2, <1>3, <1>4, <1>5, CopyRead
<1>6. CASE f = "number" /\ limited
  <2>1. u = Bytes16(LIMITED_IFNO)
    BY <1>1, <1>6, CopyIs DEF Hidden
  <2>2. PICK n \in Nat : n = 16 /\ n > 0 /\ 2 * n <= size /\ 2 * n \in Nat
    BY <1>4, <1>6, FieldLengths
  <2>3. IsChars(LIMITED_IFNO, n)
    BY <2>2, LimitedChars
  <2>4. Long(u, 2 * n)
    BY <2>1, <2>3, BytesOf
  <2>5. Visible(Characters(Bytes16(LIMITED_IFNO), 2 * n, size)) = LIMITED_IFNO
    BY <2>2, <2>3, FullSeen
  <2>6. QED
    BY <1>3, <1>5, <1>6, <2>1, <2>2, <2>4, <2>5
<1>7. CASE ~(f = "number" /\ limited)
  <2>1. u = Bytes16(card[f])
    BY <1>1, <1>7, CopyIs DEF Hidden, IsCut
  <2>2. PICK n \in Nat : n = CharsOf(f) /\ n > 0 /\ IsChars(card[f], n)
    BY <1>2, CardChars
  <2>3. 2 * n \in Nat /\ 2 * n <= size
    BY <1>4, <2>2, FieldLengths
  <2>4. PICK chars : chars = card[f]
    OBVIOUS
  <2>5. Long(u, 2 * n)
    BY <2>1, <2>2, BytesOf
  <2>6. read = Characters(Bytes16(chars), 2 * n, size)
    BY <1>5, <2>1, <2>3, <2>4, <2>5
  <2>7. Visible(read) = chars
    BY <2>2, <2>3, <2>4, <2>6, FullSeen
  <2>8. (\A i \in 1..n : chars[i] > 32) => Trim(read) = chars
    BY <2>2, <2>3, <2>4, <2>6, FullTrimmed
  <2>9. QED
    BY <1>3, <1>7, <2>2, <2>4, <2>7, <2>8
<1>8. QED
  BY <1>6, <1>7

\* The codes of a card are shown as what they stand for.
LEMMA CodesAre ==
  ASSUME NEW card \in Cards, NEW limited \in BOOLEAN, NEW beyond
  PROVE  LET msg == CardMsg(card, limited, beyond)
         IN /\ Digits(getSex(JavaText("sex", msg)))[2] = card["sex"][1]
            /\ \A n \in 0..99 : card["nation"] = Digits(n) =>
                 getMinZu(JavaText("nation", msg)) = IF n \in (1..57) \ {40} THEN n ELSE 0
<1>1. PICK msg : msg = CardMsg(card, limited, beyond)
  OBVIOUS
<1>2. PICK sex : sex = card["sex"]
  OBVIOUS
<1>3. Long(sex, 1)
  BY <1>2, CardChars, FieldsAre, FieldLengths DEF IsChars
<1>4. sex[1] \in {48, 49, 50, 57}
  BY <1>2, CardsAssumption
<1>5. \A i \in 1..CharsOf("sex") : card["sex"][i] > 32
  BY <1>2, <1>4, FieldLengths
<1>6. Trim(JavaText("sex", msg)) = sex
  BY <1>1, <1>2, <1>5, FieldRead
<1>7. Digits(getSex(JavaText("sex", msg)))[2] = sex[1]
  BY <1>3, <1>4, <1>6, SexIs
<1>8. ASSUME NEW n \in 0..99, card["nation"] = Digits(n)
      PROVE  getMinZu(JavaText("nation", msg)) = IF n \in (1..57) \ {40} THEN n ELSE 0
  <2>1. n \in Nat /\ n < 100
    OBVIOUS
  <2>2. Digits(n)[1] > 32 /\ Digits(n)[2] > 32
    BY <2>1 DEF Digits
  <2>3. \A i \in 1..CharsOf("nation") : card["nation"][i] > 32
    BY <1>8, <2>2, FieldLengths
  <2>4. Trim(JavaText("nation", msg)) = Digits(n)
    BY <1>1, <1>8, <2>3, FieldRead
  <2>5. QED
    BY <2>1, <2>4, NationIs
<1>9. QED
  BY <1>1, <1>2, <1>7, <1>8

\* What FieldsShown says of a conversion.
TextsOf(conv) ==
  conv.of = "card" =>
    \A f \in {"name", "address", "authority", "period"} :
      IF f = "address" /\ conv.limited
        THEN conv.shown.text[f] = LIMITED_IFNO
        ELSE GoodText(conv.card[f], conv.shown.text[f])
CodesOf(conv) ==
  conv.of = "card" =>
    /\ conv.shown.text["birth"] = conv.card["birth"]
    /\ conv.shown.text["number"] =
         IF conv.limited THEN LIMITED_IFNO ELSE conv.card["number"]
    /\ Digits(conv.shown.sex)[2] = conv.card["sex"][1]
    /\ \A n \in 0..99 : conv.card["nation"] = Digits(n) =>
                          conv.shown.nation = IF n \in (1..57) \ {40} THEN n ELSE 0

LEMMA FieldsOf ==
  /\ FieldsShown <=> TextsOf(last) /\ CodesOf(last)
  /\ FieldsShown' <=> TextsOf(last') /\ CodesOf(last')
<1>1. (TextShown <=> TextsOf(last)) /\ (TextShown' <=> TextsOf(last'))
  BY Zenon DEF TextShown, TextsOf, GoodText
<1>2. (CodesShown <=> CodesOf(last)) /\ (CodesShown' <=> CodesOf(last'))
  BY Zenon DEF CodesShown, CodesOf
<1>3. QED
  BY <1>1, <1>2 DEF FieldsShown

\* The screen shows every card: its texts, as far as the code can know where
\* they end, and its codes.
THEOREM FieldsAlwaysShown == Spec => []FieldsShown
<1>1. Init => FieldsShown
  <2>1. Init => last.of # "card"
    BY DEF Init
  <2>2. QED
    BY <2>1, FieldsOf DEF TextsOf, CodesOf
<1>2. FieldsShown /\ [Next]_vars => FieldsShown'
  <2> SUFFICES ASSUME FieldsShown, [Next]_vars PROVE FieldsShown'
    OBVIOUS
  <2>1. CASE UNCHANGED vars
    <3>1. last' = last
      BY <2>1 DEF vars
    <3>2. QED
      BY <3>1, FieldsOf
  <2>2. CASE ShowCard
    <3>1. PICK card \in Cards, limited \in BOOLEAN, beyond \in Beyonds :
            Convert([of |-> "card", card |-> card, limited |-> limited,
                     shown |-> Shown(card, limited, beyond)])
      BY <2>2 DEF ShowCard
    <3>2. PICK shown : shown = Shown(card, limited, beyond)
      OBVIOUS
    <3>3. PICK msg : msg = CardMsg(card, limited, beyond)
      OBVIOUS
    <3>4. /\ last'.of = "card" /\ last'.card = card
          /\ last'.limited = limited /\ last'.shown = shown
      BY <3>1, <3>2 DEF Convert
    <3>5. shown = [text   |-> [f \in FieldNames \ {"sex", "nation"} |-> Visible(JavaText(f, msg))],
                   sex    |-> getSex(JavaText("sex", msg)),
                   nation |-> getMinZu(JavaText("nation", msg))]
      BY <3>2, <3>3, Zenon DEF Shown
    <3>6. /\ \A f \in FieldNames \ {"sex", "nation"} : shown.text[f] = Visible(JavaText(f, msg))
          /\ shown.sex = getSex(JavaText("sex", msg))
          /\ shown.nation = getMinZu(JavaText("nation", msg))
      BY <3>5
    <3>7. TextsOf(last')
      <4>1. ASSUME NEW f \in {"name", "address", "authority", "period"}
            PROVE  IF f = "address" /\ limited THEN shown.text[f] = LIMITED_IFNO
                                              ELSE GoodText(card[f], shown.text[f])
        <5>1. f \in FieldNames \ {"sex", "nation"}
          BY FieldsAre
        <5>2. shown.text[f] = Visible(JavaText(f, msg))
          BY <3>6, <5>1
        <5>3. QED
          BY <3>3, <5>2, TextIs
      <4>2. QED
        BY <3>4, <4>1, Zenon DEF TextsOf
    <3>8. CodesOf(last')
      <4>1. "birth" \in FieldNames \ {"sex", "nation"} /\ "number" \in FieldNames \ {"sex", "nation"}
        BY FieldsAre
      <4>2. shown.text["birth"] = card["birth"]
        BY <3>3, <3>6, <4>1, FieldRead
      <4>3. shown.text["number"] = IF limited THEN LIMITED_IFNO ELSE card["number"]
        BY <3>3, <3>6, <4>1, FieldRead
      <4>4. /\ Digits(shown.sex)[2] = card["sex"][1]
            /\ \A n \in 0..99 : card["nation"] = Digits(n) =>
                 shown.nation = IF n \in (1..57) \ {40} THEN n ELSE 0
        BY <3>3, <3>6, CodesAre
      <4>5. QED
        BY <3>4, <4>2, <4>3, <4>4 DEF CodesOf
    <3>9. QED
      BY <3>7, <3>8, FieldsOf
  <2>3. CASE OpenBoard
    <3>1. last'.of = "board"
      BY <2>3 DEF OpenBoard, Convert
    <3>2. QED
      BY <3>1, FieldsOf DEF TextsOf, CodesOf
  <2>4. CASE \E s \in Serials : SetPhoneSerial(s)
    <3>1. last'.of = "none"
      BY <2>4 DEF SetPhoneSerial
    <3>2. QED
      BY <3>1, FieldsOf DEF TextsOf, CodesOf
  <2>5. CASE SendSerial
    <3>1. last'.of = "serial"
      BY <2>5 DEF SendSerial
    <3>2. QED
      BY <3>1, FieldsOf DEF TextsOf, CodesOf
  <2>6. CASE DecryptCard
    <3>1. last'.of = "block"
      BY <2>6 DEF DecryptCard, Convert
    <3>2. QED
      BY <3>1, FieldsOf DEF TextsOf, CodesOf
  <2>7. CASE SetLine
    <3>1. last'.of = "line"
      BY <2>7 DEF SetLine, Convert
    <3>2. QED
      BY <3>1, FieldsOf DEF TextsOf, CodesOf
  <2>8. CASE SendCommand
    <3>1. last'.of = "command"
      BY <2>8 DEF SendCommand, Convert
    <3>2. QED
      BY <3>1, FieldsOf DEF TextsOf, CodesOf
  <2>9. CASE ReceiveAnswer
    <3>1. last'.of = "answer"
      BY <2>9 DEF ReceiveAnswer, Convert
    <3>2. QED
      BY <3>1, FieldsOf DEF TextsOf, CodesOf
  <2>10. CASE SendMessage
    <3>1. last'.of = "message"
      BY <2>10 DEF SendMessage, Convert
    <3>2. QED
      BY <3>1, FieldsOf DEF TextsOf, CodesOf
  <2>11. QED
    BY <2>1, <2>2, <2>3, <2>4, <2>5, <2>6, <2>7, <2>8, <2>9, <2>10 DEF Next
<1>3. QED
  BY <1>1, <1>2, PTL DEF Spec
=============================================================================
