-------------------------------- MODULE Ciphers --------------------------------
(***************************************************************************)
(* The block ciphers of the readers, as functions.                         *)
(*                                                                         *)
(* SM4 (sm4.cpp) carries the serial number to the servers, TEA             *)
(* (TeaDecrypt and TeaEncrypt of readcard.cpp) brings the data of the card *)
(* back.  A 32-bit word of SM4 is four bytes, the most significant first;  *)
(* one of TEA is two halves of 16 bits, as TLC's integers are narrower     *)
(* than the products.                                                      *)
(***************************************************************************)
EXTENDS Integers, Sequences, SequencesExt

Byte == 0..255
Zeros(n) == [i \in 1..n |-> 0]
Power(n) == <<1, 2, 4, 8, 16, 32, 64, 128>>[n + 1]  \* of two

\* Exclusive or, of four bits looked up in a table and of 16 by fours.
Xor4(a, b) == LET bit(w) == (a \div w + b \div w) % 2
              IN bit(1) + 2 * bit(2) + 4 * bit(4) + 8 * bit(8)
XorTable   == [a \in 0..15 |-> [b \in 0..15 |-> Xor4(a, b)]]
Digit(a, w) == (a \div w) % 16
Xor(a, b)  == LET digit(w) == XorTable[Digit(a, w)][Digit(b, w)]
              IN digit(1) + 16 * digit(16) + 256 * digit(256) + 4096 * digit(4096)

\* Of two words of four bytes, and of three.
BytesXor(a, b)     == <<Xor(a[1], b[1]), Xor(a[2], b[2]), Xor(a[3], b[3]), Xor(a[4], b[4])>>
BytesXor3(a, b, c) == BytesXor(a, BytesXor(b, c))

-----------------------------------------------------------------------------
(* SM4                                                                     *)

FK == << <<163, 177, 186, 198>>, <<86, 170, 51, 80>>,
         <<103, 125, 145, 151>>, <<178, 112, 34, 220>> >>

\* The table of the source follows this rule.
CK(i) == [j \in 1..4 |-> ((4 * i + j - 1) * 7) % 256]

SboxTable ==
  <<214, 144, 233, 254, 204, 225, 61, 183, 22, 182, 20, 194, 40, 251, 44, 5,
    43, 103, 154, 118, 42, 190, 4, 195, 170, 68, 19, 38, 73, 134, 6, 153,
    156, 66, 80, 244, 145, 239, 152, 122, 51, 84, 11, 67, 237, 207, 172, 98,
    228, 179, 28, 169, 201, 8, 232, 149, 128, 223, 148, 250, 117, 143, 63, 166,
    71, 7, 167, 252, 243, 115, 23, 186, 131, 89, 60, 25, 230, 133, 79, 168,
    104, 107, 129, 178, 113, 100, 218, 139, 248, 235, 15, 75, 112, 86, 157, 53,
    30, 36, 14, 94, 99, 88, 209, 162, 37, 34, 124, 59, 1, 33, 120, 135,
    212, 0, 70, 87, 159, 211, 39, 82, 76, 54, 2, 231, 160, 196, 200, 158,
    234, 191, 138, 210, 64, 199, 56, 181, 163, 247, 242, 206, 249, 97, 21, 161,
    224, 174, 93, 164, 155, 52, 26, 85, 173, 147, 50, 48, 245, 140, 177, 227,
    29, 246, 226, 46, 130, 102, 202, 96, 192, 41, 35, 171, 13, 83, 78, 111,
    213, 219, 55, 69, 222, 253, 142, 47, 3, 255, 106, 114, 109, 108, 91, 81,
    141, 27, 175, 146, 187, 221, 188, 127, 17, 217, 92, 65, 31, 16, 90, 216,
    10, 193, 49, 136, 165, 205, 123, 189, 45, 116, 208, 18, 184, 229, 180, 176,
    137, 105, 151, 74, 12, 150, 119, 126, 101, 185, 241, 9, 197, 110, 198, 132,
    24, 240, 125, 236, 58, 220, 77, 32, 121, 238, 95, 62, 215, 203, 57, 72>>

sm4Sbox(word) == <<SboxTable[word[1] + 1], SboxTable[word[2] + 1],
                   SboxTable[word[3] + 1], SboxTable[word[4] + 1]>>

\* The word rotated to the left by n bits.
ROTL(word, n) ==
  LET at(i) == word[((i - 1 + (n \div 8)) % 4) + 1]
      k     == Power(n % 8)
      turned(i) == ((at(i) * k) % 256) + ((at(i + 1) * k) \div 256)
  IN <<turned(1), turned(2), turned(3), turned(4)>>

sm4Lt(ka) ==
  LET b == sm4Sbox(ka)
  IN BytesXor3(b, BytesXor(ROTL(b, 2), ROTL(b, 10)),
                  BytesXor(ROTL(b, 18), ROTL(b, 24)))

sm4F(x0, x1, x2, x3, rk) == BytesXor(x0, sm4Lt(BytesXor3(x1, x2, BytesXor(x3, rk))))

sm4CalciRK(ka) ==
  LET b == sm4Sbox(ka) IN BytesXor3(b, ROTL(b, 13), ROTL(b, 23))

\* Four words of a block, and a block of four words.
Words(block) == [i \in 1..4 |-> SubSeq(block, 4 * i - 3, 4 * i)]

\* Both the key and a block are four words that move up by one in each round:
\* the new word is the first one, changed by what the other three make of it.
RoundKeys(key) ==
  LET keys[i \in 0..32] ==
        LET k == keys[i - 1]
        IN IF i = 0 THEN [j \in 1..4 |-> BytesXor(Words(key)[j], FK[j])]
           ELSE Append(k, BytesXor(k[i], sm4CalciRK(
                            BytesXor3(k[i + 1], k[i + 2], BytesXor(k[i + 3], CK(i - 1))))))
  IN keys[32]

Round(x, rk) == <<x[2], x[3], x[4], sm4F(x[1], x[2], x[3], x[4], rk)>>

Rounds(sk, block) ==
  LET x[i \in 0..32] == IF i = 0 THEN Words(block) ELSE Round(x[i - 1], sk[i])
  IN x[32]

sm4_setkey(key) == SubSeq(RoundKeys(key), 5, 36)

sm4_one_round(sk, input) ==
  LET x == Rounds(sk, input) IN x[4] \o x[3] \o x[2] \o x[1]

sm4_setkey_enc(key) == sm4_setkey(key)

sm4_setkey_dec(key) == Reverse(sm4_setkey(key))

\* A text of whole blocks, block by block.
sm4_crypt_ecb(sk, input) ==
  LET n     == Len(input) \div 16
      block == [b \in 1..n |-> sm4_one_round(sk, SubSeq(input, 16 * b - 15, 16 * b))]
  IN [i \in 1..(16 * n) |-> block[((i - 1) \div 16) + 1][((i - 1) % 16) + 1]]

\* The key of verify_client.cpp.
VerifyKey == <<1, 2, 3, 4, 6, 6, 7, 8, 9, 16, 17, 18, 19, 20, 21, 22>>
SM4_LEN   == 64

\* The text that carries the serial: six digits of the time, the serial, zeros.
SerialText(time, serial) ==
  time \o serial \o Zeros(SM4_LEN - Len(time) - Len(serial))

sm4_serial_encode(time, serial) ==
  sm4_crypt_ecb(sm4_setkey_enc(VerifyKey), SerialText(time, serial))

-----------------------------------------------------------------------------
(* TEA                                                                     *)

Half   == 65536

Plus(a, b) ==
  LET lo == a[2] + b[2]
  IN <<(a[1] + b[1] + (lo \div Half)) % Half, lo % Half>>

Less(a, b) ==
  LET lo == a[2] - b[2]
  IN <<(a[1] - b[1] - (IF lo < 0 THEN 1 ELSE 0)) % Half, lo % Half>>

WordXor(a, b) == <<Xor(a[1], b[1]), Xor(a[2], b[2])>>

\* Shifts by fewer than eight bits.
LeftBy(a, n) ==
  LET lo == a[2] * Power(n)
  IN <<(a[1] * Power(n) + (lo \div Half)) % Half, lo % Half>>

RightBy(a, n) ==
  LET k == Power(n)
  IN <<a[1] \div k, (a[1] % k) * (Half \div k) + (a[2] \div k)>>

\* -1640531527 as an unsigned word, and its multiples.
Delta    == <<40503, 31161>>
Multiple(n) == <<(Delta[1] * n + ((Delta[2] * n) \div Half)) % Half, (Delta[2] * n) % Half>>

\* Rounds for n words.
TeaRounds(n) == (52 \div n) + 6

\* What one step adds to the word at p (from 0) whose neighbours are z and y.
Mix(key, sum, p, y, z) ==
  LET e == (sum[2] \div 4) % 4
  IN WordXor(Plus(WordXor(key[Xor(p % 4, e) + 1], z), WordXor(sum, y)),
             Plus(WordXor(LeftBy(z, 4), RightBy(y, 3)),
                  WordXor(LeftBy(y, 2), RightBy(z, 5))))

\* The neighbours of the word at p in a ring of words.
After(v, p)  == v[IF p + 1 = Len(v) THEN 1 ELSE p + 2]
Before(v, p) == v[IF p = 0 THEN Len(v) ELSE p]

\* The k-th step, counted from 0, is at word k % n of round k \div n + 1, and
\* adds what the word's neighbours make; to decrypt, it takes that off again.
StepMix(key, v, k) ==
  LET p == k % Len(v) IN Mix(key, Multiple(k \div Len(v) + 1), p, After(v, p), Before(v, p))
Step(key, v, k)     == [v EXCEPT ![(k % Len(v)) + 1] = Plus(@, StepMix(key, v, k))]
StepBack(key, v, k) == [v EXCEPT ![(k % Len(v)) + 1] = Less(@, StepMix(key, v, k))]

Remix(key, v, steps) ==
  LET w[k \in 0..steps] == IF k = 0 THEN v ELSE Step(key, w[k - 1], k - 1) IN w[steps]

Unmix(key, v, steps) ==
  LET w[k \in 0..steps] == IF k = 0 THEN v ELSE StepBack(key, w[k - 1], steps - k)
  IN w[steps]

TeaSteps(v) == TeaRounds(Len(v)) * Len(v)

\* Mutation: one round fewer.
TeaDecrypt_Short(v, key) == Unmix(key, v, TeaSteps(v) - Len(v))

TeaDecrypt(v, key) == Unmix(key, v, TeaSteps(v))

TeaEncrypt(v, key) == Remix(key, v, TeaSteps(v))

\* The fixed key, and what the first pack of a card changes in it.
TeaKeyBytes == <<117, 154, 61, 184, 150, 184, 106, 231, 11, 196, 168, 83, 36, 141, 12, 83>>

\* callTeaByteIn: the eight bytes that came with the card, turned round by
\* fours, replace the first and the third word.
CardKeyBytes(keys) ==
  [i \in 1..16 |-> CASE i \in 1..4  -> keys[5 - i]
                     [] i \in 9..12 -> keys[17 - i]
                     [] OTHER       -> TeaKeyBytes[i]]

\* The key as four words, read with the low byte first.
LittleEndian(b, i) == <<b[i + 3] * 256 + b[i + 2], b[i + 1] * 256 + b[i]>>
KeyWords(b) ==
  <<LittleEndian(b, 1), LittleEndian(b, 5), LittleEndian(b, 9), LittleEndian(b, 13)>>

callTeaByteIn(v, keys) == TeaDecrypt(v, KeyWords(CardKeyBytes(keys)))
=============================================================================
