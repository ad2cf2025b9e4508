------------------------------- MODULE MCFormats -------------------------------
(* Inputs at the borders: lengths around what the arrays hold, characters whose
   bytes look like a blank, every nation, wrong bytes at every place. *)
EXTENDS Formats

\* The cipher is SM4: the first test vector that sm4.cpp quotes, its first and
\* last round key and its text.
TestPlain  == <<1, 35, 69, 103, 137, 171, 205, 239, 254, 220, 186, 152, 118, 84, 50, 16>>
TestCypher == <<104, 30, 223, 52, 210, 6, 150, 94, 134, 179, 233, 79, 83, 110, 66, 70>>
ASSUME TestVector ==
  LET rk == sm4_setkey_enc(TestPlain)
  IN /\ rk[1] = <<241, 33, 134, 249>> /\ rk[32] = <<145, 36, 160, 18>>
     /\ sm4_crypt_ecb(rk, TestPlain) = TestCypher

Letters(c, n) == [i \in 1..n |-> c]
MCSerials == {Letters(66, 11), Letters(67, 26), Letters(68, 31),
              Letters(69, 55)}

Padded(chars, n) == chars \o Letters(Blank, n - Len(chars))
Plain(f) == Padded(Letters(20013, 3), CharsOf(f))
APlainCard ==
  [name   |-> Plain("name"), sex |-> <<49>>, nation |-> Digits(1),
   birth  |-> Letters(49, 8), address |-> Plain("address"),
   number |-> Letters(50, 18), authority |-> Plain("authority"), period |-> Plain("period")]

\* Lengths of text in a field; the dates of a card take 16 characters.
Room(f) == IF f = "period" THEN 16 ELSE CharsOf(f)
Lengths(f) == {0, 1, Room(f) - 1, Room(f)}
\* What a text may end in: a letter, a blank inside, a dash (2014) before the
\* digit one (4E00), a dash, two letters of which the second ends in 00, a wide
\* space (2000).
Ends == {<<>>, <<Blank, 20013>>, <<8212, 19968>>, <<8212>>, <<20013, 19968>>, <<8192>>}
Texts(f) ==
  {Padded(Letters(20013, n - Len(e)) \o e, CharsOf(f)) :
     <<n, e>> \in {x \in Lengths(f) \X Ends : Len(x[2]) <= x[1]}}

MCCards ==
  UNION {{[APlainCard EXCEPT ![f] = t] : t \in Texts(f)} :
           f \in {"name", "address", "authority", "period"}}
  \cup {[APlainCard EXCEPT !.nation = Digits(n), !.sex = <<48 + s>>] :
          n \in 0..58 \cup {99}, s \in {0, 1, 2, 9}}

MCBeyonds  == {0, 1}
MCCardKeys == {<<1, 2, 3, 4, 5, 6, 7, 8>>, <<255, 0, 128, 127, 254, 1, 0, 255>>}
MCBlocks   == {SubSeq([i \in 1..n |-> <<(i * a) % Half, (i * (a + 7919)) % Half>>], 1, n) :
                 n \in {2, 3, 4, 7}, a \in {1, 40503}}
MCCommands == {<<18, 20>>, <<50, 1, 1>>, <<66, 5, 0, 0>>} \cup
              {<<66, a, b>> : a \in {0, 1, 128, 255}, b \in {0, 41, 42, 43}}
MCAnswers  == {<<>>, <<144, 0>>, <<1, 2, 3>>, <<255, 255>>, <<0, 0, 255, 3>>}
MCWrongBytes == {0, 1, 2, 3, 4, 5, 144, 255}
MCParts    == {0, 1, 18, 254, 255, 256, 514}

MCSpeeds   == KnownOTG \cup KnownPort \cup {0, 14400}

\* A device and a configuration; an interface with two data endpoints in either
\* order and perhaps a third for events, perhaps behind an interface that has
\* none, with descriptors of other kinds in between.
First == <<Desc("device", 0), Desc("configuration", 0)>>
MCBoards ==
  {First \o empty \o <<Desc("interface", 1)>> \o other \o pair \o events :
     empty \in {<<>>, <<Desc("interface", 0)>>}, other \in {<<>>, <<Desc("other", 0)>>},
     pair \in {<<Desc("in", 130), Desc("out", 2)>>, <<Desc("out", 2), Desc("in", 130)>>},
     events \in {<<>>, <<Desc("in", 129)>>}}
=============================================================================
