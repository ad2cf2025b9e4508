-------------------------------- MODULE CardText --------------------------------
(***************************************************************************)
(* From the bytes of a card to what the screen shows, as functions: the    *)
(* end of NFCCardReader, which cuts the decrypted text of a card into the  *)
(* fields of SCardMsg, and callBackFinish with UncodeUtils and             *)
(* MessageUtils, which read SCardMsg by offsets of their own.              *)
(*                                                                         *)
(* A character of a card is a number of 16 bits, the low byte first.       *)
(***************************************************************************)
EXTENDS Integers, Sequences, FiniteSetsExt

Char  == 1..65535
Blank == 32

\* Where a field is in the text of the card, and how long.
CardPart ==
  [name   |-> <<0, 30>>,   sex     |-> <<30, 2>>,  nation |-> <<32, 4>>,
   birth  |-> <<36, 16>>,  address |-> <<52, 70>>, number |-> <<122, 36>>,
   authority |-> <<158, 30>>, period |-> <<188, 68>>]

FieldNames == DOMAIN CardPart
CharsOf(f) == CardPart[f][2] \div 2

\* Where the compiler puts the members of SCardMsg, in the order of the header.
MsgMembers ==
  <<<<"number", 38>>, <<"name", 32>>, <<"sex", 4>>, <<"nation", 6>>, <<"birth", 18>>,
    <<"address", 92>>, <<"authority", 92>>, <<"period", 40>>, <<"photo", 1024>>, <<"dn", 16>>>>

MemberStart[k \in 1..Len(MsgMembers)] ==
  IF k = 1 THEN 0 ELSE MemberStart[k - 1] + MsgMembers[k - 1][2]

MsgOffset(f) == MemberStart[CHOOSE k \in 1..Len(MsgMembers) : MsgMembers[k][1] = f]

\* The first and the last byte of a field in callBackFinish.
JavaPart ==
  [number |-> <<0, 37>>,     name   |-> <<38, 69>>,  sex     |-> <<70, 73>>,
   nation |-> <<74, 79>>,    birth  |-> <<80, 97>>,  address |-> <<98, 189>>,
   authority |-> <<190, 281>>, period |-> <<282, 321>>]

-----------------------------------------------------------------------------
(* NFCCardReader                                                           *)

Bytes16(chars) ==
  [i \in 1..(2 * Len(chars)) |->
     LET c == chars[(i + 1) \div 2] IN IF i % 2 = 1 THEN c % 256 ELSE c \div 256]

\* Mutation: the first byte of a blank is taken for the blank.
UpToBlank_LowByte(bytes, beyond) ==
  LET stop == {i \in 0..(Len(bytes) - 1) : bytes[i + 1] = Blank}
  IN IF stop = {} THEN <<>> ELSE SubSeq(bytes, 1, Min(stop))

\* The bytes before the first 20 00, at whichever place it begins; nothing if
\* there is none.  After the last byte the loop looks at what is behind the
\* local array: `beyond`.
UpToBlank(bytes, beyond) ==
  LET next(i) == IF i + 2 <= Len(bytes) THEN bytes[i + 2] ELSE beyond
      stop == {i \in 0..(Len(bytes) - 1) : bytes[i + 1] = Blank /\ next(i) = 0}
  IN IF stop = {} THEN <<>> ELSE SubSeq(bytes, 1, Min(stop))

LIMITED_IFNO == [i \in 1..16 |-> 88]

\* The bytes that are copied to a member of SCardMsg.
Delivered(f, bytes, limited, beyond) ==
  CASE f \in {"address", "number"} /\ limited -> Bytes16(LIMITED_IFNO)
    [] f \in {"name", "address", "authority", "period"} /\ ~(f = "address" /\ limited)
                                              -> UpToBlank(bytes, beyond)
    [] OTHER -> bytes

\* What is written to SCardMsg, with the place that it is written to.
CardMsg(card, limited, beyond) ==
  {<<MsgOffset(f), Delivered(f, Bytes16(card[f]), limited, beyond)>> : f \in FieldNames}

\* The byte at an offset: the JNI entry has set to zero what is not written.
MsgByte(msg, i) ==
  LET here == {w \in msg : i - w[1] \in 0..(Len(w[2]) - 1)}
      copy == CHOOSE w \in here : TRUE
  IN IF here = {} THEN 0 ELSE copy[2][i - copy[1] + 1]

-----------------------------------------------------------------------------
(* callBackFinish                                                          *)

Byte2Unicode(bytes) == [i \in 1..(Len(bytes) \div 2) |-> bytes[2 * i - 1] + 256 * bytes[2 * i]]

JavaText(f, msg) ==
  LET first == JavaPart[f][1]
  IN Byte2Unicode([i \in 1..(JavaPart[f][2] - first + 1) |-> MsgByte(msg, first + i - 1)])

\* String.trim
Trim(text) ==
  LET real == {i \in DOMAIN text : text[i] > Blank}
  IN IF real = {} THEN <<>> ELSE SubSeq(text, Min(real), Max(real))

Digits(n) == <<48 + (n \div 10), 48 + (n % 10)>>

\* The texts that getMinZu compares with, in its order.
Listed(n) == IF n = 40 THEN <<52, 45>> ELSE Digits(n)

\* The number of the nation whose name is shown, or 0 for "not defined".
getMinZu(text) ==
  LET hits == {n \in 1..57 : Listed(n) = Trim(text)}
  IN IF hits = {} THEN 0 ELSE Min(hits)

\* 0 is also what is shown for anything else.
getSex(text) ==
  LET hits == {n \in {1, 2, 9} : <<48 + n>> = Trim(text)}
  IN IF hits = {} THEN 0 ELSE Min(hits)

\* The text of a field as it is seen: the zeros behind it show nothing.
Visible(text) ==
  LET real == {i \in DOMAIN text : text[i] # 0}
  IN IF real = {} THEN <<>> ELSE SubSeq(text, 1, Max(real))

\* What the screen shows of a card.
Shown(card, limited, beyond) ==
  LET msg == CardMsg(card, limited, beyond)
  IN [text   |-> [f \in FieldNames \ {"sex", "nation"} |-> Visible(JavaText(f, msg))],
      sex    |-> getSex(JavaText("sex", msg)),
      nation |-> getMinZu(JavaText("nation", msg))]
=============================================================================
