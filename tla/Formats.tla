--------------------------------- MODULE Formats ---------------------------------
(***************************************************************************)
(* The conversions on the way of a read, one step each: the serial number  *)
(* is stored and sent encrypted, commands and answers travel in frames,    *)
(* messages in parts, a board has its line set and its endpoints found,    *)
(* and the text of a card is decrypted and shown.  The modules of the      *)
(* callers are JavaReadCard, ReadCard, NfcProtocol and NfcDevice; here     *)
(* each is compared with what the other side makes of it.                  *)
(***************************************************************************)
EXTENDS Ciphers, Frames, CardText, BoardLine

CONSTANTS
  Serials,    \* serial numbers that the application sets, as bytes
  MaxSets,    \* bound: how often it does
  Cards,      \* texts of cards, as functions from field names to characters
  Beyonds,    \* bytes that may lie behind a local array
  CardKeys,   \* keys that come with a card, of eight bytes
  Blocks,     \* decrypted data, as sequences of words
  Commands,   \* commands for the board, as bytes
  Answers,    \* data of its answers, as bytes
  WrongBytes, \* what a byte may turn into on the line
  Parts,      \* lengths of the parts of a message
  Speeds,     \* speeds that a line is set to
  Boards      \* USB devices of the product: their descriptors

\* A serial is a C string: it has no zero.
ASSUME SerialsAssumption == \A s \in Serials : s \in Seq(1..255)

\* A text fills its field, with blanks at the end; the dates of a card take 16
\* characters.  Sex and nation are codes of the standards for cards.
ASSUME CardsAssumption ==
  \A card \in Cards :
    /\ \A f \in FieldNames : card[f] \in [1..CharsOf(f) -> Char]
    /\ \A i \in 17..CharsOf("period") : card["period"][i] = Blank
    /\ card["sex"][1] \in {48, 49, 50, 57}
    /\ \E n \in 0..99 : card["nation"] = Digits(n)
ASSUME BeyondsAssumption == Beyonds \subseteq Byte

\* TEA is made for two words and more.
ASSUME BlocksAssumption ==
  \A v \in Blocks : v \in Seq((0..(Half - 1)) \X (0..(Half - 1))) /\ Len(v) >= 2
ASSUME CardKeysAssumption == CardKeys \subseteq [1..8 -> Byte]

\* A frame has one byte for its length, a message two.
ASSUME CommandsAssumption == \A cmd \in Commands : cmd \in Seq(Byte) /\ Len(cmd) < 255
ASSUME AnswersAssumption == \A data \in Answers : data \in Seq(Byte) /\ Len(data) < 253
ASSUME WrongBytesAssumption == WrongBytes \subseteq Byte
ASSUME PartsAssumption ==
  Parts \subseteq Nat /\ \A m, n \in Parts : m + n + 6 < Half

\* A board has its first two endpoints in one interface, one in each direction.
\* What else it has, before and after, is of any kind.
IsEndpoint(desc) == desc.type \in {"in", "out"}
FirstPair(descs, i, a, b) ==
  /\ i < a /\ a < b
  /\ descs[i].type = "interface"
  /\ \/ descs[a].type = "in" /\ descs[b].type = "out"
     \/ descs[a].type = "out" /\ descs[b].type = "in"
  /\ \A k \in 1..b : IsEndpoint(descs[k]) => k \in {a, b}
  /\ \A k \in i..b : descs[k].type = "interface" => k = i
ASSUME BoardsAssumption ==
  \A descs \in Boards :
    /\ descs \in Seq([type : STRING, number : Nat])
    /\ \E i, a, b \in DOMAIN descs : FirstPair(descs, i, a, b)
ASSUME SpeedsAssumption == Speeds \subseteq Nat

VARIABLES
  m_phoneSerial, \* the array that SetPhoneSerial writes
  given,         \* history: the serials it was given
  last           \* the last conversion: what went in and what came out
vars == <<m_phoneSerial, given, last>>

Init ==
  /\ m_phoneSerial = Zeros(64)
  /\ given = <<>>
  /\ last = [of |-> "none"]

\* strlen of an array whose last byte is zero.
StrLen(s) == Min({i \in 1..Len(s) : s[i] = 0}) - 1

\* Mutation: one byte fewer is copied, as if the length counted the zero.
Copied_Fewer(s) ==
  [i \in 1..64 |-> IF i < Min({Len(s), 50}) THEN s[i] ELSE m_phoneSerial[i]]

\* strncpy of at most 50 bytes puts no zero behind a serial of its own length.
Copied(s) ==
  LET setlen == Min({Len(s), 50})
  IN [i \in 1..64 |-> IF i <= setlen THEN s[i] ELSE m_phoneSerial[i]]

SetPhoneSerial(s) ==
  /\ Len(given) < MaxSets /\ last.of \in {"none", "serial"}
  /\ given' = Append(given, s)
  /\ m_phoneSerial' = Copied(s)
  /\ last' = [of |-> "none"]

Time == <<48, 57, 51, 48, 49, 53>>

\* NFCCardReader takes a serial of 2 to 50 bytes into a local array of 32,
\* zero included: what more than 31 do to it is undefined and left out.  The
\* serial is sent encrypted.
SendSerial ==
  LET n == StrLen(m_phoneSerial)
      serial == SubSeq(m_phoneSerial, 1, n)
  IN /\ n \in 2..31 /\ last.of = "none"
     /\ last' = [of |-> "serial", serial |-> serial,
                 sent |-> sm4_serial_encode(Time, serial)]
     /\ UNCHANGED <<m_phoneSerial, given>>

\* The other conversions keep nothing between them: each is looked at once,
\* from the start.
Convert(record) ==
  /\ given = <<>> /\ last.of = "none"
  /\ last' = record
  /\ UNCHANGED <<m_phoneSerial, given>>

\* The card server encrypts, the reader decrypts with the key of the card.
ServerKey(keys) ==
  LET BigEndian(b) == <<b[1] * 256 + b[2], b[3] * 256 + b[4]>>
      fixed == KeyWords(TeaKeyBytes)
  IN <<BigEndian(SubSeq(keys, 1, 4)), fixed[2], BigEndian(SubSeq(keys, 5, 8)), fixed[4]>>

DecryptCard ==
  \E v \in Blocks, keys \in CardKeys :
    Convert([of |-> "block", plain |-> v,
             got |-> callTeaByteIn(TeaEncrypt(v, ServerKey(keys)), keys)])

ShowCard ==
  \E card \in Cards, limited \in BOOLEAN, beyond \in Beyonds :
    Convert([of |-> "card", card |-> card, limited |-> limited,
             shown |-> Shown(card, limited, beyond)])

SendCommand ==
  \E cmd \in Commands :
    Convert([of |-> "command", cmd |-> cmd, frame |-> buildCommand(cmd)])

\* The answer arrives in up to two parts, with at most one byte changed.
ReceiveAnswer ==
  \E data \in Answers, byte \in WrongBytes :
    LET sent == BoardAnswer(data) IN
    \E at \in DOMAIN sent, cut \in DOMAIN sent :
      Convert([of |-> "answer", data |-> data, at |-> at, whole |-> cut = Len(sent),
               wrong |-> sent[at] # byte,
               got |-> Received([sent EXCEPT ![at] = byte], cut)])

SendMessage ==
  \E m \in Parts, n \in Parts :
    LET first == [i \in 1..m |-> 1]
        second == [i \in 1..n |-> 2]
    IN Convert([of |-> "message", m |-> m, n |-> n,
                parts |-> NetParts(NetMessage(17, first, second)) =
                            [length |-> m + n + 6, first |-> first, second |-> second]])

\* The same settings to a board on a cable and to one on a serial port.
SetLine ==
  \E speed \in Speeds, databits \in 0..8, stopbits \in 0..2,
     parity \in 0..4 \cup {78} :
    Convert([of |-> "line", asked |-> Line(speed, databits, stopbits, parity),
             cable |-> ChipLine(Registers(speed, databits, stopbits, parity)),
             port |-> SettingPort(speed, databits, stopbits, parity)])

OpenBoard ==
  \E descs \in Boards :
    Convert([of |-> "board", descs |-> descs, got |-> EndpointsOf(descs)])

Next ==
  \/ \E s \in Serials : SetPhoneSerial(s)
  \/ SendSerial \/ DecryptCard \/ ShowCard
  \/ SendCommand \/ ReceiveAnswer \/ SendMessage
  \/ SetLine \/ OpenBoard

Spec == Init /\ [][Next]_vars

-----------------------------------------------------------------------------
(* Properties                                                              *)

\* The serial that is sent is the one set last, unless a longer one was set
\* before: then its end stays behind the new one.
SerialSent ==
  last.of = "serial" =>
    LET s == given[Len(given)]
    IN /\ IsPrefix(s, last.serial)
       /\ (\A i \in DOMAIN given : Len(given[i]) <= Len(s)) => last.serial = s

\* The server that decrypts what is sent finds the time and the serial in it,
\* also where the serial runs over into another block.
SerialReceived ==
  last.of = "serial" =>
    sm4_crypt_ecb(sm4_setkey_dec(VerifyKey), last.sent) = SerialText(Time, last.serial)

\* A serial that is set arrives at the authorisation server.
SerialArrives == SerialSent /\ SerialReceived

\* Whatever the length and the key, the data of a card are what the server
\* encrypted.
CardDecrypted == last.of = "block" => last.got = last.plain

\* A text is regular if it ends in blanks, has none inside, and has no
\* character 20xx before one of the form xx00, whose bytes look like a blank.
Meant(chars)  == LET real == {i \in DOMAIN chars : chars[i] # Blank}
                 IN IF real = {} THEN <<>> ELSE SubSeq(chars, 1, Max(real))
LooksBlank(chars) ==
  \E i \in 1..(Len(chars) - 1) : chars[i] \div 256 = 32 /\ chars[i + 1] % 256 = 0
Regular(chars) ==
  /\ chars[Len(chars)] = Blank
  /\ \A i \in DOMAIN Meant(chars) : chars[i] # Blank
  /\ ~LooksBlank(chars)

\* A regular text is shown as it is.  Of any other, no character is shown that
\* is not on the card at that place, but for half a character at the end, and
\* of a text that fills its field nothing, or all but the upper half of its
\* last character.  What the limited version hides is hidden.
TextShown ==
  last.of = "card" =>
    \A f \in {"name", "address", "authority", "period"} :
      LET chars == last.card[f]
          shown == last.shown.text[f]
          n == Len(shown)
      IN IF f = "address" /\ last.limited
           THEN shown = LIMITED_IFNO
           ELSE /\ Regular(chars) => shown = Meant(chars)
                /\ n <= Len(Meant(chars))
                /\ \A i \in 1..(n - 1) : shown[i] = chars[i]
                /\ n > 0 => shown[n] \in {chars[n], chars[n] % 256}
                /\ n > 0 /\ Blank \notin ToSet(chars) /\ ~LooksBlank(chars) =>
                     LET half == chars[Len(chars)] % 256
                     IN \/ n = Len(chars) /\ shown[n] = half /\ half # chars[n]
                        \/ n = Len(chars) - 1 /\ half = 0

\* Birth and number are shown in full, in their places of SCardMsg, and the
\* codes of sex and nation as what they stand for: but for nation 40.
CodesShown ==
  last.of = "card" =>
    /\ last.shown.text["birth"] = last.card["birth"]
    /\ last.shown.text["number"] =
         IF last.limited THEN LIMITED_IFNO ELSE last.card["number"]
    /\ Digits(last.shown.sex)[2] = last.card["sex"][1]
    /\ \A n \in 0..99 : last.card["nation"] = Digits(n) =>
                          last.shown.nation = IF n \in (1..57) \ {40} THEN n ELSE 0

\* The screen shows the card: its texts and its codes.
FieldsShown == TextShown /\ CodesShown

\* The board takes every frame that is sent to it.
BoardTakesCommands == last.of = "command" => BoardTakes(last.frame)

\* An answer that arrives unchanged is received, in however many parts.  One
\* wrong byte never makes a different answer, unless it is the length: the
\* check sum does not cover it, and its complement is not looked at.
WrongByteNoticed ==
  last.of = "answer" =>
    /\ ~last.wrong => last.got = last.data
    /\ last.at # 10 \/ last.whole => last.got \in {last.data, Error}

\* A server that follows the lengths finds both parts of a message, whole.
PartsFound == last.of = "message" => last.parts

\* What is framed here is found there, whole, or known to be spoilt.
FramesHold == BoardTakesCommands /\ WrongByteNoticed /\ PartsFound

\* The chip on a cable works with what was asked for: within a hundredth at a
\* speed of the table, at 9600 otherwise.  With no parity a serial port is set
\* to the same, but for two speeds that it mistakes for 19200.
LineSet ==
  last.of = "line" =>
    LET asked == last.asked
        speed == IF asked.baud \in KnownOTG THEN asked.baud ELSE 9600
        Near(m, n) == (m - n) * 100 \in -n..n
    IN /\ Near(last.cable.baud, speed)
       /\ last.cable.bits = IF asked.bits < 5 THEN 8 ELSE asked.bits
       /\ last.cable.stop = IF asked.stop = 2 THEN 2 ELSE 1
       /\ last.cable.parity = IF asked.parity \notin 1..4 THEN "none"
                              ELSE <<"odd", "even", "mark", "space">>[asked.parity]
       /\ asked.parity \notin 1..4 =>
            /\ last.port = [last.cable EXCEPT !.baud = last.port.baud]
            /\ \/ asked.baud \in {38400, 57600}
               \/ asked.baud \in KnownOTG \ KnownPort
               \/ asked.baud \in KnownPort \ KnownOTG
               \/ Near(last.cable.baud, last.port.baud)

\* Commands go to an output, answers are read from an input, and the interface
\* that is claimed is the one that both belong to.
EndpointsFound ==
  last.of = "board" =>
    LET descs == last.descs
        Owner(ep) == LET at == Min({i \in DOMAIN descs : descs[i] = ep})
                     IN descs[Max({i \in 1..at : descs[i].type = "interface"})].number
    IN /\ last.got.rd.type = "in" /\ last.got.wr.type = "out"
       /\ Owner(last.got.rd) = last.got.interface
       /\ Owner(last.got.wr) = last.got.interface

\* A board that was opened can be talked to.
BoardSetUp == LineSet /\ EndpointsFound

\* MessageUtils lists 57 nations; each is shown by its name.
NationNamed ==
  last.of = "card" =>
    \A n \in 1..57 : last.card["nation"] = Digits(n) => last.shown.nation = n
=============================================================================
