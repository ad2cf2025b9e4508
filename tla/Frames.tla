--------------------------------- MODULE Frames ---------------------------------
(***************************************************************************)
(* The bytes that the readers put on the line, as functions: the frames of *)
(* the PN532 board (nfcprotocol.cpp) and the messages to the card server   *)
(* (netprotocol.cpp).  What the board and the server make of them is not   *)
(* in the repository and follows the PN532 frame format and the layout     *)
(* that the readers write.                                                 *)
(***************************************************************************)
EXTENDS Integers, Sequences, SequencesExt, FiniteSetsExt

\* The bytes added up, and the byte that is left of that.
Total(s)  == LET sum[i \in 0..Len(s)] == IF i = 0 THEN 0 ELSE sum[i - 1] + s[i]
             IN sum[Len(s)]
Bytes(s)  == Total(s) % 256
Not(byte) == 255 - byte

\* Positions count from 1; the source counts from 0.
PREAMBLE    == <<0, 0, 255>>
HOSTTOPN532 == 212
PN532TOHOST == 213
NFC_ACK     == <<0, 0, 255, 0, 255, 0>>

-----------------------------------------------------------------------------
(* Frames of the board                                                     *)

\* Preamble, length and its complement, direction, command, check sum, end.
buildCommand(cmd) ==
  PREAMBLE \o <<Len(cmd) + 1, (256 - (Len(cmd) + 1)) % 256, HOSTTOPN532>>
           \o cmd \o <<Not(Bytes(PREAMBLE \o <<HOSTTOPN532>> \o cmd)), 0>>

\* Does the board take a frame?  The length and its complement add up to 0, as
\* do the data and the check sum.
BoardTakes(frame) ==
  LET n == frame[4]
  IN /\ SubSeq(frame, 1, 3) = PREAMBLE
     /\ (n + frame[5]) % 256 = 0
     /\ Len(frame) = n + 7
     /\ Bytes(SubSeq(frame, 6, n + 6)) = 0

\* Its answer to InCommunicateThru (42): the acknowledgement, and a frame with
\* the status and the data.
BoardAnswer(data) ==
  LET body == <<PN532TOHOST, 67, 0>> \o data
  IN NFC_ACK \o PREAMBLE \o <<Len(body), 256 - Len(body)>> \o body
             \o <<(256 - Bytes(body)) % 256, 0>>

ACK_FRAME_LEN(len) == Len(NFC_ACK) + Len(PREAMBLE) + 2 + len + 1 + 1

\* The check sum covers the preamble and the data, not the length.
\* Mutation: the data only from the answer's fourth byte on.
CheckSum_Late(frame) ==
  Not(Bytes(SubSeq(frame, 1, 3) \o SubSeq(frame, 9, Len(frame) - 2))) = frame[Len(frame) - 1]

CheckSum(frame) ==
  Not(Bytes(SubSeq(frame, 1, 3) \o SubSeq(frame, 6, Len(frame) - 2))) = frame[Len(frame) - 1]

\* What CmdRequest makes of the first `off` bytes: it waits for more unless
\* they are as many as the length byte announces.
\* The error is no data.
Error == <<-1>>
Complete(buff, off) ==
  off > 9 /\ buff[10] > 0 /\ off = ACK_FRAME_LEN(buff[10])

Parsed(buff, off) ==
  IF /\ CheckSum(SubSeq(buff, 7, off))
     /\ SubSeq(buff, 1, 6) = NFC_ACK
     /\ SubSeq(buff, 7, 9) = PREAMBLE
    THEN SubSeq(buff, 15, 14 + buff[10] - 3)
    ELSE Error

\* The answer comes in two parts, the second from cut + 1 on; the first place
\* where it looks complete decides, and if there is none the time runs out.
Received(bytes, cut) ==
  LET at == {off \in {cut, Len(bytes)} : Complete(bytes, off)}
  IN IF at = {} THEN Error ELSE Parsed(bytes, Min(at))

-----------------------------------------------------------------------------
(* Messages to the server                                                  *)

\* A part: its length in two bytes, its bytes, and a zero if asked for.
CopyNetData(buff, lenflat) ==
  LET len == Len(buff) + (IF lenflat THEN 1 ELSE 0)
  IN <<(len \div 256) % 256, len % 256>> \o buff
        \o (IF lenflat THEN <<0>> ELSE <<>>)

BuildNetHead(cmd, packnum, len) == <<cmd, packnum, (len \div 256) % 256, len % 256>>

\* A message of two parts, as STARTRDCARD_ACK and INAUTH_ACK are sent.
NetMessage(cmd, first, second) ==
  LET parts == CopyNetData(first, TRUE) \o CopyNetData(second, TRUE)
  IN BuildNetHead(cmd, 2, Len(parts)) \o parts

\* The parts as a server finds them by their lengths, without the zero.
Number(hi, lo) == hi * 256 + lo
NetParts(message) ==
  LET n == Number(message[5], message[6])
      m == Number(message[7 + n], message[8 + n])
  IN [length |-> Number(message[3], message[4]),
      first  |-> SubSeq(message, 7, 5 + n),
      second |-> SubSeq(message, 9 + n, 7 + n + m)]
=============================================================================
