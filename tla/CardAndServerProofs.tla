-------------------------- MODULE CardAndServerProofs --------------------------
(***************************************************************************)
(* What the proofs about both readers share.                               *)
(*                                                                         *)
(* First the types of what passes between reader and server, and what      *)
(* connecting, disconnecting and the steps of the server preserve.  Then   *)
(* the conversation of a reader and the card server, from the greeting to  *)
(* the third pack of data: an inductive invariant that says, at every      *)
(* place of the reader's function, what is under way between the two, what *)
(* the server holds and what the reader's locals hold, and the proofs that *)
(* every step of the server, of a stranger, of the network and of a        *)
(* handler keeps it.                                                       *)
(***************************************************************************)
EXTENDS CardAndServer, SequenceTheorems, TLAPS

(* Types of messages                                                       *)

\* The empty message, buffer and body have their types.
LEMMA EmptyTypes ==
  /\ NoBlob \in Blobs
  /\ NoMsg \in CardMsgs
  /\ NoBody \in Bodies
  /\ NoMsg.dn = NoBlob
BY DEF NoBlob, Blob, Blobs, Files, NoMsg, CardMsgs, NoBody, Whole, Half, Bodies

\* A buffer's content and the messages made of it have their types.
LEMMA BlobTypes ==
  ASSUME NEW f \in Files, NEW n \in Nat
  PROVE  /\ Blob(f, n) \in Blobs
         /\ Blob(f, n).file = f
BY DEF Blob, Blobs

LEMMA MsgTypes ==
  ASSUME NEW c \in CltCmds, NEW b \in Blobs, NEW h \in 0..2
  PROVE  Msg(c, Half(h, b)) \in Msgs
BY DEF Msg, Msgs, Half, Blobs, Bodies

\* What the card may read from is a file, and a file command reads from none
\* that is empty.
LEMMA SelectsFiles ==
  ASSUME NEW s \in Files, NEW f \in Files
  PROVE  Selects(f, s) \subseteq Files /\ Answers(f) \subseteq Files
BY DEF Selects, Answers, Files

LEMMA SelectsBytes ==
  ASSUME NEW s \in Files, NEW f \in {"f6013", "f6021"}, NEW g \in Selects(f, s)
  PROVE  g \in Files \ {"none"} /\ (g # f => CardFails)
<1>1. f \in Files /\ f # "none" /\ FileLen[f] = 1024
  BY DEF Files, FileLen, CARD_PHOTO_LEN
<1>2. FileLen["none"] = 0
  BY DEF Files, FileLen
<1>3. g = f \/ (g = s /\ CardFails /\ FileLen[g] >= FileLen[f])
  BY DEF Selects
<1>4. CASE g = f
  BY <1>1, <1>4
<1>5. CASE g = s /\ CardFails /\ FileLen[g] >= FileLen[f]
  <2>1. g # "none"
    BY <1>1, <1>2, <1>5
  <2>2. QED
    BY <1>5, <2>1
<1>6. QED
  BY <1>3, <1>4, <1>5

\* Sockets are numbered in the order they are opened.
LEMMA NewSocket ==
  ASSUME NEW n \in Nat
  PROVE  /\ n + 1 \in Nat
         /\ n + 1 \in 1..(n + 1)
         /\ 1..n \subseteq 1..(n + 1)
  OBVIOUS

\* The sequences a step makes: none, one more, or one element.
LEMMA SmallSeqs ==
  ASSUME NEW S, NEW x \in S
  PROVE  /\ <<>> \in Seq(S)
         /\ <<x>> \in Seq(S)
         /\ \A q \in Seq(S) : Append(q, x) \in Seq(S)
  OBVIOUS

\* A message appended to what the server has not read yet.
LEMMA SendDataTypes ==
  ASSUME TypeNetwork, NEW m \in Msgs, SendData(m)
  PROVE  toSvr' \in Seq(Msgs)
BY DEF TypeNetwork, SendData

\* The pack number of a well-formed data frame is 1, 2 or 3, so there is an
\* acknowledgement for it.
LEMMA DataFrame ==
  ASSUME TypeNetwork, toClt # <<>>, Head(toClt).kind = "data", Head(toClt).ok
  PROVE  /\ Head(toClt).no \in 1..3
         /\ Head(toClt).sess \in Nat
         /\ DataAck[Head(toClt).no] \in CltCmds
<1>1. Head(toClt) \in Frames
  BY DEF TypeNetwork
<1>2. Head(toClt).no \in 1..3 /\ Head(toClt).sess \in Nat
  BY <1>1 DEF Frames
<1>3. QED
  BY <1>2 DEF DataAck, CltCmds

-----------------------------------------------------------------------------
(* Sockets                                                                 *)

\* Closing the connection leaves the types alone.
LEMMA DisconnectTypes ==
  ASSUME TypeSockets, TypeNetwork, DisconnectServer, UNCHANGED authSock
  PROVE  TypeSockets' /\ TypeNetwork'
<1>1. TypeSockets'
  BY DEF TypeSockets, DisconnectServer
<1>2. TypeNetwork'
  BY DEF TypeNetwork, DisconnectServer, SvrStates
<1>3. QED
  BY <1>1, <1>2

\* A new connection gets a new number.
LEMMA ConnectTypes ==
  ASSUME TypeSockets, TypeNetwork, ConnectServer, UNCHANGED authSock
  PROVE  TypeSockets' /\ TypeNetwork'
<1>1. TypeSockets'
  <2>1. sid' \in Nat /\ open' \subseteq 1..sid' /\ m_iSock' \in 1..sid'
    BY NewSocket DEF TypeSockets, ConnectServer
  <2>2. authSock' \in {-1} \cup 1..sid'
    BY NewSocket DEF TypeSockets, ConnectServer
  <2>3. QED
    BY <2>1, <2>2 DEF TypeSockets
<1>2. TypeNetwork'
  <2>1. svr' \in SvrStates
    BY DEF ConnectServer, SvrStates
  <2>2. upl' \in [CltCmds -> Bodies]
    BY EmptyTypes DEF ConnectServer
  <2>3. QED
    BY <2>1, <2>2 DEF TypeNetwork, ConnectServer
<1>3. QED
  BY <1>1, <1>2

LEMMA ConnectFailsTypes ==
  ASSUME TypeSockets, TypeNetwork, ConnectFails, UNCHANGED authSock
  PROVE  TypeSockets' /\ TypeNetwork'
BY DEF TypeSockets, TypeNetwork, ConnectFails, sockets, network

-----------------------------------------------------------------------------
(* The server, a stranger, and the network                                 *)

\* What the server says has the types of the protocol.
LEMMA RuleTypes ==
  ASSUME sid \in Nat, NEW r \in SvrRules
  PROVE  r[3] \in SvrStates /\ r[4] \in Seq(Frames)
<1>1. \A c \in SvrCmds : Cmd(c, TRUE) \in Frames
  BY DEF Cmd, Frames
<1>2. \A n \in 1..3 : Data(n, sid) \in Frames
  BY DEF Data, Frames, SvrCmds
<1>3. \A c \in SvrCmds : Ask(c) \in Seq(Frames)
  BY <1>1, SmallSeqs DEF Ask
<1>4. \A n \in 1..3 : <<Data(n, sid)>> \in Seq(Frames)
  BY <1>2, SmallSeqs
<1>5. Ask("OUTCERT") \o <<Data(1, sid)>> \in Seq(Frames)
  BY <1>3, <1>4 DEF SvrCmds
<1>6. r[3] \in SvrStates
  BY DEF SvrRules, SvrStates
<1>7. r[4] \in Seq(Frames)
  <2>1. \/ r[4] = <<>>
        \/ \E c \in SvrCmds : r[4] = Ask(c)
        \/ \E n \in 1..3 : r[4] = <<Data(n, sid)>>
        \/ r[4] = Ask("OUTCERT") \o <<Data(1, sid)>>
    BY DEF SvrRules, SvrCmds
  <2>2. CASE \E c \in SvrCmds : r[4] = Ask(c)
    BY <1>3, <2>2
  <2>3. CASE \E n \in 1..3 : r[4] = <<Data(n, sid)>>
    BY <1>4, <2>3
  <2>4. <<>> \in Seq(Frames)
    OBVIOUS
  <2>5. QED
    BY <1>5, <2>1, <2>2, <2>3, <2>4
<1>8. QED
  BY <1>6, <1>7

LEMMA GreetTypes ==
  ASSUME TypeNetwork, SvrGreet
  PROVE  TypeNetwork'
<1>1. Banner(TRUE) \in Frames
  BY DEF Banner, Frames, SvrCmds
<1>2. /\ svr' = "serial" /\ toClt' = Append(toClt, Banner(TRUE))
      /\ UNCHANGED <<conn, toSvr, upl>>
  BY DEF SvrGreet
<1>3. toClt' \in Seq(Frames)
  BY <1>1, <1>2, SmallSeqs, Zenon DEF TypeNetwork
<1>4. svr' \in SvrStates
  BY <1>2 DEF SvrStates
<1>5. QED
  BY <1>2, <1>3, <1>4 DEF TypeNetwork

LEMMA HandleTypes ==
  ASSUME TypeNetwork, sid \in Nat, SvrHandle
  PROVE  TypeNetwork'
<1>1. Head(toSvr) \in Msgs /\ Tail(toSvr) \in Seq(Msgs)
  BY DEF SvrHandle, TypeNetwork
<1>2. upl' \in [CltCmds -> Bodies]
  BY <1>1 DEF SvrHandle, TypeNetwork, Msgs
<1>3. /\ svr' \in SvrStates /\ toClt' \in Seq(Frames)
      /\ conn' \in {"none", "up", "down"}
  <2>1. CASE \E r \in SvrRules :
               svr' = r[3] /\ toClt' = toClt \o r[4] /\ conn' = conn
    BY <2>1, RuleTypes DEF TypeNetwork
  <2>2. CASE svr' = "rejected" /\ conn' = "down" /\ toClt' = toClt
    BY <2>2 DEF TypeNetwork, SvrStates
  <2>3. QED
    BY <2>1, <2>2 DEF SvrHandle
<1>4. QED
  BY <1>1, <1>2, <1>3 DEF SvrHandle, TypeNetwork

LEMMA StrangerTypes ==
  ASSUME TypeNetwork, StrangerSends
  PROVE  TypeNetwork'
<1>1. Noise \cup {Banner(FALSE)} \subseteq Frames
  <2>1. /\ Cmd("INCERT", FALSE) \in Frames
        /\ Cmd("OUTCERT", FALSE) \in Frames
        /\ Cmd("other", TRUE) \in Frames
    BY DEF Cmd, Frames, SvrCmds
  <2>2. BadPack \in Frames
    BY DEF BadPack, Frames, SvrCmds
  <2>3. BadFrame \in Frames /\ Banner(FALSE) \in Frames
    BY DEF BadFrame, Banner, Frames, SvrCmds
  <2>4. QED
    BY <2>1, <2>2, <2>3 DEF Noise
<1>2. toClt' \in Seq(Frames)
  <2>1. \E f \in Frames : toClt' = <<f>>
    BY <1>1 DEF StrangerSends
  <2>2. QED
    BY <2>1, SmallSeqs
<1>3. toSvr' \in Seq(Msgs)
  <2>1. toSvr' = toSvr \/ (toSvr # <<>> /\ toSvr' = Tail(toSvr))
    BY DEF StrangerSends
  <2>2. QED
    BY <2>1 DEF TypeNetwork
<1>4. svr' \in SvrStates /\ UNCHANGED <<conn, upl>>
  BY DEF StrangerSends, SvrStates
<1>5. QED
  BY <1>2, <1>3, <1>4 DEF TypeNetwork

LEMMA DropTypes ==
  ASSUME TypeNetwork, NetDrop
  PROVE  TypeNetwork'
<1>1. /\ conn' = "down" /\ toSvr' = <<>> /\ toClt' \in {toClt, <<>>}
      /\ UNCHANGED <<svr, upl>>
  BY DEF NetDrop
<1>2. toSvr' \in Seq(Msgs) /\ toClt' \in Seq(Frames)
  <2>1. toSvr \in Seq(Msgs) /\ toClt \in Seq(Frames)
    BY DEF TypeNetwork
  <2>2. <<>> \in Seq(Msgs) /\ <<>> \in Seq(Frames)
    OBVIOUS
  <2>3. QED
    BY <1>1, <2>1, <2>2
<1>3. QED
  BY <1>1, <1>2 DEF TypeNetwork

\* Whatever happens at the far end keeps to the types of the protocol and
\* does not touch the reader's sockets nor its card.
LEMMA FarSideTypes ==
  ASSUME TypeNetwork, sid \in Nat,
         SvrGreet \/ SvrHandle \/ StrangerSends \/ NetDrop
  PROVE  TypeNetwork' /\ UNCHANGED nearSide
<1>1. UNCHANGED nearSide
  BY DEF SvrGreet, SvrHandle, StrangerSends, NetDrop, nearSide
<1>2. QED
  BY <1>1, GreetTypes, HandleTypes, StrangerTypes, DropTypes

-----------------------------------------------------------------------------
(* The conversation: states of the server                                  *)

Strangers == {"stranger", "noisy"}
Late      == {"inauth2", "ack1", "ack2", "ack3", "served"}  \* SECNED_ACK taken
Finger    == {"finger2", "second"}
Photo     == {"finger1"} \cup Finger \cup Late
Started   == {"inauth", "outauth", "photo1", "photo2"} \cup Photo

-----------------------------------------------------------------------------
(* What the server holds                                                   *)

\* Two halves of what one buffer held in this session.
Halves(one, two) ==
  \E f \in Files \ {"none"} : /\ upl[one] = Half(1, Blob(f, sid))
                              /\ upl[two] = Half(2, Blob(f, sid))
FirstHalf(c) == \E f \in Files \ {"none"} : upl[c] = Half(1, Blob(f, sid))

NoFinger    == upl["SENDFINGERPRINT1"] = NoBody /\ upl["SENDFINGERPRINT2"] = NoBody
WholeFinger == Halves("SENDFINGERPRINT1", "SENDFINGERPRINT2")

\* A server in this state has got the messages that lead to it.
Uploads ==
  /\ svr \in Started => upl["STARTRDCARD_ACK"] = Whole(Blob("f6002", sid))
  /\ svr = "photo2" => FirstHalf("SENDPHOTO1")
  /\ svr \in Photo => Halves("SENDPHOTO1", "SENDPHOTO2")
  /\ svr \in {"accepted", "serial", "start"} \cup (Started \ (Finger \cup Late)) =>
       NoFinger
  /\ svr = "finger2" =>
       FirstHalf("SENDFINGERPRINT1") /\ upl["SENDFINGERPRINT2"] = NoBody
  /\ svr = "second" => WholeFinger
  /\ svr \in Late => /\ NoFinger \/ WholeFinger
                     /\ upl["SECNED_ACK"] = upl["STARTRDCARD_ACK"]
  /\ svr = "rejected" => \E c \in Essential : upl[c].file = "status"

-----------------------------------------------------------------------------
(* What the reader holds                                                   *)

\* The packs of data that have come so far, and in what order.
Received(n) ==
  /\ piclen = IF n < 2 THEN 0 ELSE IF n = 2 THEN 514 ELSE CARD_PHOTO_LEN
  /\ n >= 1 => cardInfo = sid
  /\ n >= 2 => pic[1] = sid
  /\ n >= 3 => pic[2] = sid

\* From the start message on, the buffers hold files of this session, and an
\* error status in one of them comes from a card that fails.
BuffersOwn ==
  pc \in {"start", "loop", "decode"} =>
    /\ \E f \in Files \ {"none"} : buff = Blob(f, sid)
    /\ DN = dnbuff /\ \E f \in {"f6002", "status"} : dnbuff = Blob(f, sid)
    /\ "status" \in {buff.file, dnbuff.file} => CardFails

\* Outside the receive loop no data have come and none are awaited.
NothingYet ==
  pc \notin {"loop", "decode", "idle", "done"} => ~start_svrdata /\ Received(0)

\* The body that the reader sends under command c.
BodyOf(c) ==
  CASE c \in {"STARTRDCARD_ACK", "SECNED_ACK"}    -> Whole(dnbuff)
    [] c \in {"INAUTH_ACK", "OUTAUTH_ACK"}        -> Whole(buff)
    [] c \in {"SENDPHOTO1", "SENDFINGERPRINT1"}   -> Half(1, buff)
    [] c \in {"SENDPHOTO2", "SENDFINGERPRINT2"}   -> Half(2, buff)
    [] OTHER                                      -> NoBody
Sent(c) == Msg(c, BodyOf(c))

-----------------------------------------------------------------------------
(* Whose turn it is                                                        *)

\* The question that brings the server into a state.
Questions ==
  { <<"inauth", "INCERT">>, <<"outauth", "OUTCERT">>, <<"photo1", "MSG_ACK">>,
    <<"photo2", "RDPHOTO_ACK1">>, <<"finger1", "RDPHOTO_ACK2">>,
    <<"finger2", "RDFINGERPRINT_ACK1">>, <<"second", "RDFINGERPRINT_ACK2">>,
    <<"inauth2", "INCERT">> }

\* The answers that the server takes in a state.
Replies ==
  { <<"start", "STARTRDCARD_ACK">>, <<"inauth", "INAUTH_ACK">>,
    <<"outauth", "OUTAUTH_ACK">>, <<"photo1", "SENDPHOTO1">>,
    <<"photo2", "SENDPHOTO2">>, <<"finger1", "SENDFINGERPRINT1">>,
    <<"finger2", "SENDFINGERPRINT2">>, <<"finger1", "SECNED_ACK">>,
    <<"second", "SECNED_ACK">>, <<"inauth2", "INAUTH_ACK">>,
    <<"ack1", "DATA_ACK1">>, <<"ack2", "DATA_ACK2">> }

\* The server has asked, and holds the first half of what is in the buffer
\* if it asks for the second.
Asked ==
  /\ toSvr = <<>>
  /\ \/ \E q \in Questions : svr = q[1] /\ toClt = <<Cmd(q[2], TRUE)>>
     \/ svr = "ack1" /\ toClt = <<Cmd("OUTCERT", TRUE), Data(1, sid)>>
     \/ svr = "ack1" /\ toClt = <<Data(1, sid)>>
     \/ svr = "ack2" /\ toClt = <<Data(2, sid)>>
     \/ svr = "ack3" /\ toClt = <<Data(3, sid)>>
  /\ start_svrdata <=> svr \in Late
  /\ svr \notin {"ack2", "ack3"} => Received(0)
  /\ svr = "ack2" => Received(1)
  /\ svr = "ack3" => Received(2)
  /\ svr = "photo2"  => upl["SENDPHOTO1"] = Half(1, buff)
  /\ svr = "finger2" => upl["SENDFINGERPRINT1"] = Half(1, buff)

\* The reader has answered.
Answered ==
  /\ conn = "up" /\ toClt = <<>>
  /\ \/ /\ svr = "serial" /\ toSvr = <<Sent("VERIFY_SERIAL"), Sent("STARTRDCARD_ACK")>>
        /\ ~start_svrdata /\ Received(0)
     \/ \E q \in Replies :
          /\ svr = q[1] /\ toSvr = <<Sent(q[2])>>
          /\ start_svrdata <=> (svr \in Late \/ q[2] = "SECNED_ACK")
          /\ svr \notin {"ack1", "ack2"} => Received(0)
          /\ svr = "ack1" => Received(1)
          /\ svr = "ack2" => Received(2)
          /\ q[2] = "SENDPHOTO2" => upl["SENDPHOTO1"] = Half(1, buff)
          /\ q[2] = "SENDFINGERPRINT2" => upl["SENDFINGERPRINT1"] = Half(1, buff)

\* The connection broke and nothing is under way any more.
Lost ==
  /\ conn = "down" /\ toSvr = <<>> /\ toClt = <<>>
  /\ piclen \in {0, 514}
  /\ ~start_svrdata => piclen = 0

\* Reader and server are where the protocol wants them.
Turn ==
  /\ svr \in Started => pc \in {"loop", "decode"} /\ dnbuff.file = "f6002"
  /\ pc = "banner" =>
       /\ toSvr = <<>> /\ svr \in {"accepted", "serial"}
       /\ \/ svr = "accepted" /\ toClt = <<>>
          \/ svr = "serial" /\ toClt = <<Banner(TRUE)>>
          \/ conn = "down" /\ toClt = <<>>
  /\ pc = "serial" => svr = "serial" /\ toSvr = <<>> /\ toClt = <<>>
  /\ pc \in {"dn", "start"} =>
       /\ toClt = <<>> /\ svr \in {"serial", "start"}
       /\ toSvr = IF svr = "serial" /\ conn = "up" THEN <<Sent("VERIFY_SERIAL")>>
                                                   ELSE <<>>
  /\ pc = "loop" => Asked \/ Answered \/ Lost
  /\ pc = "decode" =>
       /\ toClt = <<>> /\ svr \in {"ack3", "served"}
       /\ toSvr = IF svr = "ack3" /\ conn = "up" THEN <<Sent("DATA_ACK3")>> ELSE <<>>
       /\ Received(3)

\* With a stranger at the other end nothing gets beyond the greeting.
Strange ==
  /\ "peer" \in Faults
  /\ pc # "decode" /\ ~start_svrdata /\ Received(0)
  /\ toClt = <<>> \/ \E f \in Noise \cup {Banner(FALSE)} : toClt = <<f>>

NetworkQuiet == conn = "none" /\ toSvr = <<>> /\ toClt = <<>> /\ svr = "none"

\* There is a connection in a session, its own, and only there; it breaks
\* because the network drops it or because the server refuses what a failing
\* card gave it.
Connected ==
  /\ m_iSock = sid /\ conn \in {"up", "down"} /\ svr # "none"
  /\ conn = "down" => toSvr = <<>> /\ Faults \cap {"drop", "card"} # {}
  /\ svr = "rejected" => conn = "down"

Conversation ==
  /\ BuffersOwn /\ NothingYet /\ Uploads
  /\ pc \notin InSession => NetworkQuiet
  /\ pc \in InSession =>
       Connected /\ IF svr \in Strangers THEN Strange ELSE Turn

-----------------------------------------------------------------------------
(* Facts about sequences and about the rules of the server                 *)

\* Two elements one after the other.
LEMMA Pair ==
  ASSUME NEW x, NEW y
  PROVE  <<x>> \o <<y>> = <<x, y>> /\ Append(<<x>>, y) = <<x, y>>
<1> DEFINE S == {x, y}
<1>1. <<x>> \in Seq(S) /\ <<y>> \in Seq(S) /\ <<x, y>> \in Seq(S) /\ y \in S
  OBVIOUS
<1>2. /\ <<x>> \o <<y>> \in Seq(S) /\ Append(<<x>>, y) \in Seq(S)
      /\ Len(<<x>> \o <<y>>) = 2 /\ Len(Append(<<x>>, y)) = 2
  BY <1>1
<1>3. \A i \in 1..2 : /\ (<<x>> \o <<y>>)[i] = <<x, y>>[i]
                     /\ Append(<<x>>, y)[i] = <<x, y>>[i]
  BY <1>1
<1>4. Len(<<x, y>>) = 2
  OBVIOUS
<1> HIDE DEF S
<1>5. QED
  BY <1>1, <1>2, <1>3, <1>4, SeqEqual, Zenon

\* The sequences that are under way have at most two elements.
LEMMA ShortSeqs ==
  ASSUME NEW x, NEW y
  PROVE  /\ <<x>> # <<>> /\ Head(<<x>>) = x /\ Tail(<<x>>) = <<>>
         /\ <<x, y>> # <<>> /\ Head(<<x, y>>) = x /\ Tail(<<x, y>>) = <<y>>
         /\ Append(<<>>, x) = <<x>> /\ Append(<<x>>, y) = <<x, y>>
         /\ <<>> \o <<>> = <<>> /\ <<>> \o <<x>> = <<x>>
         /\ <<x>> \o <<y>> = <<x, y>> /\ <<>> \o <<x, y>> = <<x, y>>
<1>1. /\ <<x>> # <<>> /\ Head(<<x>>) = x /\ Tail(<<x>>) = <<>>
      /\ <<x, y>> # <<>> /\ Head(<<x, y>>) = x /\ Tail(<<x, y>>) = <<y>>
  OBVIOUS
<1>2. /\ Append(<<>>, x) = <<x>> /\ <<>> \o <<>> = <<>>
      /\ <<>> \o <<x>> = <<x>> /\ <<>> \o <<x, y>> = <<x, y>>
  OBVIOUS
<1>3. QED
  BY <1>1, <1>2, Pair

\* Where an answer takes the server.
Moves ==
  { <<"start", "STARTRDCARD_ACK", "inauth">>, <<"inauth", "INAUTH_ACK", "outauth">>,
    <<"outauth", "OUTAUTH_ACK", "photo1">>, <<"photo1", "SENDPHOTO1", "photo2">>,
    <<"photo2", "SENDPHOTO2", "finger1">>,
    <<"finger1", "SENDFINGERPRINT1", "finger2">>,
    <<"finger2", "SENDFINGERPRINT2", "second">>,
    <<"finger1", "SECNED_ACK", "ack1">>, <<"finger1", "SECNED_ACK", "inauth2">>,
    <<"second", "SECNED_ACK", "ack1">>, <<"second", "SECNED_ACK", "inauth2">>,
    <<"inauth2", "INAUTH_ACK", "ack1">>, <<"ack1", "DATA_ACK1", "ack2">>,
    <<"ack2", "DATA_ACK2", "ack3">> }

\* What the server does with an answer that it awaits: it asks the next
\* question or sends the next pack.
LEMMA RuleTable ==
  ASSUME NEW r \in SvrRules
  PROVE  \/ r[1] = "serial" /\ r[2] = "VERIFY_SERIAL" /\ r[3] = "start" /\ r[4] = <<>>
         \/ r[1] = "ack3" /\ r[2] = "DATA_ACK3" /\ r[3] = "served" /\ r[4] = <<>>
         \/ /\ <<r[1], r[2], r[3]>> \in Moves
            /\ \/ \E q \in Questions : r[3] = q[1] /\ r[4] = <<Cmd(q[2], TRUE)>>
               \/ r[3] = "ack1" /\ r[4] = <<Cmd("OUTCERT", TRUE), Data(1, sid)>>
               \/ r[3] = "ack1" /\ r[4] = <<Data(1, sid)>>
               \/ r[3] = "ack2" /\ r[4] = <<Data(2, sid)>>
               \/ r[3] = "ack3" /\ r[4] = <<Data(3, sid)>>
<1>1. Ask("OUTCERT") \o <<Data(1, sid)>> = <<Cmd("OUTCERT", TRUE), Data(1, sid)>>
  BY ShortSeqs DEF Ask
<1>2. /\ r[1] = "serial" => r[2] = "VERIFY_SERIAL" /\ r[3] = "start" /\ r[4] = <<>>
      /\ r[1] = "ack3" => r[2] = "DATA_ACK3" /\ r[3] = "served" /\ r[4] = <<>>
  BY DEF SvrRules
<1>3. r[1] \notin {"serial", "ack3"} => <<r[1], r[2], r[3]>> \in Moves
  BY DEF SvrRules, Moves
<1>4. CASE r[1] \notin {"serial", "ack3"}
  <2>1. /\ r[3] = "inauth"  => r[4] = Ask("INCERT")
        /\ r[3] = "outauth" => r[4] = Ask("OUTCERT")
        /\ r[3] = "photo1"  => r[4] = Ask("MSG_ACK")
        /\ r[3] = "photo2"  => r[4] = Ask("RDPHOTO_ACK1")
        /\ r[3] = "finger1" => r[4] = Ask("RDPHOTO_ACK2")
        /\ r[3] = "finger2" => r[4] = Ask("RDFINGERPRINT_ACK1")
        /\ r[3] = "second"  => r[4] = Ask("RDFINGERPRINT_ACK2")
        /\ r[3] = "inauth2" => r[4] = Ask("INCERT")
    BY DEF SvrRules
  <2>2. r[3] \notin {"ack1", "ack2", "ack3"} =>
          \E q \in Questions : r[3] = q[1] /\ r[4] = <<Cmd(q[2], TRUE)>>
    BY <1>3, <1>4, <2>1 DEF Moves, Questions, Ask
  <2>3. /\ r[3] = "ack1" => \/ r[4] = Ask("OUTCERT") \o <<Data(1, sid)>>
                            \/ r[4] = <<Data(1, sid)>>
        /\ r[3] = "ack2" => r[4] = <<Data(2, sid)>>
        /\ r[3] = "ack3" => r[4] = <<Data(3, sid)>>
    BY DEF SvrRules
  <2>4. QED
    BY <1>1, <1>3, <1>4, <2>2, <2>3
<1>5. QED
  BY <1>2, <1>4

\* Every answer that the reader sends at the right time has a rule.
LEMMA RuleExists ==
  /\ \A q \in Replies : \E r \in SvrRules : r[1] = q[1] /\ r[2] = q[2]
  /\ \E r \in SvrRules : r[1] = "serial" /\ r[2] = "VERIFY_SERIAL"
  /\ \E r \in SvrRules : r[1] = "ack3" /\ r[2] = "DATA_ACK3"
BY DEF SvrRules, Replies

-----------------------------------------------------------------------------
(* Steps at the far end: they leave the reader alone                       *)

ReaderSame == UNCHANGED <<pc, buff, DN, dnbuff, start_svrdata, cardInfo, pic,
                          piclen, nearSide, Faults>>

LEMMA SameConv ==
  ASSUME Conversation, ReaderSame, UNCHANGED network
  PROVE  Conversation'
<1> USE DEF ReaderSame, nearSide, sockets, card, network
<1>1. BuffersOwn' /\ NothingYet' /\ Uploads'
  BY DEF Conversation, BuffersOwn, NothingYet, Received, CardFails, Uploads,
         NoFinger, WholeFinger, Halves, FirstHalf
<1>2. /\ NetworkQuiet => NetworkQuiet'
      /\ Connected => Connected'
      /\ Strange => Strange'
  <2>1. NetworkQuiet => NetworkQuiet'
    BY DEF NetworkQuiet
  <2>2. Connected => Connected'
    BY DEF Connected
  <2>3. Strange => Strange'
    BY DEF Strange, Received
  <2>4. QED
    BY <2>1, <2>2, <2>3
<1>3. Asked => Asked'
  <2>1. /\ Received(0) => Received(0)'
        /\ Received(1) => Received(1)'
        /\ Received(2) => Received(2)'
    BY DEF Received
  <2>2. QED
    BY <2>1, Zenon DEF Asked
<1>4. Lost => Lost'
  BY DEF Lost
<1>5. Answered => Answered'
  BY DEF Answered, Received, Sent, BodyOf
<1>6. Turn => Turn'
  BY <1>3, <1>4, <1>5 DEF Turn, Received, Sent, BodyOf
<1>7. QED
  BY <1>1, <1>2, <1>6 DEF Conversation

LEMMA GreetConv ==
  ASSUME Conversation, SvrGreet, ReaderSame
  PROVE  Conversation'
<1> USE DEF ReaderSame, nearSide, sockets, card
<1>1. /\ conn = "up" /\ svr = "accepted" /\ svr' = "serial"
      /\ toClt' = Append(toClt, Banner(TRUE))
      /\ UNCHANGED <<conn, toSvr, upl>>
  BY DEF SvrGreet
<1>2. pc = "banner" /\ toClt = <<>> /\ toSvr = <<>> /\ Connected
  BY <1>1 DEF Conversation, NetworkQuiet, InSession, Turn, Strangers, Started,
              Connected, Strange, Asked, Questions, Answered, Replies, Lost
<1>3. toClt' = <<Banner(TRUE)>>
  BY <1>1, <1>2, ShortSeqs
<1>4. Turn' /\ Connected'
  BY <1>1, <1>2, <1>3 DEF Turn, Connected, Started, Photo, Finger, Late
<1>5. BuffersOwn' /\ NothingYet'
  BY <1>2 DEF Conversation, BuffersOwn, NothingYet, Received, CardFails
<1>6. Uploads'
  BY <1>1 DEF Conversation, Uploads, Started, Photo, Finger, Late, NoFinger
<1>7. QED
  BY <1>1, <1>2, <1>4, <1>5, <1>6 DEF Conversation, InSession, Strangers

\* In the loop the photo has not come whole, and nothing of it has before
\* the data are awaited.
LEMMA FewBytes ==
  ASSUME Asked \/ Answered
  PROVE  /\ piclen \in {0, 514}
         /\ ~start_svrdata => piclen = 0
<1>1. CASE Asked
  BY <1>1 DEF Asked, Received, Late
<1>2. CASE Answered
  BY <1>2 DEF Answered, Received, Late, Replies
<1>3. QED
  BY <1>1, <1>2

LEMMA DropConv ==
  ASSUME Conversation, NetDrop, ReaderSame
  PROVE  Conversation'
<1> USE DEF ReaderSame, nearSide, sockets, card
<1>1. /\ "drop" \in Faults /\ conn = "up" /\ conn' = "down" /\ toSvr' = <<>>
      /\ toClt' \in {toClt, <<>>} /\ UNCHANGED <<svr, upl>>
  BY DEF NetDrop
<1>2. pc \in InSession /\ Connected
  BY <1>1 DEF Conversation, NetworkQuiet
<1>3. Connected'
  BY <1>1, <1>2 DEF Connected
<1>4. BuffersOwn' /\ NothingYet'
  BY DEF Conversation, BuffersOwn, NothingYet, Received, CardFails
<1>5. Uploads'
  BY <1>1 DEF Conversation, Uploads, NoFinger, WholeFinger, Halves, FirstHalf
<1>6. CASE svr \in Strangers
  BY <1>1, <1>2, <1>3, <1>4, <1>5, <1>6
     DEF Conversation, Strange, Received, Strangers
<1>7. CASE svr \notin Strangers
  <2>1. Turn
    BY <1>2, <1>7 DEF Conversation
  <2>2. pc = "loop" => Asked' \/ Lost'
    <3>1. CASE pc = "loop" /\ Asked /\ toClt' = toClt
      BY <1>1, <3>1 DEF Asked, Received
    <3>2. CASE pc = "loop" /\ (Asked \/ Answered) /\ toClt' = <<>>
      BY <1>1, <3>2, FewBytes DEF Lost, Received
    <3>3. CASE pc = "loop" /\ Lost
      BY <1>1, <3>3 DEF Lost
    <3>4. QED
      BY <1>1, <2>1, <3>1, <3>2, <3>3 DEF Turn, Answered
  <2>3. Turn'
    BY <1>1, <2>1, <2>2 DEF Turn, Received
  <2>4. QED
    BY <1>1, <1>2, <1>3, <1>4, <1>5, <1>7, <2>3 DEF Conversation
<1>8. QED
  BY <1>6, <1>7

LEMMA StrangerConv ==
  ASSUME Conversation, StrangerSends, ReaderSame
  PROVE  Conversation'
<1> USE DEF ReaderSame, nearSide, sockets, card
<1>1. /\ conn = "up" /\ svr \in Strangers /\ svr' \in Strangers
      /\ \E f \in Noise \cup {Banner(FALSE)} : toClt' = <<f>>
      /\ UNCHANGED <<conn, upl>>
  BY DEF StrangerSends, Strangers
<1>2. pc \in InSession /\ Connected /\ Strange
  BY <1>1 DEF Conversation, NetworkQuiet
<1>3. Connected' /\ Strange'
  BY <1>1, <1>2 DEF Connected, Strange, Received, Strangers
<1>4. BuffersOwn' /\ NothingYet'
  BY DEF Conversation, BuffersOwn, NothingYet, Received, CardFails
<1>5. Uploads'
  BY <1>1 DEF Uploads, Started, Photo, Finger, Late, Strangers
<1>6. QED
  BY <1>1, <1>2, <1>3, <1>4, <1>5 DEF Conversation

\* The server takes a message, by one of its rules or by refusing it.
Takes(m) ==
  /\ conn = "up" /\ conn' = "up" /\ upl' = [upl EXCEPT ![m.cmd] = m.body]
  /\ \E r \in SvrRules : /\ r[1] = svr /\ r[2] = m.cmd /\ Acceptable(m)
                         /\ svr' = r[3] /\ toClt' = r[4]
Refuses(m) ==
  /\ conn = "up" /\ conn' = "down" /\ upl' = [upl EXCEPT ![m.cmd] = m.body]
  /\ svr' = "rejected" /\ toClt' = <<>>
  /\ ~ \E r \in SvrRules : r[1] = svr /\ r[2] = m.cmd /\ Acceptable(m)

LEMMA TakeOne ==
  ASSUME SvrHandle, TypeNetwork, sid \in Nat, toClt = <<>>, NEW m, Head(toSvr) = m
  PROVE  Takes(m) \/ Refuses(m)
<1>1. \A r \in SvrRules : toClt \o r[4] = r[4]
  BY RuleTypes
<1>2. QED
  BY <1>1 DEF SvrHandle, Takes, Refuses

\* What the reader's messages are made of.
LEMMA SentIs ==
  ASSUME NEW c
  PROVE  Sent(c).cmd = c /\ Sent(c).body = BodyOf(c)
BY DEF Sent, Msg

\* What awaits the server: never a message out of turn.
LEMMA Awaiting ==
  ASSUME Conversation, SvrHandle
  PROVE  /\ pc \in InSession /\ Connected /\ Turn /\ svr \notin Strangers
         /\ conn = "up" /\ toClt = <<>>
         /\ \/ /\ pc \in {"dn", "start"} /\ svr = "serial"
               /\ toSvr = <<Sent("VERIFY_SERIAL")>>
            \/ pc = "loop" /\ Answered
            \/ pc = "decode" /\ svr = "ack3" /\ toSvr = <<Sent("DATA_ACK3")>>
<1>1. conn = "up" /\ toSvr # <<>> /\ svr \notin Strangers
  BY DEF SvrHandle, Strangers
<1>2. pc \in InSession /\ Connected /\ Turn
  BY <1>1 DEF Conversation, NetworkQuiet
<1>3. QED
  BY <1>1, <1>2 DEF Turn, InSession, Asked, Answered, Lost

\* A refused message: what the card failed to give, and the end of the
\* connection.
LEMMA RefusedConv ==
  ASSUME Conversation, ReaderSame, TypeNetwork, pc = "loop", Connected,
         NEW c \in CltCmds, Refuses(Sent(c)), toSvr' = <<>>,
         piclen \in {0, 514}, ~start_svrdata => piclen = 0,
         \E r \in SvrRules : r[1] = svr /\ r[2] = c
  PROVE  Conversation'
<1> USE DEF ReaderSame, nearSide, sockets, card
<1>1. Sent(c).cmd = c /\ Sent(c).body = BodyOf(c)
  BY SentIs
<1>2. c \in Essential /\ BodyOf(c).file = "status"
  BY <1>1 DEF Refuses, Acceptable
<1>3. CardFails
  BY <1>2 DEF Conversation, BuffersOwn, BodyOf, Essential, Whole, Half
<1>4. upl'[c].file = "status"
  <2>1. upl' = [upl EXCEPT ![c] = BodyOf(c)]
    BY <1>1 DEF Refuses
  <2>2. QED
    BY <1>2, <2>1 DEF TypeNetwork
<1>5. /\ svr' = "rejected" /\ conn' = "down" /\ toClt' = <<>>
  BY DEF Refuses
<1>6. Uploads'
  BY <1>2, <1>4, <1>5 DEF Uploads, Started, Photo, Finger, Late
<1>7. Turn'
  BY <1>5 DEF Turn, Lost, Started, Photo, Finger, Late
<1>8. BuffersOwn' /\ NothingYet'
  BY DEF Conversation, BuffersOwn, NothingYet, Received, CardFails
<1>9. Connected'
  BY <1>3, <1>5 DEF Connected, CardFails
<1>10. QED
  BY <1>5, <1>6, <1>7, <1>8, <1>9 DEF Conversation, InSession, Strangers

\* An answer taken brings the server to its next question.
LEMMA TakenConv ==
  ASSUME Conversation, TypeNetwork, pc = "loop", Connected, Turn, ReaderSame,
         NEW q \in Replies, svr = q[1], toSvr' = <<>>, Takes(Sent(q[2])),
         start_svrdata <=> (svr \in Late \/ q[2] = "SECNED_ACK"),
         svr \notin {"ack1", "ack2"} => Received(0),
         svr = "ack1" => Received(1),
         svr = "ack2" => Received(2),
         q[2] = "SENDPHOTO2" => upl["SENDPHOTO1"] = Half(1, buff),
         q[2] = "SENDFINGERPRINT2" => upl["SENDFINGERPRINT1"] = Half(1, buff)
  PROVE  Conversation'
<1> USE DEF ReaderSame, nearSide, sockets, card
<1> DEFINE c == q[2]
<1>1. Sent(c).cmd = c /\ Sent(c).body = BodyOf(c)
  BY SentIs
<1>2. /\ conn = "up" /\ conn' = "up" /\ upl' = [upl EXCEPT ![c] = BodyOf(c)]
      /\ c \in Essential => BodyOf(c).file # "status"
  BY <1>1 DEF Takes, Acceptable
<1>3. PICK r \in SvrRules : r[1] = svr /\ r[2] = c /\ svr' = r[3] /\ toClt' = r[4]
  BY <1>1 DEF Takes
<1>4. /\ \E f \in Files \ {"none"} : buff = Blob(f, sid)
      /\ \E f \in {"f6002", "status"} : dnbuff = Blob(f, sid)
  BY DEF Conversation, BuffersOwn
<1>5. c \in CltCmds /\ upl'[c] = BodyOf(c) /\ \A d \in CltCmds \ {c} : upl'[d] = upl[d]
  <2>1. c \in CltCmds
    BY DEF Replies, CltCmds
  <2>2. QED
    BY <1>2, <2>1 DEF TypeNetwork
<1>6. <<svr, c, svr'>> \in Moves
  <2>1. svr \notin {"serial", "ack3"}
    BY DEF Replies
  <2>2. <<r[1], r[2], r[3]>> \in Moves
    BY <1>3, <2>1, RuleTable
  <2>3. QED
    BY <1>3, <2>2
<1>7. /\ toSvr' = <<>>
      /\ \/ \E p \in Questions : svr' = p[1] /\ toClt' = <<Cmd(p[2], TRUE)>>
         \/ svr' = "ack1" /\ toClt' = <<Cmd("OUTCERT", TRUE), Data(1, sid)>>
         \/ svr' = "ack1" /\ toClt' = <<Data(1, sid)>>
         \/ svr' = "ack2" /\ toClt' = <<Data(2, sid)>>
         \/ svr' = "ack3" /\ toClt' = <<Data(3, sid)>>
  <2>1. svr \notin {"serial", "ack3"}
    BY DEF Replies
  <2>2. QED
    BY <1>3, <2>1, RuleTable
<1>8. dnbuff.file = "f6002" /\ Whole(dnbuff) = Whole(Blob("f6002", sid))
  <2>1. svr = "start" => dnbuff.file # "status"
    BY <1>2, <1>6 DEF Moves, Essential, BodyOf, Whole, Half
  <2>2. svr # "start" => svr \in Started
    BY <1>6 DEF Moves, Started, Photo, Finger, Late
  <2>3. QED
    BY <1>4, <2>1, <2>2 DEF Turn, Blob, Files
<1>9. Uploads'
  <2>1. Uploads
    BY DEF Conversation
  <2>2. svr' \in Started => upl'["STARTRDCARD_ACK"] = Whole(Blob("f6002", sid))
    BY <1>5, <1>6, <1>8, <2>1
       DEF Uploads, Moves, BodyOf, CltCmds, Started, Photo, Finger, Late
  <2>3. svr' = "photo2" => FirstHalf("SENDPHOTO1")'
    BY <1>4, <1>5, <1>6 DEF Moves, BodyOf, FirstHalf
  <2>4. svr' \in Photo => Halves("SENDPHOTO1", "SENDPHOTO2")'
    BY <1>4, <1>5, <1>6, <2>1
       DEF Uploads, Moves, BodyOf, CltCmds, Photo, Finger, Late, Halves
  <2>5. svr' \in {"accepted", "serial", "start"} \cup (Started \ (Finger \cup Late)) =>
          NoFinger'
    BY <1>5, <1>6, <2>1
       DEF Uploads, Moves, CltCmds, Started, Photo, Finger, Late, NoFinger
  <2>6. svr' = "finger2" =>
          FirstHalf("SENDFINGERPRINT1")' /\ upl'["SENDFINGERPRINT2"] = NoBody
    BY <1>4, <1>5, <1>6, <2>1
       DEF Uploads, Moves, BodyOf, CltCmds, Started, Photo, Finger, Late,
           FirstHalf, NoFinger
  <2>7. svr' = "second" => WholeFinger'
    BY <1>4, <1>5, <1>6 DEF Moves, BodyOf, CltCmds, WholeFinger, Halves
  <2>8. svr' \in Late => NoFinger' \/ WholeFinger'
    BY <1>5, <1>6, <2>1
       DEF Uploads, Moves, CltCmds, Started, Photo, Finger, Late, NoFinger,
           WholeFinger, Halves
  <2>9. svr' \in Late => upl'["SECNED_ACK"] = upl'["STARTRDCARD_ACK"]
    BY <1>5, <1>6, <1>8, <2>1
       DEF Uploads, Moves, BodyOf, CltCmds, Started, Photo, Finger, Late
  <2>10. svr' # "rejected"
    BY <1>6 DEF Moves
  <2>11. QED
    BY <2>2, <2>3, <2>4, <2>5, <2>6, <2>7, <2>8, <2>9, <2>10 DEF Uploads
<1>10. Asked'
  <2>1. start_svrdata' <=> svr' \in Late
    BY <1>6 DEF Moves, Late
  <2>2. /\ svr' \notin {"ack2", "ack3"} => Received(0)
        /\ svr' = "ack2" => Received(1)
        /\ svr' = "ack3" => Received(2)
    BY <1>6 DEF Moves
  <2>3. /\ svr' = "photo2"  => upl'["SENDPHOTO1"] = Half(1, buff)
        /\ svr' = "finger2" => upl'["SENDFINGERPRINT1"] = Half(1, buff)
    BY <1>5, <1>6 DEF Moves, BodyOf
  <2>4. /\ svr' \notin {"ack2", "ack3"} => Received(0)'
        /\ svr' = "ack2" => Received(1)'
        /\ svr' = "ack3" => Received(2)'
    BY <2>2 DEF Received
  <2>5. QED
    BY <1>7, <2>1, <2>3, <2>4 DEF Asked
<1>11. BuffersOwn' /\ NothingYet'
  BY DEF Conversation, BuffersOwn, NothingYet, Received, CardFails
<1>12. svr' \notin {"none", "rejected"} \cup Strangers
  BY <1>6 DEF Moves, Strangers
<1>13. Connected' /\ Turn'
  BY <1>2, <1>8, <1>10, <1>12 DEF Connected, Turn
<1>14. QED
  BY <1>9, <1>11, <1>12, <1>13 DEF Conversation, InSession

LEMMA HandleConv ==
  ASSUME Conversation, SvrHandle, ReaderSame, TypeNetwork, sid \in Nat
  PROVE  Conversation'
<1> USE DEF ReaderSame, nearSide, sockets, card
<1>1. /\ pc \in InSession /\ Connected /\ Turn /\ svr \notin Strangers
      /\ conn = "up" /\ toClt = <<>> /\ toSvr' = Tail(toSvr)
  BY Awaiting DEF SvrHandle
<1>2. BuffersOwn' /\ NothingYet'
  BY DEF Conversation, BuffersOwn, NothingYet, Received, CardFails
\* The message VERIFY_SERIAL, whether the start message is behind it or not.
<1>3. CASE svr = "serial"
  <2>1. Head(toSvr) = Sent("VERIFY_SERIAL")
    BY <1>3, Awaiting, ShortSeqs DEF Answered, Replies
  <2>2. /\ svr' = "start" /\ conn' = "up" /\ toClt' = <<>>
        /\ upl' = [upl EXCEPT !["VERIFY_SERIAL"] = BodyOf("VERIFY_SERIAL")]
    <3>1. /\ Sent("VERIFY_SERIAL").cmd = "VERIFY_SERIAL"
          /\ Sent("VERIFY_SERIAL").body = BodyOf("VERIFY_SERIAL")
      BY SentIs
    <3>2. Acceptable(Sent("VERIFY_SERIAL"))
      BY <3>1 DEF Acceptable, Essential
    <3>3. Takes(Sent("VERIFY_SERIAL"))
      BY <1>1, <1>3, <2>1, <3>1, <3>2, TakeOne, RuleExists DEF Refuses
    <3>4. QED
      BY <1>3, <3>1, <3>3, RuleTable DEF Takes, Moves
  <2>3. Uploads'
    <3>1. NoFinger'
      BY <1>3, <2>2 DEF Conversation, Uploads, NoFinger, TypeNetwork, CltCmds
    <3>2. QED
      BY <2>2, <3>1 DEF Uploads, Started, Photo, Finger, Late
  <2>4. Turn'
    <3>1. CASE pc \in {"dn", "start"}
      BY <1>1, <2>2, <3>1, Awaiting, ShortSeqs DEF Turn, Started, Photo, Finger, Late
    <3>2. CASE pc = "loop" /\ Answered
      <4>1. /\ toSvr = <<Sent("VERIFY_SERIAL"), Sent("STARTRDCARD_ACK")>>
            /\ ~start_svrdata /\ Received(0)
        BY <1>3, <3>2 DEF Answered, Replies
      <4>2. toSvr' = <<Sent("STARTRDCARD_ACK")>>
        BY <1>1, <4>1, ShortSeqs
      <4>3. Sent("STARTRDCARD_ACK")' = Sent("STARTRDCARD_ACK")
        BY DEF Sent, BodyOf
      <4>4. <<"start", "STARTRDCARD_ACK">> \in Replies
        BY DEF Replies
      <4>5. Received(0)'
        BY <4>1 DEF Received
      <4>6. Answered'
        BY <2>2, <4>1, <4>2, <4>3, <4>4, <4>5 DEF Answered, Late
      <4>7. QED
        BY <2>2, <3>2, <4>6 DEF Turn, Started, Photo, Finger, Late
    <3>3. QED
      BY <1>3, <3>1, <3>2, Awaiting
  <2>5. QED
    BY <1>1, <1>2, <2>2, <2>3, <2>4 DEF Conversation, Connected, InSession, Strangers
\* The acknowledgement of the last pack.
<1>4. CASE pc = "decode"
  <2>1. svr = "ack3" /\ toSvr = <<Sent("DATA_ACK3")>>
    BY <1>4, Awaiting
  <2>2. /\ svr' = "served" /\ conn' = "up" /\ toClt' = <<>> /\ toSvr' = <<>>
        /\ upl' = [upl EXCEPT !["DATA_ACK3"] = BodyOf("DATA_ACK3")]
    <3>1. Sent("DATA_ACK3").cmd = "DATA_ACK3" /\ Sent("DATA_ACK3").body = BodyOf("DATA_ACK3")
      BY SentIs
    <3>2. Acceptable(Sent("DATA_ACK3"))
      BY <3>1 DEF Acceptable, Essential
    <3>3. Head(toSvr) = Sent("DATA_ACK3") /\ toSvr' = <<>>
      BY <1>1, <2>1, ShortSeqs
    <3>4. Takes(Sent("DATA_ACK3"))
      BY <1>1, <2>1, <3>1, <3>2, <3>3, TakeOne, RuleExists DEF Refuses
    <3>5. QED
      BY <2>1, <3>1, <3>3, <3>4, RuleTable DEF Takes, Moves
  <2>3. Uploads'
    BY <2>1, <2>2 DEF Conversation, Uploads, NoFinger, WholeFinger, Halves,
                      TypeNetwork, CltCmds, Started, Photo, Finger, Late
  <2>4. Turn'
    BY <1>1, <1>4, <2>2 DEF Turn, Received, Started, Photo, Finger, Late
  <2>5. QED
    BY <1>1, <1>2, <2>2, <2>3, <2>4 DEF Conversation, Connected, InSession, Strangers
\* An answer of the loop.
<1>5. CASE pc = "loop" /\ svr # "serial"
  <2>1. PICK q \in Replies :
          /\ svr = q[1] /\ toSvr = <<Sent(q[2])>>
          /\ start_svrdata <=> (svr \in Late \/ q[2] = "SECNED_ACK")
          /\ svr \notin {"ack1", "ack2"} => Received(0)
          /\ svr = "ack1" => Received(1)
          /\ svr = "ack2" => Received(2)
          /\ q[2] = "SENDPHOTO2" => upl["SENDPHOTO1"] = Half(1, buff)
          /\ q[2] = "SENDFINGERPRINT2" => upl["SENDFINGERPRINT1"] = Half(1, buff)
    BY <1>5, Awaiting DEF Answered
  <2>2. toSvr' = <<>> /\ (Takes(Sent(q[2])) \/ Refuses(Sent(q[2])))
    BY <1>1, <2>1, TakeOne, ShortSeqs
  <2>3. CASE Takes(Sent(q[2]))
    BY <1>1, <1>5, <2>1, <2>2, <2>3, TakenConv
  <2>4. CASE Refuses(Sent(q[2]))
    <3>1. q[2] \in CltCmds /\ \E r \in SvrRules : r[1] = svr /\ r[2] = q[2]
      BY <2>1, RuleExists DEF Replies, CltCmds
    <3>2. piclen \in {0, 514} /\ (~start_svrdata => piclen = 0)
      BY <1>5, Awaiting, FewBytes
    <3>3. QED
      BY <1>1, <1>5, <2>2, <2>4, <3>1, <3>2, RefusedConv
  <2>5. QED
    BY <2>2, <2>3, <2>4
<1>6. QED
  BY <1>3, <1>4, <1>5, Awaiting

\* Whatever happens at the far end keeps the conversation.
LEMMA FarSideConv ==
  ASSUME Conversation, TypeNetwork, sid \in Nat, ReaderSame,
         SvrGreet \/ SvrHandle \/ StrangerSends \/ NetDrop
  PROVE  Conversation'
BY GreetConv, HandleConv, StrangerConv, DropConv

-----------------------------------------------------------------------------
(* Steps of the reader before and after a session                          *)

\* A fresh start: what the variables of the function are before any data.
Fresh == ~start_svrdata /\ piclen = 0

LEMMA OutsideConv ==
  ASSUME Conversation, pc \notin InSession, pc' \notin InSession,
         UNCHANGED network, pc' \notin {"idle", "done"} => Fresh'
  PROVE  Conversation'
<1>1. NetworkQuiet'
  BY DEF Conversation, NetworkQuiet, network
<1>2. NothingYet' /\ BuffersOwn'
  BY DEF NothingYet, BuffersOwn, Received, Fresh, InSession
<1>3. Uploads'
  BY <1>1 DEF NetworkQuiet, Uploads, Started, Photo, Finger, Late
<1>4. QED
  BY <1>1, <1>2, <1>3 DEF Conversation

LEMMA LeaveConv ==
  ASSUME DisconnectServer, pc' \notin InSession, pc' # "done" => Fresh'
  PROVE  Conversation'
<1>1. NetworkQuiet'
  BY DEF DisconnectServer, NetworkQuiet
<1>2. NothingYet' /\ BuffersOwn'
  BY DEF NothingYet, BuffersOwn, Received, Fresh, InSession
<1>3. Uploads'
  BY <1>1 DEF NetworkQuiet, Uploads, Started, Photo, Finger, Late
<1>4. QED
  BY <1>1, <1>2, <1>3 DEF Conversation

\* Before a connection nothing has come.
LEMMA FreshOutside ==
  ASSUME Conversation, pc \notin InSession \cup {"idle", "done"}
  PROVE  Fresh
BY DEF Conversation, NothingYet, Received, Fresh, InSession

LEMMA ConnectConv ==
  ASSUME Conversation, pc \notin InSession \cup {"idle", "done"}, pc' = "banner",
         ConnectServer, UNCHANGED <<start_svrdata, piclen, Faults>>
  PROVE  Conversation'
<1>1. /\ m_iSock' = sid' /\ conn' = "up" /\ toSvr' = <<>> /\ toClt' = <<>>
      /\ svr' = "accepted" \/ (svr' = "stranger" /\ "peer" \in Faults)
      /\ upl' = [c \in CltCmds |-> NoBody]
  BY DEF ConnectServer
<1>2. Received(0)' /\ ~start_svrdata'
  BY FreshOutside DEF Fresh, Received
<1>3. NothingYet' /\ BuffersOwn'
  BY <1>2 DEF NothingYet, BuffersOwn
<1>4. Uploads'
  BY <1>1 DEF Uploads, Started, Photo, Finger, Late, NoFinger, CltCmds
<1>5. Connected'
  BY <1>1 DEF Connected
<1>6. IF svr' \in Strangers THEN Strange' ELSE Turn'
  BY <1>1, <1>2 DEF Strangers, Strange, Turn, Started, Photo, Finger, Late
<1>7. QED
  BY <1>3, <1>4, <1>5, <1>6 DEF Conversation, InSession

-----------------------------------------------------------------------------
(* Steps of the reader in a session, up to the receive loop                *)

\* A step of the reader that keeps the connection.
Stays == UNCHANGED <<m_iSock, sid, Faults, conn, svr, upl>>

LEMMA StaysConv ==
  ASSUME Conversation, Stays, pc \in InSession, pc' \in InSession,
         BuffersOwn', NothingYet', conn = "down" => toSvr' = <<>>,
         IF svr \in Strangers THEN Strange' ELSE Turn'
  PROVE  Conversation'
<1> USE DEF Stays
<1>1. Uploads'
  BY DEF Conversation, Uploads, NoFinger, WholeFinger, Halves, FirstHalf
<1>2. Connected'
  BY DEF Conversation, Connected
<1>3. QED
  BY <1>1, <1>2 DEF Conversation

\* What a stranger sent is the only thing there is from it.
LEMMA StrangeFrame ==
  ASSUME Strange, toClt # <<>>
  PROVE  /\ Tail(toClt) = <<>>
         /\ Head(toClt) \in Noise \cup {Banner(FALSE)}
BY ShortSeqs DEF Strange

LEMMA BannerConv ==
  ASSUME Conversation, Stays, pc = "banner", toClt # <<>>, pc' = "serial",
         toClt' = Tail(toClt), UNCHANGED <<toSvr, start_svrdata, piclen>>
  PROVE  Conversation'
<1> USE DEF Stays
<1>1. pc \in InSession /\ pc' \in InSession /\ Connected
  BY DEF Conversation, InSession
<1>2. ~start_svrdata' /\ Received(0)'
  BY DEF Conversation, NothingYet, Received
<1>3. BuffersOwn' /\ NothingYet'
  BY <1>2 DEF BuffersOwn, NothingYet
<1>4. toClt' = <<>>
  BY <1>1, StrangeFrame, ShortSeqs DEF Conversation, Turn
<1>5. IF svr \in Strangers THEN Strange' ELSE Turn'
  BY <1>1, <1>2, <1>4 DEF Conversation, Strange, Turn, Started, Photo, Finger, Late
<1>6. QED
  BY <1>1, <1>3, <1>5, StaysConv DEF Connected

LEMMA SerialConv ==
  ASSUME Conversation, Stays, pc = "serial", pc' = "dn",
         SendData(Msg("VERIFY_SERIAL", NoBody)),
         UNCHANGED <<toClt, start_svrdata, piclen>>
  PROVE  Conversation'
<1> USE DEF Stays
<1>1. pc \in InSession /\ pc' \in InSession /\ Connected
  BY DEF Conversation, InSession
<1>2. ~start_svrdata' /\ Received(0)'
  BY DEF Conversation, NothingYet, Received
<1>3. BuffersOwn' /\ NothingYet'
  BY <1>2 DEF BuffersOwn, NothingYet
<1>4. CASE svr \in Strangers
  BY <1>1, <1>2, <1>3, <1>4, StaysConv
     DEF Conversation, Connected, Strange, SendData
<1>5. CASE svr \notin Strangers
  <2>1. svr = "serial" /\ toSvr = <<>> /\ toClt = <<>>
    BY <1>1, <1>5 DEF Conversation, Turn
  <2>2. Sent("VERIFY_SERIAL")' = Msg("VERIFY_SERIAL", NoBody)
    BY DEF Sent, BodyOf
  <2>3. toSvr' = IF conn = "up" THEN <<Sent("VERIFY_SERIAL")'>> ELSE <<>>
    BY <2>1, <2>2, ShortSeqs DEF SendData
  <2>4. Turn'
    BY <1>1, <2>1, <2>3 DEF Turn, Started, Photo, Finger, Late
  <2>5. QED
    BY <1>1, <1>3, <1>5, <2>3, <2>4, StaysConv
<1>6. QED
  BY <1>4, <1>5

LEMMA DNConv ==
  ASSUME Conversation, Stays, pc = "dn", pc' = "start",
         NEW f \in Answers("f6002"), buff' = Blob(f, m_iSock),
         DN' = buff', dnbuff' = buff',
         UNCHANGED <<toSvr, toClt, start_svrdata, piclen>>
  PROVE  Conversation'
<1> USE DEF Stays
<1>1. pc \in InSession /\ pc' \in InSession /\ Connected
  BY DEF Conversation, InSession
<1>2. ~start_svrdata' /\ Received(0)'
  BY DEF Conversation, NothingYet, Received
<1>3. NothingYet'
  BY <1>2 DEF NothingYet
<1>4. BuffersOwn'
  BY <1>1 DEF BuffersOwn, Connected, Answers, CardFails, Blob, Files
<1>5. CASE svr \in Strangers
  BY <1>1, <1>2, <1>3, <1>4, <1>5, StaysConv DEF Conversation, Connected, Strange
<1>6. CASE svr \notin Strangers
  <2>1. Turn /\ svr \in {"serial", "start"}
    BY <1>1, <1>6 DEF Conversation, Turn
  <2>2. Sent("VERIFY_SERIAL")' = Sent("VERIFY_SERIAL")
    BY DEF Sent, BodyOf
  <2>3. Turn'
    BY <2>1, <2>2 DEF Turn, Started, Photo, Finger, Late
  <2>4. QED
    BY <1>1, <1>3, <1>4, <1>6, <2>3, StaysConv DEF Connected
<1>7. QED
  BY <1>5, <1>6

LEMMA StartConv ==
  ASSUME Conversation, Stays, pc = "start", pc' = "loop",
         SendData(Msg("STARTRDCARD_ACK", Whole(dnbuff))),
         UNCHANGED <<toClt, buff, DN, dnbuff, start_svrdata, piclen>>
  PROVE  Conversation'
<1> USE DEF Stays
<1>1. pc \in InSession /\ pc' \in InSession /\ Connected
  BY DEF Conversation, InSession
<1>2. ~start_svrdata' /\ Received(0)' /\ piclen' = 0
  BY DEF Conversation, NothingYet, Received
<1>3. NothingYet' /\ BuffersOwn'
  BY DEF NothingYet, BuffersOwn, Conversation, CardFails
<1>4. CASE svr \in Strangers
  BY <1>1, <1>2, <1>3, <1>4, StaysConv
     DEF Conversation, Connected, Strange, SendData
<1>5. CASE svr \notin Strangers
  <2>1. /\ Turn /\ svr \in {"serial", "start"} /\ toClt = <<>>
        /\ toSvr = IF svr = "serial" /\ conn = "up" THEN <<Sent("VERIFY_SERIAL")>>
                                                    ELSE <<>>
    BY <1>1, <1>5 DEF Conversation, Turn
  <2>2. /\ Sent("VERIFY_SERIAL")' = Sent("VERIFY_SERIAL")
        /\ Sent("STARTRDCARD_ACK")' = Msg("STARTRDCARD_ACK", Whole(dnbuff))
    BY DEF Sent, BodyOf
  <2>3. CASE conn = "up" /\ svr = "serial"
    <3>1. toSvr' = <<Sent("VERIFY_SERIAL")', Sent("STARTRDCARD_ACK")'>>
      <4>1. toSvr' = Append(<<Sent("VERIFY_SERIAL")>>, Msg("STARTRDCARD_ACK", Whole(dnbuff)))
        BY <2>1, <2>3 DEF SendData
      <4>2. toSvr' = <<Sent("VERIFY_SERIAL"), Msg("STARTRDCARD_ACK", Whole(dnbuff))>>
        BY <4>1, Pair
      <4>3. QED
        BY <2>2, <4>2
    <3>2. Answered'
      BY <1>2, <2>1, <2>3, <3>1 DEF Answered
    <3>3. QED
      BY <1>1, <1>3, <1>5, <2>1, <2>3, <3>2, StaysConv
         DEF Turn, Started, Photo, Finger, Late
  <2>4. CASE conn = "up" /\ svr = "start"
    <3>1. toSvr' = <<Sent("STARTRDCARD_ACK")'>>
      BY <2>1, <2>2, <2>4, ShortSeqs DEF SendData
    <3>2. <<"start", "STARTRDCARD_ACK">> \in Replies
      BY DEF Replies
    <3>3. Answered'
      BY <1>2, <2>1, <2>4, <3>1, <3>2 DEF Answered, Late
    <3>4. QED
      BY <1>1, <1>3, <1>5, <2>1, <2>4, <3>3, StaysConv
         DEF Turn, Started, Photo, Finger, Late
  <2>5. CASE conn = "down"
    <3>1. toSvr' = <<>> /\ Lost'
      BY <1>2, <2>1, <2>5 DEF SendData, Lost
    <3>2. QED
      BY <1>1, <1>3, <1>5, <2>1, <2>5, <3>1, StaysConv
         DEF Turn, Started, Photo, Finger, Late
  <2>6. QED
    BY <1>1, <2>1, <2>3, <2>4, <2>5 DEF Connected
<1>6. QED
  BY <1>4, <1>5

-----------------------------------------------------------------------------
(* The receive loop                                                        *)

\* The frame that a handler has before it, and who sent it.
LEMMA FrameFrom ==
  ASSUME Conversation, pc = "loop", toClt # <<>>
  PROVE  /\ Connected
         /\ svr \in Strangers =>
              /\ Strange /\ Tail(toClt) = <<>>
              /\ Head(toClt) \in Noise \cup {Banner(FALSE)}
         /\ svr \notin Strangers =>
              /\ Asked /\ svr \in Started /\ dnbuff.file = "f6002"
              /\ \/ /\ \E q \in Questions : svr = q[1] /\ Head(toClt) = Cmd(q[2], TRUE)
                    /\ Tail(toClt) = <<>>
                 \/ /\ svr = "ack1" /\ Head(toClt) = Cmd("OUTCERT", TRUE)
                    /\ Tail(toClt) = <<Data(1, sid)>>
                 \/ svr = "ack1" /\ Head(toClt) = Data(1, sid) /\ Tail(toClt) = <<>>
                 \/ svr = "ack2" /\ Head(toClt) = Data(2, sid) /\ Tail(toClt) = <<>>
                 \/ svr = "ack3" /\ Head(toClt) = Data(3, sid) /\ Tail(toClt) = <<>>
<1>1. Connected
  BY DEF Conversation, InSession
<1>2. CASE svr \in Strangers
  BY <1>1, <1>2, StrangeFrame DEF Conversation, InSession
<1>3. CASE svr \notin Strangers
  <2>1. Turn /\ Asked
    BY <1>3 DEF Conversation, InSession, Turn, Answered, Lost
  <2>2. svr \in Started
    <3>1. svr \in {"ack1", "ack2", "ack3"} \/ \E q \in Questions : svr = q[1]
      BY <2>1 DEF Asked
    <3>2. QED
      BY <3>1 DEF Questions, Started, Photo, Finger, Late
  <2>3. \/ /\ \E q \in Questions : svr = q[1] /\ Head(toClt) = Cmd(q[2], TRUE)
           /\ Tail(toClt) = <<>>
        \/ /\ svr = "ack1" /\ Head(toClt) = Cmd("OUTCERT", TRUE)
           /\ Tail(toClt) = <<Data(1, sid)>>
        \/ svr = "ack1" /\ Head(toClt) = Data(1, sid) /\ Tail(toClt) = <<>>
        \/ svr = "ack2" /\ Head(toClt) = Data(2, sid) /\ Tail(toClt) = <<>>
        \/ svr = "ack3" /\ Head(toClt) = Data(3, sid) /\ Tail(toClt) = <<>>
    <3>1. CASE \E q \in Questions : svr = q[1] /\ toClt = <<Cmd(q[2], TRUE)>>
      BY <3>1, ShortSeqs
    <3>2. CASE svr = "ack1" /\ toClt = <<Cmd("OUTCERT", TRUE), Data(1, sid)>>
      BY <3>2, ShortSeqs
    <3>3. CASE svr = "ack1" /\ toClt = <<Data(1, sid)>>
      BY <3>3, ShortSeqs
    <3>4. CASE svr = "ack2" /\ toClt = <<Data(2, sid)>>
      BY <3>4, ShortSeqs
    <3>5. CASE svr = "ack3" /\ toClt = <<Data(3, sid)>>
      BY <3>5, ShortSeqs
    <3>6. QED
      BY <2>1, <3>1, <3>2, <3>3, <3>4, <3>5 DEF Asked
  <2>4. QED
    BY <1>1, <1>3, <2>1, <2>2, <2>3 DEF Turn
<1>4. QED
  BY <1>2, <1>3

\* A command and the state of the server that gives it.
LEMMA CommandFrom ==
  ASSUME Conversation, NEW c, RecvCmd(c), pc = "loop",
         c # "other", c \in {"INCERT", "OUTCERT"} => Head(toClt).ok
  PROVE  /\ svr \notin Strangers /\ Asked /\ Connected /\ dnbuff.file = "f6002"
         /\ c = "INCERT" => svr \in {"inauth", "inauth2"}
         /\ c = "OUTCERT" => svr \in {"outauth", "ack1"}
         /\ c = "MSG_ACK" => svr = "photo1"
         /\ c = "RDPHOTO_ACK1" => svr = "photo2"
         /\ c = "RDPHOTO_ACK2" => svr = "finger1"
         /\ c = "RDFINGERPRINT_ACK1" => svr = "finger2"
         /\ c = "RDFINGERPRINT_ACK2" => svr = "second"
         /\ Tail(toClt) = IF svr = "ack1" THEN <<Data(1, sid)>> ELSE <<>>
<1>1. toClt # <<>> /\ Head(toClt).kind = "cmd" /\ Head(toClt).cmd = c
  BY DEF RecvCmd
<1>2. svr \notin Strangers
  <2>1. \A f \in Noise \cup {Banner(FALSE)} :
          f.kind = "cmd" /\ f.cmd # "other" => f.cmd \in {"INCERT", "OUTCERT"} /\ ~f.ok
    BY DEF Noise, Banner, Cmd, BadPack, BadFrame
  <2>2. QED
    BY <1>1, <2>1, FrameFrom
<1>3. QED
  BY <1>1, <1>2, FrameFrom DEF Questions, Cmd, Data

\* The causes of each code.
LEMMA CausesAre ==
  /\ "connect" \in Causes(NETCONNECT_ERROR)
  /\ {"drop", "slow", "peer", "card"} \subseteq Causes(NETRECV_ERROR)
  /\ {"drop", "card"} \subseteq Causes(NETSEND_ERROR)
  /\ "device" \in Causes(NFCOPEN_ERROR) /\ "device" \in Causes(GETSERIAL_FAIL)
  /\ {"card", "outcert"} \subseteq Causes(NFCREADCARD_ERROR)
  /\ "card" \in Causes(SEARCHCARD_FAIL)
  /\ "peer" \in Causes(INVALIDNETCMD)
  /\ "auth" \in Causes(AUTHOR_FAIL)
<1> USE DEF Causes, NETCONNECT_ERROR, NETRECV_ERROR, NETSEND_ERROR, NFCOPEN_ERROR,
            NFCREADCARD_ERROR, SEARCHCARD_FAIL, INVALIDNETCMD, GETSERIAL_FAIL,
            AUTHOR_FAIL
<1>1. /\ "connect" \in Causes(NETCONNECT_ERROR)
      /\ {"drop", "slow", "peer", "card"} \subseteq Causes(NETRECV_ERROR)
      /\ {"drop", "card"} \subseteq Causes(NETSEND_ERROR)
  OBVIOUS
<1>2. /\ "device" \in Causes(NFCOPEN_ERROR) /\ "device" \in Causes(GETSERIAL_FAIL)
      /\ {"card", "outcert"} \subseteq Causes(NFCREADCARD_ERROR)
  OBVIOUS
<1>3. /\ "card" \in Causes(SEARCHCARD_FAIL)
      /\ "peer" \in Causes(INVALIDNETCMD)
      /\ "auth" \in Causes(AUTHOR_FAIL)
  OBVIOUS
<1>4. QED
  BY <1>1, <1>2, <1>3

\* A command that is not well formed, or an unknown type, is a stranger's.
LEMMA InvalidFrom ==
  ASSUME Conversation, pc = "loop", toClt # <<>>,
         ~Head(toClt).ok \/ Head(toClt).kind = "bad"
  PROVE  Causes(INVALIDNETCMD) \cap Faults # {}
<1>1. svr \in Strangers
  BY FrameFrom DEF Cmd, Data
<1>2. "peer" \in Faults
  BY <1>1, FrameFrom DEF Strange
<1>3. "peer" \in Causes(INVALIDNETCMD)
  BY CausesAre
<1>4. QED
  BY <1>2, <1>3

\* A wait that ends without a frame: the network, a stranger, or the server
\* that refused what a failing card gave it.
LEMMA RecvFailsFrom ==
  ASSUME Conversation, pc \in {"banner", "loop"}, RecvFails
  PROVE  Causes(NETRECV_ERROR) \cap Faults # {}
<1>1. Connected
  BY DEF Conversation, InSession
<1>2. {"drop", "slow", "peer", "card"} \cap Faults # {}
  <2>1. CASE conn = "down" \/ "slow" \in Faults
    BY <1>1, <2>1 DEF Connected
  <2>2. CASE conn = "up" /\ svr \in Strangers
    BY <2>2 DEF Conversation, InSession, Strange
  <2>3. CASE conn = "up" /\ svr \notin Strangers /\ toClt = <<>> /\ ~SvrBusy
    <3>1. Turn
      BY <2>3 DEF Conversation, InSession
    <3>2. CASE pc = "banner"
      BY <2>3, <3>1, <3>2 DEF Turn, SvrBusy
    <3>3. CASE pc = "loop"
      <4>1. Answered
        BY <2>3, <3>1, <3>3, ShortSeqs DEF Turn, Asked, Lost
      <4>2. toSvr # <<>>
        BY <4>1, ShortSeqs DEF Answered
      <4>3. QED
        BY <2>3, <4>2 DEF SvrBusy, Strangers
    <3>4. QED
      BY <3>2, <3>3
  <2>4. QED
    BY <1>1, <2>1, <2>2, <2>3 DEF RecvFails, Connected
<1>3. QED
  BY <1>2, CausesAre

LEMMA SendFailsFrom ==
  ASSUME Conversation, pc \in InSession, SendFails
  PROVE  Causes(NETSEND_ERROR) \cap Faults # {}
BY CausesAre DEF Conversation, Connected, SendFails

\* What a handler of the loop leaves alone when it goes round again.
LoopStays ==
  /\ pc = "loop" /\ pc' = "loop" /\ Stays
  /\ toClt' = Tail(toClt)
  /\ UNCHANGED <<DN, dnbuff, cardInfo, pic, piclen>>

\* The buffer after a handler: of this session, and an error status only
\* from a failing card.
NewBuff ==
  /\ \E f \in Files \ {"none"} : buff' = Blob(f, sid)
  /\ buff'.file = "status" => CardFails

\* A handler sends after the question was taken from the wire.
LEMMA SendsOne ==
  ASSUME Asked, NEW m, SendData(m)
  PROVE  toSvr' = IF conn = "up" THEN <<m>> ELSE <<>>
BY ShortSeqs DEF Asked, SendData

\* A handler that answers its question gives the turn to the server, or finds
\* the connection gone.
LEMMA ReplyConv ==
  ASSUME Conversation, LoopStays, NewBuff, svr \notin Strangers, Asked,
         dnbuff.file = "f6002", toClt' = <<>>,
         NEW q \in Replies, svr = q[1], svr \notin {"start", "ack1", "ack2"},
         toSvr' = IF conn = "up" THEN <<Sent(q[2])'>> ELSE <<>>,
         start_svrdata' <=> (start_svrdata \/ q[2] = "SECNED_ACK"),
         q[2] = "SENDPHOTO2" => upl["SENDPHOTO1"] = Half(1, buff'),
         q[2] = "SENDFINGERPRINT2" => upl["SENDFINGERPRINT1"] = Half(1, buff')
  PROVE  Conversation'
<1> USE DEF Stays, LoopStays
<1>1. start_svrdata <=> svr \in Late
  BY DEF Asked
<1>2. Received(0) /\ Received(0)' /\ piclen' = 0
  <2>1. Received(0)
    BY DEF Asked, Replies
  <2>2. QED
    BY <2>1 DEF Received
<1>3. NothingYet' /\ BuffersOwn'
  BY DEF NothingYet, BuffersOwn, NewBuff, Conversation, CardFails
<1>4. Connected
  BY DEF Conversation, InSession
<1>5. Answered' \/ Lost'
  <2>1. CASE conn = "up"
    <3>1. svr' = q[1] /\ toSvr' = <<Sent(q[2])'>>
      BY <2>1
    <3>2. /\ start_svrdata' <=> (svr' \in Late \/ q[2] = "SECNED_ACK")
          /\ svr' \notin {"ack1", "ack2"}
      BY <1>1
    <3>3. /\ q[2] = "SENDPHOTO2" => upl'["SENDPHOTO1"] = Half(1, buff')
          /\ q[2] = "SENDFINGERPRINT2" => upl'["SENDFINGERPRINT1"] = Half(1, buff')
      OBVIOUS
    <3>4. QED
      BY <1>2, <2>1, <3>1, <3>2, <3>3 DEF Answered
  <2>2. CASE conn # "up"
    BY <1>2, <1>4, <2>2 DEF Lost, Connected
  <2>3. QED
    BY <2>1, <2>2
<1>6. Turn'
  BY <1>5 DEF Turn
<1>7. QED
  BY <1>3, <1>6, StaysConv DEF InSession

\* Internal authentication, and once more before the data.
LEMMA IncertConv ==
  ASSUME Conversation, LoopStays, RecvCmd("INCERT"), Head(toClt).ok,
         NEW f \in Answers("rand"), buff' = Blob(f, m_iSock),
         SendData(Msg("INAUTH_ACK", Whole(Blob(f, m_iSock)))),
         UNCHANGED start_svrdata
  PROVE  Conversation'
<1>1. /\ svr \in {"inauth", "inauth2"} /\ svr \notin Strangers /\ Asked
      /\ Connected /\ dnbuff.file = "f6002" /\ toClt' = <<>>
  BY CommandFrom DEF LoopStays
<1>2. NewBuff
  BY <1>1 DEF NewBuff, Answers, Blob, Files, Connected
<1>3. Sent("INAUTH_ACK")' = Msg("INAUTH_ACK", Whole(Blob(f, m_iSock)))
  BY DEF Sent, BodyOf
<1>4. toSvr' = IF conn = "up" THEN <<Sent("INAUTH_ACK")'>> ELSE <<>>
  BY <1>1, <1>3, SendsOne
<1>5. <<"inauth", "INAUTH_ACK">> \in Replies /\ <<"inauth2", "INAUTH_ACK">> \in Replies
  BY DEF Replies
<1>6. QED
  BY <1>1, <1>2, <1>4, <1>5, ReplyConv

\* External authentication.
LEMMA OutcertConv ==
  ASSUME Conversation, LoopStays, RecvCmd("OUTCERT"), Head(toClt).ok,
         ~start_svrdata, NEW k \in {"f6011_12", "mixed"}, buff' = Blob(k, m_iSock),
         SendData(Msg("OUTAUTH_ACK", Whole(Blob(k, m_iSock)))),
         UNCHANGED start_svrdata
  PROVE  Conversation'
<1>1. /\ svr = "outauth" /\ svr \notin Strangers /\ Asked
      /\ Connected /\ dnbuff.file = "f6002" /\ toClt' = <<>>
  BY CommandFrom DEF LoopStays, Asked, Late
<1>2. NewBuff
  BY <1>1 DEF NewBuff, Blob, Files, Connected
<1>3. Sent("OUTAUTH_ACK")' = Msg("OUTAUTH_ACK", Whole(Blob(k, m_iSock)))
  BY DEF Sent, BodyOf
<1>4. toSvr' = IF conn = "up" THEN <<Sent("OUTAUTH_ACK")'>> ELSE <<>>
  BY <1>1, <1>3, SendsOne
<1>5. <<"outauth", "OUTAUTH_ACK">> \in Replies
  BY DEF Replies
<1>6. QED
  BY <1>1, <1>2, <1>4, <1>5, ReplyConv

\* The command that is swallowed leaves the first pack to be handled.
LEMMA SwallowConv ==
  ASSUME Conversation, LoopStays, RecvCmd("OUTCERT"), Head(toClt).ok,
         start_svrdata, UNCHANGED <<buff, start_svrdata, toSvr>>
  PROVE  Conversation'
<1> USE DEF Stays, LoopStays
<1>1. /\ svr \in {"outauth", "ack1"} /\ svr \notin Strangers /\ Asked
      /\ Connected /\ dnbuff.file = "f6002"
      /\ Tail(toClt) = IF svr = "ack1" THEN <<Data(1, sid)>> ELSE <<>>
  BY CommandFrom
<1>2. svr = "ack1" /\ toClt' = <<Data(1, sid)>>
  BY <1>1 DEF Asked, Late
<1>3. NothingYet' /\ BuffersOwn'
  BY DEF NothingYet, BuffersOwn, Conversation, CardFails
<1>4. Asked'
  BY <1>1, <1>2 DEF Asked, Received
<1>5. Turn'
  BY <1>1, <1>4 DEF Turn
<1>6. QED
  BY <1>1, <1>3, <1>5, StaysConv DEF InSession, Connected

\* The first half of the photo.
LEMMA MsgAckConv ==
  ASSUME Conversation, LoopStays, RecvCmd("MSG_ACK"), TypeCard,
         NEW f \in Selects("f6013", sel), buff' = Blob(f, m_iSock),
         SendData(Msg("SENDPHOTO1", Half(1, Blob(f, m_iSock)))),
         UNCHANGED start_svrdata
  PROVE  Conversation'
<1>1. /\ svr = "photo1" /\ svr \notin Strangers /\ Asked
      /\ Connected /\ dnbuff.file = "f6002" /\ toClt' = <<>>
  BY CommandFrom DEF LoopStays
<1>2. NewBuff
  <2>1. f \in Files \ {"none"} /\ (f # "f6013" => CardFails)
    BY SelectsBytes DEF TypeCard
  <2>2. QED
    BY <1>1, <2>1 DEF NewBuff, Blob, Files, Connected
<1>3. Sent("SENDPHOTO1")' = Msg("SENDPHOTO1", Half(1, Blob(f, m_iSock)))
  BY DEF Sent, BodyOf
<1>4. toSvr' = IF conn = "up" THEN <<Sent("SENDPHOTO1")'>> ELSE <<>>
  BY <1>1, <1>3, SendsOne
<1>5. <<"photo1", "SENDPHOTO1">> \in Replies
  BY DEF Replies
<1>6. QED
  BY <1>1, <1>2, <1>4, <1>5, ReplyConv

\* The buffer that a handler does not touch is still its own.
LEMMA SameBuff ==
  ASSUME Conversation, pc = "loop", UNCHANGED buff
  PROVE  NewBuff
BY DEF Conversation, BuffersOwn, NewBuff

\* The second halves, from what the handler of the first left in the buffer.
LEMMA Ack1Conv ==
  ASSUME Conversation, LoopStays,
         NEW c, NEW reply, <<c, reply>> \in { <<"RDPHOTO_ACK1", "SENDPHOTO2">>,
           <<"RDFINGERPRINT_ACK1", "SENDFINGERPRINT2">> },
         RecvCmd(c), SendData(Msg(reply, Half(2, buff))),
         UNCHANGED <<buff, start_svrdata>>
  PROVE  Conversation'
<1>1. /\ <<svr, reply>> \in {<<"photo2", "SENDPHOTO2">>, <<"finger2", "SENDFINGERPRINT2">>}
      /\ svr \notin Strangers /\ Asked
      /\ Connected /\ dnbuff.file = "f6002" /\ toClt' = <<>>
  BY CommandFrom DEF LoopStays
<1>2. NewBuff
  BY SameBuff DEF LoopStays
<1>3. Sent(reply)' = Msg(reply, Half(2, buff))
  BY <1>1 DEF Sent, BodyOf
<1>4. toSvr' = IF conn = "up" THEN <<Sent(reply)'>> ELSE <<>>
  BY <1>1, <1>3, SendsOne
<1>5. /\ reply = "SENDPHOTO2" => upl["SENDPHOTO1"] = Half(1, buff')
      /\ reply = "SENDFINGERPRINT2" => upl["SENDFINGERPRINT1"] = Half(1, buff')
  BY <1>1 DEF Asked
<1>6. <<svr, reply>> \in Replies /\ reply # "SECNED_ACK"
  BY <1>1 DEF Replies
<1>7. PICK q \in Replies : svr = q[1] /\ reply = q[2]
  BY <1>6
<1>8. QED
  BY <1>1, <1>2, <1>4, <1>5, <1>6, <1>7, ReplyConv

\* The start message again: there is no fingerprint, or all of it is there.
LEMMA SecondConv ==
  ASSUME Conversation, LoopStays, NewBuff,
         NEW c \in {"RDPHOTO_ACK2", "RDFINGERPRINT_ACK2"}, RecvCmd(c),
         SendData(Msg("SECNED_ACK", Whole(dnbuff))), start_svrdata' = TRUE
  PROVE  Conversation'
<1>1. /\ svr \in {"finger1", "second"} /\ svr \notin Strangers /\ Asked
      /\ Connected /\ dnbuff.file = "f6002" /\ toClt' = <<>>
  BY CommandFrom DEF LoopStays
<1>2. Sent("SECNED_ACK")' = Msg("SECNED_ACK", Whole(dnbuff))
  BY DEF Sent, BodyOf, LoopStays
<1>3. toSvr' = IF conn = "up" THEN <<Sent("SECNED_ACK")'>> ELSE <<>>
  BY <1>1, <1>2, SendsOne
<1>4. <<svr, "SECNED_ACK">> \in Replies
  BY <1>1 DEF Replies
<1>5. PICK q \in Replies : svr = q[1] /\ q[2] = "SECNED_ACK"
  BY <1>4
<1>6. QED
  BY <1>1, <1>3, <1>5, ReplyConv

\* The first half of the fingerprint.
LEMMA FingerConv ==
  ASSUME Conversation, LoopStays, NewBuff, RecvCmd("RDPHOTO_ACK2"),
         SendData(Msg("SENDFINGERPRINT1", Half(1, buff'))),
         UNCHANGED start_svrdata
  PROVE  Conversation'
<1>1. /\ svr = "finger1" /\ svr \notin Strangers /\ Asked
      /\ Connected /\ dnbuff.file = "f6002" /\ toClt' = <<>>
  BY CommandFrom DEF LoopStays
<1>2. Sent("SENDFINGERPRINT1")' = Msg("SENDFINGERPRINT1", Half(1, buff'))
  BY DEF Sent, BodyOf
<1>3. toSvr' = IF conn = "up" THEN <<Sent("SENDFINGERPRINT1")'>> ELSE <<>>
  BY <1>1, <1>2, ShortSeqs DEF SendData, Asked
<1>4. <<"finger1", "SENDFINGERPRINT1">> \in Replies
  BY DEF Replies
<1>5. QED
  BY <1>1, <1>3, <1>4, ReplyConv

\* What is no command of the protocol is a stranger's, and gets no answer.
LEMMA IgnoreConv ==
  ASSUME Conversation, LoopStays, toClt # <<>>,
         RecvCmd("other") \/ ~Head(toClt).ok,
         UNCHANGED <<buff, start_svrdata, toSvr>>
  PROVE  Conversation'
<1> USE DEF Stays, LoopStays
<1>1. \A q \in Questions : q[2] # "other"
  BY DEF Questions
<1>2. svr \in Strangers /\ Strange /\ toClt' = <<>> /\ Connected
  <2>1. pc = "loop"
    OBVIOUS
  <2>2. svr \in Strangers
    <3>1. CASE ~Head(toClt).ok
      BY <2>1, <3>1, FrameFrom DEF Cmd, Data
    <3>2. CASE RecvCmd("other")
      <4>1. Head(toClt).kind = "cmd" /\ Head(toClt).cmd = "other"
        BY <3>2 DEF RecvCmd
      <4>2. \A q \in Questions : Head(toClt) # Cmd(q[2], TRUE)
        BY <1>1, <4>1 DEF Cmd
      <4>3. /\ Head(toClt) # Cmd("OUTCERT", TRUE)
            /\ \A n : Head(toClt) # Data(n, sid)
        BY <4>1 DEF Cmd, Data
      <4>4. QED
        BY <2>1, <4>2, <4>3, FrameFrom
    <3>3. QED
      BY <3>1, <3>2
  <2>3. QED
    BY <2>1, <2>2, FrameFrom
<1>3. NothingYet' /\ BuffersOwn'
  BY DEF NothingYet, BuffersOwn, Conversation, CardFails
<1>4. Strange'
  BY <1>2 DEF Strange, Received
<1>5. QED
  BY <1>2, <1>3, <1>4, StaysConv DEF InSession, Connected

\* A pack of data: the packs come in their order, and each is acknowledged.
LEMMA DataConv ==
  ASSUME Conversation, pc = "loop", Stays, toClt # <<>>,
         Head(toClt).kind = "data", Head(toClt).ok, toClt' = Tail(toClt),
         NEW n, n = Head(toClt).no,
         cardInfo' = IF n = 1 THEN Head(toClt).sess ELSE cardInfo,
         pic'[1] = IF n = 2 THEN Head(toClt).sess ELSE pic[1],
         pic'[2] = IF n = 3 THEN Head(toClt).sess ELSE pic[2],
         piclen' = IF n = 1 THEN piclen ELSE piclen + PackLen(n),
         SendData(Msg(DataAck[n], NoBody)),
         pc' = IF n = 3 THEN "decode" ELSE "loop",
         UNCHANGED <<buff, DN, dnbuff, start_svrdata>>
  PROVE  Conversation'
<1> USE DEF Stays
<1>1. svr \notin Strangers
  <2>1. \A f \in Noise \cup {Banner(FALSE)} : ~(f.kind = "data" /\ f.ok)
    BY DEF Noise, Banner, Cmd, BadPack, BadFrame
  <2>2. QED
    BY <2>1, FrameFrom
<1>2. /\ Asked /\ Connected /\ dnbuff.file = "f6002" /\ toClt' = <<>>
      /\ <<svr, n>> \in {<<"ack1", 1>>, <<"ack2", 2>>, <<"ack3", 3>>}
      /\ Head(toClt).sess = sid
  BY <1>1, FrameFrom DEF Cmd, Data
<1>3. DataAck[n] = IF n = 1 THEN "DATA_ACK1" ELSE IF n = 2 THEN "DATA_ACK2" ELSE "DATA_ACK3"
  BY <1>2 DEF DataAck
<1>4. Sent(DataAck[n])' = Msg(DataAck[n], NoBody)
  BY <1>2, <1>3 DEF Sent, BodyOf
<1>5. toSvr' = IF conn = "up" THEN <<Sent(DataAck[n])'>> ELSE <<>>
  BY <1>2, <1>4, SendsOne
<1>6. /\ n = 1 => Received(1)' /\ Received(0)
      /\ n = 2 => Received(2)' /\ Received(1)
      /\ n = 3 => Received(3)' /\ Received(2)
  BY <1>2 DEF Asked, Received, PackLen, CARD_PHOTO_LEN
<1>7. NothingYet' /\ BuffersOwn'
  BY DEF NothingYet, BuffersOwn, Conversation, CardFails
<1>8. start_svrdata' /\ svr \in Late
  BY <1>2 DEF Asked, Late
<1>9. CASE n = 3
  <2>1. Turn'
    BY <1>2, <1>3, <1>5, <1>6, <1>9 DEF Turn
  <2>2. QED
    BY <1>1, <1>2, <1>5, <1>7, <1>9, <2>1, StaysConv DEF InSession
<1>10. CASE n \in {1, 2}
  <2>1. CASE conn = "up"
    <3>1. \E q \in Replies : svr = q[1] /\ DataAck[n] = q[2] /\ q[2] # "SECNED_ACK"
                             /\ q[2] \notin {"SENDPHOTO2", "SENDFINGERPRINT2"}
      BY <1>2, <1>3, <1>10 DEF Replies
    <3>2. /\ svr \notin {"ack1", "ack2"} => Received(0)'
          /\ svr = "ack1" => Received(1)'
          /\ svr = "ack2" => Received(2)'
      BY <1>2, <1>6, <1>10
    <3>3. Answered'
      BY <1>2, <1>5, <1>8, <2>1, <3>1, <3>2 DEF Answered
    <3>4. QED
      BY <1>1, <1>2, <1>7, <1>10, <2>1, <3>3, StaysConv DEF InSession, Turn
  <2>2. CASE conn = "down"
    <3>1. Lost'
      BY <1>2, <1>5, <1>6, <1>8, <1>10, <2>2 DEF Lost, Received
    <3>2. QED
      BY <1>1, <1>2, <1>5, <1>7, <1>10, <2>2, <3>1, StaysConv DEF InSession, Turn
  <2>3. QED
    BY <1>2, <2>1, <2>2 DEF Connected
<1>11. QED
  BY <1>2, <1>9, <1>10

-----------------------------------------------------------------------------
(* What follows from the invariant                                         *)

\* What the server decodes is of one session, and it refuses only what the
\* card did not give.
LEMMA ServerSide ==
  ASSUME Conversation
  PROVE  UploadsCoherent /\ InStep
<1>1. UploadsCoherent
  BY DEF Conversation, Uploads, UploadsCoherent, Halves, NoFinger, WholeFinger,
         Late, Photo, Started
<1>2. InStep
  BY DEF Conversation, Uploads, InStep
<1>3. QED
  BY <1>1, <1>2

\* When the third pack has come, all of the read is there, of this session.
LEMMA ReaderSide ==
  ASSUME Conversation, pc = "decode"
  PROVE  /\ DN = Blob("f6002", sid) /\ m_iSock = sid
         /\ cardInfo = sid /\ pic[1] = sid /\ pic[2] = sid
         /\ piclen = CARD_PHOTO_LEN
<1>1. Connected /\ Turn
  BY DEF Conversation, InSession, Strange
<1>2. Received(3) /\ dnbuff.file = "f6002"
  BY <1>1 DEF Turn, Started, Photo, Late
<1>3. QED
  BY <1>1, <1>2 DEF Received, Connected, Conversation, BuffersOwn, Blob

-----------------------------------------------------------------------------
(* The conversation gets shorter                                           *)

\* How much the server may still have to say.
SvrLeft(s) ==
  CASE s = "accepted" -> 18 [] s = "serial"  -> 17 [] s = "start"   -> 16
    [] s = "inauth"   -> 15 [] s = "outauth" -> 14 [] s = "photo1"  -> 13
    [] s = "photo2"   -> 12 [] s = "finger1" -> 11 [] s = "finger2" -> 10
    [] s = "second"   -> 9  [] s = "inauth2" -> 8  [] s = "ack1"    -> 7
    [] s = "ack2"     -> 6  [] s = "ack3"    -> 5  [] s = "served"  -> 4
    [] s = "stranger" -> 1  [] OTHER         -> 0

\* What is left of the conversation: the state of the server, whether the
\* connection can still break, and what is under way.  A frame may call for a
\* message; that of a stranger calls for none.
Incoming    == IF svr = "noisy" THEN 2 * Len(toClt) ELSE 4 * Len(toClt)
UpLeft      == IF conn = "up" THEN 1 ELSE 0
NetworkLeft == 10 * SvrLeft(svr) + UpLeft + 3 * Len(toSvr) + Incoming

LEMMA SvrLeftType == ASSUME NEW s PROVE SvrLeft(s) \in 0..18
BY DEF SvrLeft

LEMMA Longer ==
  ASSUME NEW S, NEW q \in Seq(S), NEW x
  PROVE  Len(Append(q, x)) = Len(q) + 1
<1>1. PICK T : T = S \cup {x}
  OBVIOUS
<1>2. q \in Seq(T) /\ x \in T
  BY <1>1
<1>3. QED
  BY <1>2

\* The parts of NetworkLeft as numbers.
Measured ==
  /\ SvrLeft(svr) \in 0..18 /\ UpLeft \in 0..1
  /\ Len(toSvr) \in Nat /\ Len(toClt) \in Nat

LEMMA MeasuredFacts ==
  ASSUME TypeNetwork
  PROVE  Measured /\ NetworkLeft \in Nat
<1>1. Measured
  BY SvrLeftType DEF TypeNetwork, UpLeft, Measured
<1>2. PICK a \in 0..18, b \in 0..1, c \in Nat, d \in Nat :
        a = SvrLeft(svr) /\ b = UpLeft /\ c = Len(toSvr) /\ d = Len(toClt)
  BY <1>1 DEF Measured
<1>3. Incoming = 2 * d \/ Incoming = 4 * d
  BY <1>2 DEF Incoming
<1>4. NetworkLeft = 10 * a + b + 3 * c + 2 * d \/ NetworkLeft = 10 * a + b + 3 * c + 4 * d
  BY <1>2, <1>3 DEF NetworkLeft
<1>5. QED
  BY <1>1, <1>4

LEMMA MeasuredNext == TypeNetwork' => Measured' /\ (NetworkLeft \in Nat)'
BY MeasuredFacts, PTL

\* The server's answers: each is a step forward, and two frames at most.
LEMMA RuleMoves ==
  ASSUME NEW r \in SvrRules
  PROVE  SvrLeft(r[3]) < SvrLeft(r[1]) /\ Len(r[4]) \in 0..2 /\ r[3] # "noisy"
<1>1. /\ SvrLeft("serial")  = 17 /\ SvrLeft("start")   = 16 /\ SvrLeft("inauth")  = 15
      /\ SvrLeft("outauth") = 14 /\ SvrLeft("photo1")  = 13 /\ SvrLeft("photo2")  = 12
      /\ SvrLeft("finger1") = 11 /\ SvrLeft("finger2") = 10 /\ SvrLeft("second")  = 9
      /\ SvrLeft("inauth2") = 8  /\ SvrLeft("ack1")    = 7  /\ SvrLeft("ack2")    = 6
      /\ SvrLeft("ack3")    = 5  /\ SvrLeft("served")  = 4
  BY DEF SvrLeft
<1>2. Len(r[4]) \in 0..2
  <2>1. ASSUME NEW x, NEW y PROVE Len(<<x>>) = 1 /\ Len(<<x, y>>) = 2
    OBVIOUS
  <2>2. \/ r[4] = <<>> \/ (\E x : r[4] = <<x>>) \/ (\E x, y : r[4] = <<x, y>>)
    BY RuleTable, Zenon
  <2>3. CASE r[4] = <<>>
    BY <2>3
  <2>4. CASE \E x : r[4] = <<x>>
    BY <2>1, <2>4
  <2>5. CASE \E x, y : r[4] = <<x, y>>
    BY <2>1, <2>5
  <2>6. QED
    BY <2>2, <2>3, <2>4, <2>5
<1>3. \/ r[1] = "serial" /\ r[3] = "start"
      \/ r[1] = "ack3" /\ r[3] = "served"
      \/ <<r[1], r[2], r[3]>> \in Moves
  BY RuleTable, Zenon
<1>4. CASE <<r[1], r[2], r[3]>> \in Moves
  <2>1. \/ r[1] = "start" /\ r[3] = "inauth"
        \/ r[1] = "inauth" /\ r[3] = "outauth"
        \/ r[1] = "outauth" /\ r[3] = "photo1"
        \/ r[1] = "photo1" /\ r[3] = "photo2"
        \/ r[1] = "photo2" /\ r[3] = "finger1"
        \/ r[1] = "finger1" /\ r[3] = "finger2"
        \/ r[1] = "finger2" /\ r[3] = "second"
        \/ r[1] = "finger1" /\ r[3] = "ack1"
        \/ r[1] = "finger1" /\ r[3] = "inauth2"
        \/ r[1] = "second" /\ r[3] = "ack1"
        \/ r[1] = "second" /\ r[3] = "inauth2"
        \/ r[1] = "inauth2" /\ r[3] = "ack1"
        \/ r[1] = "ack1" /\ r[3] = "ack2"
        \/ r[1] = "ack2" /\ r[3] = "ack3"
    BY <1>4 DEF Moves
  <2>2. QED
    BY <1>1, <1>2, <2>1
<1>5. CASE <<r[1], r[2], r[3]>> \notin Moves
  BY <1>1, <1>2, <1>3, <1>5
<1>6. QED
  BY <1>4, <1>5

\* Whatever happens at the far end leaves less of the conversation.
LEMMA FarSideLess ==
  ASSUME TypeNetwork, TypeNetwork', sid \in Nat, SvrGreet \/ SvrHandle \/ StrangerSends \/ NetDrop
  PROVE  NetworkLeft' < NetworkLeft
<1>1. Measured /\ Measured'
  BY MeasuredFacts, MeasuredNext
<1>2. PICK a \in 0..18, b \in 0..1, c \in Nat, d \in Nat :
        a = SvrLeft(svr) /\ b = UpLeft /\ c = Len(toSvr) /\ d = Len(toClt)
  BY <1>1 DEF Measured
<1>3. PICK a2 \in 0..18, b2 \in 0..1, c2 \in Nat, d2 \in Nat :
        a2 = SvrLeft(svr') /\ b2 = UpLeft' /\ c2 = Len(toSvr') /\ d2 = Len(toClt')
  BY <1>1 DEF Measured
<1>4. /\ svr # "noisy" => NetworkLeft = 10 * a + b + 3 * c + 4 * d
      /\ svr = "noisy" => NetworkLeft = 10 * a + b + 3 * c + 2 * d
  BY <1>2 DEF NetworkLeft, Incoming
<1>5. /\ svr' # "noisy" => NetworkLeft' = 10 * a2 + b2 + 3 * c2 + 4 * d2
      /\ svr' = "noisy" => NetworkLeft' = 10 * a2 + b2 + 3 * c2 + 2 * d2
  BY <1>3 DEF NetworkLeft, Incoming
<1>6. CASE SvrGreet
  <2>1. /\ svr = "accepted" /\ svr' = "serial" /\ conn' = conn /\ toSvr' = toSvr
        /\ Len(toClt') = Len(toClt) + 1
    BY <1>6, Longer DEF SvrGreet, TypeNetwork
  <2>2. a = 18 /\ a2 = 17 /\ b2 = b /\ c2 = c /\ d2 = d + 1
    BY <1>2, <1>3, <2>1 DEF SvrLeft, UpLeft
  <2>3. QED
    BY <1>4, <1>5, <2>1, <2>2
<1>7. CASE SvrHandle
  <2>1. toSvr # <<>> /\ toSvr' = Tail(toSvr) /\ svr # "noisy" /\ conn = "up"
    BY <1>7 DEF SvrHandle
  <2>2. c2 = c - 1
    BY <1>2, <1>3, <2>1 DEF TypeNetwork
  <2>3. CASE \E r \in SvrRules : r[1] = svr /\ svr' = r[3] /\ toClt' = toClt \o r[4] /\ conn' = conn
    <3>1. PICK r \in SvrRules :
            r[1] = svr /\ svr' = r[3] /\ toClt' = toClt \o r[4] /\ conn' = conn
      BY <2>3
    <3>2. a2 < a
      BY <1>2, <1>3, <3>1, RuleMoves
    <3>3. r[4] \in Seq(Frames) /\ Len(r[4]) \in 0..2
      BY RuleTypes, RuleMoves
    <3>4. Len(toClt') = Len(toClt) + Len(r[4])
      BY <3>1, <3>3 DEF TypeNetwork
    <3>5. d2 <= d + 2
      <4>1. PICK e \in 0..2 : e = Len(r[4])
        BY <3>3
      <4>2. d2 = d + e
        BY <1>2, <1>3, <3>4, <4>1
      <4>3. QED
        BY <4>2
    <3>6. svr' # "noisy" /\ b2 = b
      BY <1>2, <1>3, <3>1, RuleMoves DEF UpLeft
    <3>7. QED
      BY <1>4, <1>5, <2>1, <2>2, <3>2, <3>5, <3>6
  <2>4. CASE svr' = "rejected" /\ conn' = "down" /\ toClt' = toClt
    <3>1. a2 = 0 /\ b2 = 0 /\ d2 = d
      BY <1>2, <1>3, <2>4 DEF SvrLeft, UpLeft
    <3>2. QED
      BY <1>4, <1>5, <2>1, <2>2, <2>4, <3>1
  <2>5. QED
    BY <1>7, <2>3, <2>4 DEF SvrHandle
<1>8. CASE StrangerSends
  <2>1. /\ toClt = <<>> /\ svr \in {"stranger", "noisy"} /\ svr' = "noisy" /\ conn' = conn
        /\ \E f : toClt' = <<f>>
    BY <1>8 DEF StrangerSends
  <2>2. d = 0 /\ d2 = 1 /\ b2 = b /\ a2 = 0 /\ a = IF svr = "stranger" THEN 1 ELSE 0
    BY <1>2, <1>3, <2>1 DEF SvrLeft, UpLeft
  <2>3. CASE svr = "stranger"
    <3>1. toSvr' = toSvr
      BY <1>8, <2>3 DEF StrangerSends
    <3>2. c2 = c
      BY <1>2, <1>3, <3>1
    <3>3. QED
      BY <1>4, <1>5, <2>1, <2>2, <2>3, <3>2
  <2>4. CASE svr = "noisy"
    <3>1. toSvr # <<>> /\ toSvr' = Tail(toSvr)
      BY <1>8, <2>4 DEF StrangerSends
    <3>2. c2 = c - 1
      BY <1>2, <1>3, <3>1 DEF TypeNetwork
    <3>3. QED
      BY <1>4, <1>5, <2>1, <2>2, <2>4, <3>2
  <2>5. QED
    BY <2>1, <2>3, <2>4
<1>9. CASE NetDrop
  <2>1. /\ conn = "up" /\ conn' = "down" /\ toSvr' = <<>> /\ svr' = svr
        /\ toClt' = toClt \/ toClt' = <<>>
    BY <1>9 DEF NetDrop
  <2>2. b = 1 /\ b2 = 0 /\ c2 = 0 /\ a2 = a /\ d2 <= d
    BY <1>2, <1>3, <2>1 DEF UpLeft
  <2>3. QED
    BY <1>4, <1>5, <2>1, <2>2
<1>10. QED
  BY <1>6, <1>7, <1>8, <1>9

\* So does taking a frame, even if a message is sent for it; a stranger's
\* frame calls for none.
LEMMA TakingLess ==
  ASSUME TypeNetwork, TypeNetwork', toClt # <<>>, toClt' = Tail(toClt),
         UNCHANGED <<conn, svr>>,
         toSvr' = toSvr \/ (svr # "noisy" /\ \E m : SendData(m))
  PROVE  NetworkLeft' < NetworkLeft
<1>1. Measured /\ Measured'
  BY MeasuredFacts, MeasuredNext
<1>2. PICK a \in 0..18, b \in 0..1, c \in Nat, d \in Nat :
        a = SvrLeft(svr) /\ b = UpLeft /\ c = Len(toSvr) /\ d = Len(toClt)
  BY <1>1 DEF Measured
<1>3. PICK c2 \in Nat, d2 \in Nat :
        SvrLeft(svr') = a /\ UpLeft' = b /\ c2 = Len(toSvr') /\ d2 = Len(toClt')
  BY <1>1, <1>2 DEF Measured, UpLeft
<1>4. /\ svr # "noisy" => NetworkLeft = 10 * a + b + 3 * c + 4 * d
      /\ svr = "noisy" => NetworkLeft = 10 * a + b + 3 * c + 2 * d
  BY <1>2 DEF NetworkLeft, Incoming
<1>5. /\ svr # "noisy" => NetworkLeft' = 10 * a + b + 3 * c2 + 4 * d2
      /\ svr = "noisy" => NetworkLeft' = 10 * a + b + 3 * c2 + 2 * d2
  BY <1>3 DEF NetworkLeft, Incoming
<1>6. d2 = d - 1
  BY <1>2, <1>3 DEF TypeNetwork
<1>7. CASE toSvr' = toSvr
  <2>1. c2 = c
    BY <1>2, <1>3, <1>7
  <2>2. QED
    BY <1>4, <1>5, <1>6, <2>1
<1>8. CASE svr # "noisy" /\ \E m : SendData(m)
  <2>1. c2 = c \/ c2 = c + 1
    BY <1>2, <1>3, <1>8, Longer DEF SendData, TypeNetwork
  <2>2. QED
    BY <1>4, <1>5, <1>6, <1>8, <2>1
<1>9. QED
  BY <1>7, <1>8

\* A message that nobody asked for, a new connection and the end of one.
LEMMA SendingAdds ==
  ASSUME TypeNetwork, NEW m, SendData(m), UNCHANGED <<conn, svr, toClt>>
  PROVE  NetworkLeft' <= NetworkLeft + 3
<1>1. PICK a \in 0..18, b \in 0..1, c \in Nat, d \in Nat :
        a = SvrLeft(svr) /\ b = UpLeft /\ c = Len(toSvr) /\ d = Len(toClt)
  BY MeasuredFacts DEF Measured
<1>2. PICK n \in Nat : n = Incoming
  BY <1>1 DEF Incoming
<1>3. UpLeft' = b /\ SvrLeft(svr') = a /\ Incoming' = n
  BY <1>1, <1>2 DEF UpLeft, Incoming
<1>4. PICK c2 \in Nat : c2 = Len(toSvr') /\ (c2 = c \/ c2 = c + 1)
  BY <1>1, Longer DEF SendData, TypeNetwork
<1>5. NetworkLeft = 10 * a + b + 3 * c + n
  BY <1>1, <1>2 DEF NetworkLeft
<1>6. NetworkLeft' = 10 * a + b + 3 * c2 + n
  BY <1>3, <1>4 DEF NetworkLeft
<1>7. QED
  BY <1>4, <1>5, <1>6

LEMMA ConnectingLeft ==
  ASSUME ConnectServer
  PROVE  NetworkLeft' <= 181
<1>1. svr' \in {"accepted", "stranger"} /\ conn' = "up" /\ toSvr' = <<>> /\ toClt' = <<>>
  BY DEF ConnectServer
<1>2. SvrLeft(svr') <= 18 /\ SvrLeft(svr') \in Int
  BY SvrLeftType
<1>3. UpLeft' = 1 /\ Incoming' = 0 /\ Len(toSvr') = 0
  BY <1>1 DEF UpLeft, Incoming
<1>4. PICK a \in Int : a = SvrLeft(svr') /\ a <= 18
  BY <1>2
<1>5. NetworkLeft' = 10 * a + 1
  BY <1>3, <1>4 DEF NetworkLeft
<1>6. QED
  BY <1>4, <1>5

LEMMA DisconnectingLeft ==
  ASSUME DisconnectServer
  PROVE  NetworkLeft' = 0
<1>1. svr' = "none" /\ conn' = "none" /\ toSvr' = <<>> /\ toClt' = <<>>
  BY DEF DisconnectServer
<1>2. SvrLeft(svr') = 0 /\ UpLeft' = 0 /\ Incoming' = 0 /\ Len(toSvr') = 0
  BY <1>1 DEF SvrLeft, UpLeft, Incoming
<1>3. QED
  BY <1>2 DEF NetworkLeft

\* What a stranger sends is no command that the reader answers.
LEMMA StrangeCalls ==
  ASSUME Conversation, pc = "loop", toClt # <<>>, svr = "noisy", Head(toClt).ok
  PROVE  Head(toClt).kind = "cmd" /\ Head(toClt).cmd = "other"
<1>1. Strange
  BY DEF Conversation, InSession, Strangers
<1>2. Head(toClt) \in Noise \cup {Banner(FALSE)}
  BY <1>1, StrangeFrame
<1>3. QED
  BY <1>2 DEF Noise, Banner, Cmd, BadPack, BadFrame

LEMMA StrangeCmds ==
  ASSUME Conversation, pc = "loop", svr = "noisy", NEW c, RecvCmd(c)
  PROVE  c \in {"INCERT", "OUTCERT", "other"}
<1>1. Strange
  BY DEF Conversation, InSession, Strangers
<1>2. Head(toClt) \in Noise \cup {Banner(FALSE)}
  BY <1>1, StrangeFrame DEF RecvCmd
<1>3. QED
  BY <1>2 DEF Noise, Banner, Cmd, BadPack, BadFrame, RecvCmd

=============================================================================
