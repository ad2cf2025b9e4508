---------------------------- MODULE CardAndServer ----------------------------
(***************************************************************************)
(* What a reader of either kind stands between: the card, the TCP client   *)
(* CNetProtocol with the sockets of the process, and the card server at    *)
(* the other end.  JavaReadCard and ReadCard extend this module.           *)
(*                                                                         *)
(* The card answers inside the action that asks it.  The server is not     *)
(* part of the repository: it is the protocol that the receive loops are   *)
(* written for (SvrRules).                                                 *)
(*                                                                         *)
(* Data are abstracted to where they come from: a buffer is the card file  *)
(* it holds and the session (the number of the connection) it was read in. *)
(***************************************************************************)
EXTENDS Integers, Sequences

CONSTANT Worlds  \* a world is what may go wrong in a behaviour: a subset of
                 \* FaultKinds

FaultKinds ==
  { "auth",     \* the authorisation server is unreachable or refuses the serial
    "connect",  \* socket() or connect() fails
    "drop",     \* the connection breaks
    "slow",     \* the server answers later than SO_RCVTIMEO
    "card",     \* a card command fails or answers an error status
    "outcert",  \* the card rejects the external authentication
    "device",   \* the board cannot be opened or does not give its number
    "peer" }    \* something else than the card server listens at the address

ASSUME WorldsAssumption == Worlds \subseteq SUBSET FaultKinds

NFCREADCARD_SUCCESS   == 0
NETCONNECT_ERROR      == 1
NETRECV_ERROR         == 2
NETSEND_ERROR         == 3
NFCOPEN_ERROR         == 4
NFCREADCARD_ERROR     == 5
SEARCHCARD_FAIL       == 7
STARTNETREADCARD_FAIL == 8
INVALIDNETCMD         == 9
GETSERIAL_FAIL        == 10
AUTHOR_FAIL           == 11
JAVA_TYPE_ERR         == 13

ErrorCodes ==
  { NETCONNECT_ERROR, NETRECV_ERROR, NETSEND_ERROR, NFCOPEN_ERROR,
    NFCREADCARD_ERROR, SEARCHCARD_FAIL, STARTNETREADCARD_FAIL, INVALIDNETCMD,
    GETSERIAL_FAIL, AUTHOR_FAIL, JAVA_TYPE_ERR }

START_NETNFC_RDLEN == 10
CARD_PHOTO_LEN     == 1024

VARIABLES
  Faults,  \* the world of this behaviour
  \* the frame of NFCCardReader, as both readers have it: the place in the
  \* function, its result and the last error; the buffers, the DN and the
  \* start message; are the decoded data awaited; where the text and the two
  \* parts of the photo came from, and the bytes of photo; what it fills in
  pc, ret, lastErr, buff, DN, dnbuff, start_svrdata, cardInfo, pic, piclen,
  pCardMsg,
  \* the client of the card server, and that of verify_serial
  m_iSock, authSock,
  \* the process's sockets: those open, the last number given, and whether
  \* a number was ever closed that was not open
  open, sid, badclose,
  \* the connection to the card server and the server: its state and the
  \* last message it got under each command
  conn, toSvr, toClt, svr, upl,
  \* the card: has it a fingerprint, and the file it has selected
  finger, sel

sockets == <<open, sid, badclose>>
network == <<conn, toSvr, toClt, svr, upl>>
card    == <<finger, sel>>
nearSide == <<m_iSock, authSock, sockets, card>>  \* out of the server's reach

SameWorld == UNCHANGED Faults

-----------------------------------------------------------------------------
(* Contents, messages and frames                                           *)

Files == {"none", "app", "rand", "status", "zero", "mixed",
          "f6002", "f6011", "f6012", "f6011_12", "f6013", "f6021"}
Blob(f, s)     == [file |-> f, sess |-> s]
Blobs          == [file : Files, sess : Nat]
Half(h, b)     == [file |-> b.file, half |-> h, sess |-> b.sess]
Whole(b)       == Half(0, b)
Bodies         == [file : Files, half : 0..2, sess : Nat]
NoBlob         == Blob("none", 0)
NoMsg          == [dn |-> NoBlob, info |-> 0, photo |-> <<0, 0>>]
CardMsgs       == [dn : Blobs, info : Nat, photo : Nat \X Nat]

CltCmds == {"VERIFY_SERIAL", "STARTRDCARD_ACK", "INAUTH_ACK", "OUTAUTH_ACK",
            "SENDPHOTO1", "SENDPHOTO2", "SENDFINGERPRINT1", "SENDFINGERPRINT2",
            "SECNED_ACK", "DATA_ACK1", "DATA_ACK2", "DATA_ACK3"}
DataAck == <<"DATA_ACK1", "DATA_ACK2", "DATA_ACK3">>
Msg(c, b) == [cmd |-> c, body |-> b]
Msgs      == [cmd : CltCmds, body : Bodies]
NoBody    == Whole(NoBlob)

SvrCmds == {"INCERT", "OUTCERT", "MSG_ACK", "RDPHOTO_ACK1", "RDPHOTO_ACK2",
            "RDFINGERPRINT_ACK1", "RDFINGERPRINT_ACK2", "other"}
\* A frame from the server.  kind is the svrCmd.type byte; ok says that what
\* follows it is well formed: the greeting is START_NETNFC_RD, the command's
\* payload carries the command's own header, the pack number is in range.
Frames ==
  { f \in [kind : {"banner", "cmd", "data", "bad"}, cmd : SvrCmds,
           ok : BOOLEAN, no : 0..3, sess : Nat] :
      f.kind = "data" /\ f.ok => f.no # 0 }
Banner(ok)   == [kind |-> "banner", cmd |-> "other", ok |-> ok, no |-> 0, sess |-> 0]
Cmd(c, ok)   == [kind |-> "cmd", cmd |-> c, ok |-> ok, no |-> 0, sess |-> 0]
Data(n, s)   == [kind |-> "data", cmd |-> "other", ok |-> TRUE, no |-> n, sess |-> s]
BadPack      == [kind |-> "data", cmd |-> "other", ok |-> FALSE, no |-> 0, sess |-> 0]
BadFrame     == [kind |-> "bad", cmd |-> "other", ok |-> FALSE, no |-> 0, sess |-> 0]

PackLen(n) == IF n = 2 THEN 514 ELSE 510   \* the photo is sent as 514 + 510 bytes

\* The frame that the receive loop handles next is command c.
RecvCmd(c) ==
  /\ toClt # <<>>
  /\ Head(toClt).kind = "cmd"
  /\ Head(toClt).cmd = c

-----------------------------------------------------------------------------
(* The card                                                                *)

CardFails == "card" \in Faults

\* The bytes of a card file, taken to be those that the reader asks of it.
FileLen ==
  [f \in Files |-> CASE f = "f6002"              -> 32
                     [] f = "f6011"              -> 214
                     [] f = "f6012"              -> 256
                     [] f \in {"f6013", "f6021"} -> CARD_PHOTO_LEN
                     [] OTHER                    -> 0]

\* What a file command may read with s selected: the file it asks for, or s,
\* because the status that refuses a selection is not looked at; but a chunk
\* that s is too short for is refused by its length.
Selects(f, s) == {f} \cup {g \in {s} : CardFails /\ FileLen[g] >= FileLen[f]}

\* What a command that answers without a file may answer.
Answers(f) == {f} \cup (IF CardFails THEN {"status"} ELSE {})

-----------------------------------------------------------------------------
(* Sockets                                                                 *)

SurroundingsInit ==
  /\ Faults \in Worlds
  /\ m_iSock = -1 /\ authSock = -1
  /\ open = {} /\ sid = 0 /\ badclose = FALSE
  /\ conn = "none" /\ toSvr = <<>> /\ toClt = <<>> /\ svr = "none"
  /\ upl = [c \in CltCmds |-> NoBody]
  /\ finger = FALSE /\ sel = "none"

\* verify_serial connects with a CNetProtocol of its own, which is local.
AuthConnect ==
  /\ sid' = sid + 1
  /\ authSock' = sid + 1
  /\ open' = open \cup {sid + 1}
  /\ UNCHANGED badclose

AuthDisconnect ==
  /\ open' = open \ {authSock}
  /\ badclose' = (badclose \/ authSock \notin open)
  /\ authSock' = -1
  /\ UNCHANGED sid

\* Mutation: a connection the peer closed first is not closed here.
DisconnectServer_IfUp ==
  /\ open' = IF conn = "down" THEN open ELSE open \ {m_iSock}
  /\ UNCHANGED badclose
  /\ conn' = "none" /\ toSvr' = <<>> /\ toClt' = <<>> /\ svr' = "none"
  /\ UNCHANGED <<sid, m_iSock, upl>>

\* DisconnectServer: closes m_iSock unless it is -1, and keeps its value.
\* What was in flight goes with the connection.
DisconnectServer ==
  /\ open' = open \ {m_iSock}
  /\ badclose' = (badclose \/ (m_iSock # -1 /\ m_iSock \notin open))
  /\ conn' = "none" /\ toSvr' = <<>> /\ toClt' = <<>> /\ svr' = "none"
  /\ UNCHANGED <<sid, m_iSock, upl>>

\* ConnectServer, successful: a new socket, and somebody at its other end.
ConnectServer ==
  /\ sid' = sid + 1
  /\ m_iSock' = sid + 1
  /\ open' = open \cup {sid + 1}
  /\ conn' = "up"
  /\ svr' \in {"accepted"} \cup (IF "peer" \in Faults THEN {"stranger"} ELSE {})
  /\ upl' = [c \in CltCmds |-> NoBody]
  /\ toSvr' = <<>> /\ toClt' = <<>>
  /\ UNCHANGED badclose

\* Mutation: a failed connect is cleaned up with DisconnectServer.
ConnectFails_Disconnects ==
  /\ "connect" \in Faults
  /\ open' = open \ {m_iSock}
  /\ badclose' = (badclose \/ (m_iSock # -1 /\ m_iSock \notin open))
  /\ UNCHANGED <<m_iSock, sid, network>>

\* A failed ConnectServer closes the socket it made itself and keeps m_iSock,
\* or leaves -1 there if socket() itself failed.
ConnectFails ==
  /\ "connect" \in Faults
  /\ m_iSock' \in {m_iSock, -1}
  /\ UNCHANGED <<sockets, network>>

\* SendData.  After the connection broke the kernel may still take the bytes
\* or report the error; callers that ignore the result see no difference.
SendData(m) ==
  toSvr' = IF conn = "up" THEN Append(toSvr, m) ELSE toSvr
SendFails == conn = "down"

\* Does the server still owe an answer to what it was sent?  A stranger owes
\* none.
SvrBusy ==
  /\ conn = "up"
  /\ svr = "accepted" \/ (toSvr # <<>> /\ svr \notin {"stranger", "noisy"})

\* Mutation: no receive timeout is set.
RecvFails_NoTimeout == conn = "down"

\* RecvData returns the requested length or -1: the connection is gone (even
\* in the middle of a frame), or SO_RCVTIMEO passed without an answer.
RecvFails ==
  \/ conn = "down"
  \/ toClt = <<>> /\ (~SvrBusy \/ "slow" \in Faults)

-----------------------------------------------------------------------------
(* The card server, as the receive loops expect it: in a state, on a       *)
(* message, it sends frames and moves on.  After SECNED_ACK it either      *)
(* sends the decoded data or authenticates once more first, sending the    *)
(* data without waiting for an answer to OUTCERT.                          *)

Ask(c) == <<Cmd(c, TRUE)>>
SvrRules ==
  { <<"serial",  "VERIFY_SERIAL",    "start",   <<>>>>,
    <<"start",   "STARTRDCARD_ACK",  "inauth",  Ask("INCERT")>>,
    <<"inauth",  "INAUTH_ACK",       "outauth", Ask("OUTCERT")>>,
    <<"outauth", "OUTAUTH_ACK",      "photo1",  Ask("MSG_ACK")>>,
    <<"photo1",  "SENDPHOTO1",       "photo2",  Ask("RDPHOTO_ACK1")>>,
    <<"photo2",  "SENDPHOTO2",       "finger1", Ask("RDPHOTO_ACK2")>>,
    <<"finger1", "SENDFINGERPRINT1", "finger2", Ask("RDFINGERPRINT_ACK1")>>,
    <<"finger2", "SENDFINGERPRINT2", "second",  Ask("RDFINGERPRINT_ACK2")>>,
    <<"finger1", "SECNED_ACK",       "ack1",    <<Data(1, sid)>>>>,
    <<"finger1", "SECNED_ACK",       "inauth2", Ask("INCERT")>>,
    <<"second",  "SECNED_ACK",       "ack1",    <<Data(1, sid)>>>>,
    <<"second",  "SECNED_ACK",       "inauth2", Ask("INCERT")>>,
    <<"inauth2", "INAUTH_ACK",       "ack1",    Ask("OUTCERT") \o <<Data(1, sid)>>>>,
    <<"ack1",    "DATA_ACK1",        "ack2",    <<Data(2, sid)>>>>,
    <<"ack2",    "DATA_ACK2",        "ack3",    <<Data(3, sid)>>>>,
    <<"ack3",    "DATA_ACK3",        "served",  <<>>>> }

SvrStates == {"none", "accepted", "serial", "start", "inauth", "outauth",
              "photo1", "photo2", "finger1", "finger2", "second", "inauth2",
              "ack1", "ack2", "ack3", "served", "rejected", "stranger", "noisy"}

\* The server can work neither without a DN nor without the card's answer to
\* its authentication: an error status in their place is refused like a
\* message out of order.
Essential     == {"STARTRDCARD_ACK", "SECNED_ACK", "INAUTH_ACK"}
Acceptable(m) == m.cmd \in Essential => m.body.file # "status"

SvrGreet ==
  /\ conn = "up" /\ svr = "accepted"
  /\ svr' = "serial"
  /\ toClt' = Append(toClt, Banner(TRUE))
  /\ UNCHANGED <<nearSide, conn, toSvr, upl>>

SvrHandle ==
  /\ conn = "up" /\ toSvr # <<>> /\ svr \notin {"stranger", "noisy"}
  /\ LET m == Head(toSvr)
         rules == {r \in SvrRules : r[1] = svr /\ r[2] = m.cmd /\ Acceptable(m)}
     IN  /\ upl' = [upl EXCEPT ![m.cmd] = m.body]
         /\ \/ \E r \in rules : /\ svr' = r[3]
                                /\ toClt' = toClt \o r[4]
                                /\ conn' = conn
            \/ rules = {} /\ svr' = "rejected" /\ conn' = "down" /\ toClt' = toClt
  /\ toSvr' = Tail(toSvr)
  /\ UNCHANGED nearSide

\* Another service: may greet with other bytes, takes what it is sent, and
\* may answer with something that is no frame of the protocol.
Noise == {Cmd("INCERT", FALSE), Cmd("OUTCERT", FALSE), Cmd("other", TRUE),
          BadPack, BadFrame}

StrangerSends ==
  /\ conn = "up" /\ toClt = <<>>
  /\ \/ /\ svr = "stranger" /\ svr' = "noisy"
        /\ toClt' = <<Banner(FALSE)>> /\ toSvr' = toSvr
     \/ /\ svr = "noisy" /\ svr' = svr
        /\ toSvr # <<>>
        /\ toSvr' = Tail(toSvr)
        /\ \E f \in Noise : toClt' = <<f>>
  /\ UNCHANGED <<nearSide, conn, upl>>

\* The connection breaks; frames under way may be lost with it.
NetDrop ==
  /\ "drop" \in Faults
  /\ conn = "up"
  /\ conn' = "down"
  /\ toSvr' = <<>>
  /\ toClt' \in {toClt, <<>>}
  /\ UNCHANGED <<nearSide, svr, upl>>

-----------------------------------------------------------------------------
(* Properties of the conversation, whichever reader holds it               *)

InSession == {"banner", "serial", "dn", "start", "loop", "decode"}

TypeSockets ==
  /\ sid \in Nat
  /\ open \subseteq 1..sid
  /\ m_iSock \in {-1} \cup 1..sid
  /\ authSock \in {-1} \cup 1..sid

TypeNetwork ==
  /\ conn \in {"none", "up", "down"}
  /\ toSvr \in Seq(Msgs)
  /\ toClt \in Seq(Frames)
  /\ svr \in SvrStates
  /\ upl \in [CltCmds -> Bodies]

TypeCard  == sel \in Files
TypeFlags == badclose \in BOOLEAN /\ finger \in BOOLEAN

\* By the time the server decodes, it has two halves of one file for the
\* photo and, if it got a fingerprint, two halves of one file for that, all
\* read in this session, although a second half is sent from a buffer that
\* other handlers use too; and the second start message repeats the first.
UploadsCoherent ==
  svr \in {"inauth2", "ack1", "ack2", "ack3", "served"} =>
    LET halves(f, one, two) == /\ upl[one] = Half(1, Blob(f, sid))
                               /\ upl[two] = Half(2, Blob(f, sid))
    IN  /\ \E f \in Files \ {"none"} : halves(f, "SENDPHOTO1", "SENDPHOTO2")
        /\ \/ upl["SENDFINGERPRINT1"] = NoBody /\ upl["SENDFINGERPRINT2"] = NoBody
           \/ \E f \in Files \ {"none"} :
                halves(f, "SENDFINGERPRINT1", "SENDFINGERPRINT2")
        /\ upl["SECNED_ACK"] = upl["STARTRDCARD_ACK"]
        /\ upl["STARTRDCARD_ACK"] = Whole(Blob("f6002", sid))

\* The server decodes what it was meant to get: each upload holds the card
\* file that belongs to its command.
FilesAsNamed ==
  svr \in {"inauth2", "ack1", "ack2", "ack3", "served"} =>
    /\ upl["OUTAUTH_ACK"].file = "f6011_12"
    /\ upl["SENDPHOTO1"].file = "f6013"
    /\ upl["SENDFINGERPRINT1"].file = IF finger THEN "f6021" ELSE "none"

\* Reader and server never disagree about whose turn it is: the server never
\* gets a message it does not expect, except one that the card refused to
\* give an answer for.
InStep == svr = "rejected" => \E c \in Essential : upl[c].file = "status"

\* What may be behind an error code.  A server that refuses what the card
\* gave it closes the connection, which the reader sees as a network error;
\* the greeting of a stranger is not noticed (BannerRejected).
Causes(code) ==
  CASE code = NETCONNECT_ERROR  -> {"connect"}
    [] code = NETRECV_ERROR     -> {"drop", "slow", "peer", "card"}
    [] code = NETSEND_ERROR     -> {"drop", "card"}
    [] code = NFCOPEN_ERROR     -> {"device"}
    [] code = NFCREADCARD_ERROR -> {"card", "outcert"}
    [] code = SEARCHCARD_FAIL   -> {"card"}
    [] code = INVALIDNETCMD     -> {"peer"}
    [] code = GETSERIAL_FAIL    -> {"device"}
    [] code = AUTHOR_FAIL       -> {"auth"}
    [] OTHER                    -> {}

\* A service that does not greet with START_NETNFC_RD is sent nothing.
StrangerRefused == svr \in {"stranger", "noisy"} => toSvr = <<>>
=============================================================================
