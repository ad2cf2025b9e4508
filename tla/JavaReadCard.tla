---------------------------- MODULE JavaReadCard ----------------------------
(***************************************************************************)
(* One card reader of the Android application: JavaReadCard with the JNI   *)
(* entry that calls it and the card behind JavaCmdRequest, between the     *)
(* card and the server of CardAndServer.                                   *)
(*                                                                         *)
(* The reader's thread is the process below with program counter pc; each  *)
(* handler of the receive loop is one action.                              *)
(***************************************************************************)
EXTENDS CardAndServer

CONSTANTS
  RETRY_TIME,  \* attempts of one read
  MaxReads     \* bound: reads in a behaviour

ASSUME RetryAssumption == RETRY_TIME \in Nat \ {0}
ASSUME ReadsAssumption == MaxReads \in Nat

NFC_LOCAL_ANDROID_DEV == 4
NFC_OTG_ANDROID_DEV   == 3

MAX_SERIAL == 50
Serials    == {1, 5, 31}  \* lengths tried: too short, and two that fit serial[32]

VARIABLES
  \* the JavaReadCard object and what its caller last got
  nfcType, serialLen,
  jret, nfc_data, reads,
  \* the attempts left to NFCCardReader
  retry

config  == <<nfcType, serialLen>>
jniVars == <<jret, nfc_data, reads>>
locals  == <<buff, DN, dnbuff, start_svrdata, cardInfo, pic, piclen>>
control == <<pc, ret, lastErr>>
vars == <<config, lastErr, m_iSock, jniVars, pc, ret, retry, authSock, locals,
          pCardMsg, sockets, network, card, Faults>>

-----------------------------------------------------------------------------
Init ==
  /\ nfcType = NFC_LOCAL_ANDROID_DEV
  /\ serialLen = 0              \* g_reader is static: m_phoneSerial is zeroed
  /\ lastErr = 0
  /\ jret = 0 /\ nfc_data = NoMsg /\ reads = 0
  /\ pc = "idle" /\ ret = 0 /\ retry = RETRY_TIME
  /\ buff = NoBlob /\ DN = NoBlob /\ dnbuff = NoBlob
  /\ start_svrdata = FALSE
  /\ cardInfo = 0 /\ pic = <<0, 0>> /\ piclen = 0
  /\ pCardMsg = NoMsg
  /\ SurroundingsInit

-----------------------------------------------------------------------------
(* Leaving NFCCardReader                                                   *)

Fail(code) ==
  /\ lastErr' = code
  /\ ret' = -1
  /\ pc' = "done"

\* An error path of the session: set the code, disconnect, return -1.
Abort(code) ==
  /\ Fail(code)
  /\ DisconnectServer
  /\ UNCHANGED <<config, jniVars, retry, authSock, locals, pCardMsg, card>>

\* A step of the session that stays in NFCCardReader.
Goto(l) ==
  /\ pc' = l
  /\ UNCHANGED <<ret, lastErr>>

-----------------------------------------------------------------------------
(* Configuration: the setters of JavaReadCard, between reads               *)

SetNFCLocal(t) ==
  /\ pc = "idle"
  /\ nfcType' = t
  /\ UNCHANGED serialLen

\* strncpy(m_phoneSerial, serial, min(len, 50)) writes no terminator, so the
\* string read back by strlen never gets shorter.
SetPhoneSerial(n) ==
  /\ pc = "idle"
  /\ serialLen' = LET setlen == IF n > MAX_SERIAL THEN MAX_SERIAL ELSE n
                  IN  IF setlen > serialLen THEN setlen ELSE serialLen
  /\ UNCHANGED nfcType

Configure ==
  /\ \/ \E t \in {NFC_LOCAL_ANDROID_DEV, NFC_OTG_ANDROID_DEV} : SetNFCLocal(t)
     \/ \E n \in Serials : SetPhoneSerial(n)
  /\ UNCHANGED <<lastErr, m_iSock, jniVars, pc, ret, retry, authSock, locals,
                 pCardMsg, sockets, network, card>>

-----------------------------------------------------------------------------
(* NFCCardReader up to the receive loop                                    *)

\* The JNI entry clears the structure and its caller's array is new; then
\* the type and the serial number are checked.
StartRead ==
  /\ pc = "idle"
  /\ reads < MaxReads
  /\ reads' = reads + 1
  /\ nfc_data' = NoMsg
  /\ pCardMsg' = NoMsg
  /\ retry' = RETRY_TIME
  /\ buff' = NoBlob /\ DN' = NoBlob /\ dnbuff' = NoBlob
  /\ start_svrdata' = FALSE
  /\ cardInfo' = 0 /\ pic' = <<0, 0>> /\ piclen' = 0
  /\ finger' \in BOOLEAN /\ sel' = "none"    \* a card is put on the reader
  /\ \/ nfcType # NFC_LOCAL_ANDROID_DEV /\ Fail(JAVA_TYPE_ERR)
     \/ /\ nfcType = NFC_LOCAL_ANDROID_DEV
        /\ serialLen > MAX_SERIAL \/ serialLen < 2
        /\ Fail(GETSERIAL_FAIL)
     \/ /\ nfcType = NFC_LOCAL_ANDROID_DEV
        /\ serialLen \in 2..MAX_SERIAL
        /\ lastErr' = NFCREADCARD_SUCCESS
        /\ pc' = "verify"
        /\ ret' = ret
  /\ UNCHANGED <<config, m_iSock, jret, authSock, sockets, network>>

\* verify_serial: connect to the authorisation port and send the serial.
\* The CNetProtocol object is local; its send is not checked.
VerifyConnect ==
  /\ pc = "verify"
  /\ \/ AuthConnect /\ Goto("verifyrecv")
     \/ "auth" \in Faults /\ Fail(AUTHOR_FAIL) /\ UNCHANGED <<sockets, authSock>>
  /\ UNCHANGED <<config, m_iSock, jniVars, retry, locals, pCardMsg, network, card>>

\* verify_serial: receive, disconnect, look for "success" in the answer.
VerifyReply ==
  /\ pc = "verifyrecv"
  /\ AuthDisconnect
  /\ \/ Goto("search")
     \/ "auth" \in Faults /\ Fail(AUTHOR_FAIL)
  /\ UNCHANGED <<config, m_iSock, jniVars, retry, locals, pCardMsg, network,
                 card>>

\* _retry: fetch the card's application data.
SearchCard ==
  /\ pc = "search"
  /\ \/ /\ Goto("connect")
        /\ buff' = Blob("app", sid + 1)
     \/ /\ CardFails
        /\ Fail(SEARCHCARD_FAIL)
        /\ buff' = buff
  /\ UNCHANGED <<config, m_iSock, jniVars, retry, authSock, DN, dnbuff,
                 start_svrdata, cardInfo, pic, piclen, pCardMsg, sockets,
                 network, card>>

\* Connect to the card server; the first attempt of a read tries twice.
Connect ==
  /\ pc \in {"connect", "reconnect"}
  /\ \/ ConnectServer /\ Goto("banner")
     \/ /\ ConnectFails
        /\ IF pc = "connect" /\ retry = RETRY_TIME
             THEN Goto("reconnect")
             ELSE Fail(NETCONNECT_ERROR)
  /\ UNCHANGED <<config, jniVars, retry, authSock, locals, pCardMsg, card>>

\* The test of the greeting as the code writes it: n is what RecvData
\* returned, which is the length it was asked for.
BannerRejected(n, f) == n # START_NETNFC_RDLEN /\ ~f.ok

RecvBanner ==
  /\ pc = "banner"
  /\ toClt # <<>>
  /\ IF BannerRejected(START_NETNFC_RDLEN, Head(toClt))
       THEN Abort(STARTNETREADCARD_FAIL)
       ELSE /\ Goto("serial")
            /\ toClt' = Tail(toClt)
            /\ UNCHANGED <<config, m_iSock, jniVars, retry, authSock, locals,
                           pCardMsg, sockets, conn, toSvr, svr, upl, card>>

SendSerial ==
  /\ pc = "serial"
  /\ \/ /\ SendData(Msg("VERIFY_SERIAL", NoBody))
        /\ Goto("dn")
        /\ UNCHANGED <<config, m_iSock, jniVars, retry, authSock, locals,
                       pCardMsg, sockets, conn, toClt, svr, upl, card>>
     \/ SendFails /\ Abort(NETSEND_ERROR)

\* Mutation: a retry keeps the DN of the first attempt.
TakeDN_Once(f) == DN' = IF DN = NoBlob THEN Blob(f, m_iSock) ELSE DN

TakeDN(f) == DN' = Blob(f, m_iSock)

\* Select and read file 6002, the card's DN.  Only the length of the answers
\* is tested: an answer that is just an error status passes for the DN.
ReadDN ==
  /\ pc = "dn"
  /\ \/ /\ \E f \in Answers("f6002") :
             /\ buff' = Blob(f, m_iSock)
             /\ TakeDN(f)
             /\ dnbuff' = Blob(f, m_iSock)
             /\ sel' \in {"f6002"} \cup (IF f = "status" THEN {sel} ELSE {})
        /\ Goto("start")
        /\ UNCHANGED <<config, m_iSock, jniVars, retry, authSock,
                       start_svrdata, cardInfo, pic, piclen, pCardMsg,
                       sockets, network, finger>>
     \/ CardFails /\ Abort(NFCREADCARD_ERROR)

SendStart ==
  /\ pc = "start"
  /\ \/ /\ SendData(Msg("STARTRDCARD_ACK", Whole(dnbuff)))
        /\ Goto("loop")
        /\ UNCHANGED <<config, m_iSock, jniVars, retry, authSock, locals,
                       pCardMsg, sockets, conn, toClt, svr, upl, card>>
     \/ SendFails /\ Abort(NETSEND_ERROR)

-----------------------------------------------------------------------------
(* The receive loop: one handler per server command                        *)

RecvFail == pc \in {"banner", "loop"} /\ RecvFails /\ Abort(NETRECV_ERROR)

\* What every handler of a frame begins with, and what one that goes round
\* the loop again leaves alone.
Handle(c) == pc = "loop" /\ RecvCmd(c)
LoopAgain ==
  /\ Goto("loop")
  /\ toClt' = Tail(toClt)
  /\ UNCHANGED <<config, m_iSock, jniVars, retry, authSock, DN, dnbuff,
                 pCardMsg, sockets, conn, svr, upl, finger>>
KeepData == UNCHANGED <<cardInfo, pic, piclen>>

\* Internal authentication, then a fresh random number, both to the server.
\* Only the lengths of the card's answers are tested.
HandleIncert ==
  /\ Handle("INCERT")
  /\ \/ ~Head(toClt).ok /\ Abort(INVALIDNETCMD)
     \/ Head(toClt).ok /\ CardFails /\ Abort(NFCREADCARD_ERROR)
     \/ Head(toClt).ok /\ SendFails /\ Abort(NETSEND_ERROR)
     \/ /\ Head(toClt).ok
        /\ \E f \in Answers("rand") :
             /\ buff' = Blob(f, m_iSock)
             /\ SendData(Msg("INAUTH_ACK", Whole(Blob(f, m_iSock))))
        /\ LoopAgain /\ KeepData
        /\ UNCHANGED <<start_svrdata, sel>>

\* External authentication.  Accepted: upload 6011 and 6012.  Rejected:
\* disconnect, and start over from the card search while attempts are left.
\* Once the decoded data are awaited the command is swallowed.
OutcertAccepted ==
  \/ /\ \E f \in Selects("f6011", sel) :
          \E g \in Selects("f6012", f) :
            LET b == Blob(IF <<f, g>> = <<"f6011", "f6012">>
                            THEN "f6011_12" ELSE "mixed", m_iSock)
            IN  /\ sel' = g
                /\ buff' = b
                /\ SendData(Msg("OUTAUTH_ACK", Whole(b)))
     /\ LoopAgain /\ KeepData
     /\ UNCHANGED start_svrdata
  \/ CardFails /\ Abort(NFCREADCARD_ERROR)

\* Mutation: one attempt too many.
RetriesLeft_OffByOne(n) == n >= 0

RetriesLeft(n) == n > 0

\* Mutation: giving up sets no error code.
NoRetryLeft_NoCode == ret' = -1 /\ pc' = "done" /\ UNCHANGED lastErr

NoRetryLeft == Fail(NFCREADCARD_ERROR)

OutcertRejected ==
  /\ "outcert" \in Faults
  /\ DisconnectServer
  /\ retry' = retry - 1
  /\ buff' = Blob("status", m_iSock)
  /\ IF RetriesLeft(retry') THEN Goto("search") ELSE NoRetryLeft
  /\ UNCHANGED <<config, jniVars, authSock, DN, dnbuff, start_svrdata,
                 pCardMsg, card>>
  /\ KeepData

\* Mutation: OUTCERT is performed again while the data are awaited.
AwaitingData_Never == FALSE

AwaitingData == start_svrdata

HandleOutcert ==
  /\ Handle("OUTCERT")
  /\ \/ ~Head(toClt).ok /\ Abort(INVALIDNETCMD)
     \/ /\ Head(toClt).ok /\ AwaitingData
        /\ LoopAgain /\ KeepData
        /\ UNCHANGED <<buff, start_svrdata, toSvr, sel>>
     \/ Head(toClt).ok /\ ~AwaitingData /\ OutcertAccepted
     \/ Head(toClt).ok /\ ~AwaitingData /\ OutcertRejected

\* Read the photo file and send its first 514 bytes; the rest stays in buff.
HandleMsgAck ==
  /\ Handle("MSG_ACK")
  /\ \/ CardFails /\ Abort(NFCREADCARD_ERROR)
     \/ /\ \E f \in Selects("f6013", sel) :
             /\ sel' = f
             /\ buff' = Blob(f, m_iSock)
             /\ SendData(Msg("SENDPHOTO1", Half(1, Blob(f, m_iSock))))
        /\ LoopAgain /\ KeepData
        /\ UNCHANGED start_svrdata

\* Send what buff holds from byte 514 on.
HandleAck1(c, reply) ==
  /\ Handle(c)
  /\ SendData(Msg(reply, Half(2, buff)))
  /\ LoopAgain /\ KeepData
  /\ UNCHANGED <<buff, start_svrdata, sel>>

HandlePhotoAck1  == HandleAck1("RDPHOTO_ACK1", "SENDPHOTO2")
HandleFingerAck1 == HandleAck1("RDFINGERPRINT_ACK1", "SENDFINGERPRINT2")

\* Mutation: the flag is forgotten.
SendSecond_NoFlag ==
  /\ SendData(Msg("SECNED_ACK", Whole(dnbuff)))
  /\ UNCHANGED start_svrdata

\* Send the saved start message again under the command SECNED_ACK and
\* wait from now on for the decoded data.
SendSecond ==
  /\ SendData(Msg("SECNED_ACK", Whole(dnbuff)))
  /\ start_svrdata' = TRUE

\* Read the fingerprint file; a file of zeros means that there is none.
HandlePhotoAck2 ==
  /\ Handle("RDPHOTO_ACK2")
  /\ \/ CardFails /\ Abort(NFCREADCARD_ERROR)
     \/ /\ \E f \in Selects("f6021", sel) :
             LET b == Blob(IF f = "f6021" /\ ~finger THEN "zero" ELSE f, m_iSock)
             IN  /\ sel' = f
                 /\ buff' = b
                 /\ IF b.file = "zero"
                      THEN SendSecond
                      ELSE /\ SendData(Msg("SENDFINGERPRINT1", Half(1, b)))
                           /\ UNCHANGED start_svrdata
        /\ LoopAgain /\ KeepData

HandleFingerAck2 ==
  /\ Handle("RDFINGERPRINT_ACK2")
  /\ SendSecond
  /\ LoopAgain /\ KeepData
  /\ UNCHANGED <<buff, sel>>

\* A command number that no case names is ignored.
HandleOtherCmd ==
  /\ Handle("other")
  /\ LoopAgain /\ KeepData
  /\ UNCHANGED <<buff, start_svrdata, toSvr, sel>>

\* A pack of decoded data: 1 the keys and the text, 2 and 3 the photo.  The
\* loop ends with pack 3; a pack number out of range is skipped.
HandleData ==
  /\ pc = "loop"
  /\ toClt # <<>>
  /\ Head(toClt).kind = "data"
  /\ LET f == Head(toClt)
     IN  IF f.ok
         THEN /\ cardInfo' = IF f.no = 1 THEN f.sess ELSE cardInfo
              /\ pic' = CASE f.no = 1 -> pic
                          [] f.no = 2 -> <<f.sess, pic[2]>>
                          [] f.no = 3 -> <<pic[1], f.sess>>
              /\ piclen' = IF f.no = 1 THEN piclen ELSE piclen + PackLen(f.no)
              /\ SendData(Msg(DataAck[f.no], NoBody))
              /\ Goto(IF f.no = 3 THEN "decode" ELSE "loop")
         ELSE KeepData /\ Goto("loop") /\ UNCHANGED toSvr
  /\ toClt' = Tail(toClt)
  /\ UNCHANGED <<config, m_iSock, jniVars, retry, authSock, buff, DN, dnbuff,
                 start_svrdata, pCardMsg, sockets, conn, svr, upl, card>>

HandleBadType ==
  /\ pc = "loop"
  /\ toClt # <<>>
  /\ Head(toClt).kind = "bad"
  /\ Abort(INVALIDNETCMD)

-----------------------------------------------------------------------------
(* The end of a successful read, and the JNI entry's return                *)

\* Decrypt, fill the caller's structure (the photo only if it is whole), and
\* disconnect.
Finish ==
  /\ pc = "decode"
  /\ pCardMsg' = [dn |-> DN, info |-> cardInfo,
                  photo |-> IF piclen = CARD_PHOTO_LEN THEN pic ELSE <<0, 0>>]
  /\ ret' = NFCREADCARD_SUCCESS
  /\ pc' = "done"
  /\ DisconnectServer
  /\ UNCHANGED <<config, lastErr, jniVars, retry, authSock, locals, card>>

\* Success copies the structure to the Java array; otherwise the result is
\* GetLastError(), which also clears the code.
JniReturn ==
  /\ pc = "done"
  /\ pc' = "idle"
  /\ IF ret = NFCREADCARD_SUCCESS
       THEN jret' = ret /\ nfc_data' = pCardMsg /\ lastErr' = lastErr
       ELSE jret' = lastErr /\ lastErr' = 0 /\ nfc_data' = nfc_data
  /\ UNCHANGED <<config, m_iSock, reads, ret, retry, authSock, locals,
                 pCardMsg, sockets, network, card>>

-----------------------------------------------------------------------------
others == <<config, lastErr, jniVars, pc, ret, retry, locals, pCardMsg>>

-----------------------------------------------------------------------------
Reader ==
  \/ VerifyConnect \/ VerifyReply \/ SearchCard \/ Connect \/ RecvBanner
  \/ SendSerial \/ ReadDN \/ SendStart \/ RecvFail
  \/ HandleIncert \/ HandleOutcert \/ HandleMsgAck \/ HandlePhotoAck1
  \/ HandlePhotoAck2 \/ HandleFingerAck1 \/ HandleFingerAck2
  \/ HandleOtherCmd \/ HandleData \/ HandleBadType \/ Finish \/ JniReturn

Server == UNCHANGED others /\ (SvrGreet \/ SvrHandle)
Around == UNCHANGED others /\ (StrangerSends \/ NetDrop)

Next == /\ Configure \/ StartRead \/ Reader \/ Server \/ Around
        /\ SameWorld

Spec == Init /\ [][Next]_vars

\* The reader's thread keeps running, every wait for the network ends (the
\* socket's receive timeout), and the server answers what it gets.
FairSpec == Spec /\ WF_vars(Reader /\ SameWorld) /\ WF_vars(Server /\ SameWorld)

-----------------------------------------------------------------------------
(* Properties                                                              *)

PreConn   == {"idle", "done", "verify", "search", "connect", "reconnect"}

TypeReader ==
  /\ nfcType \in {NFC_LOCAL_ANDROID_DEV, NFC_OTG_ANDROID_DEV}
  /\ serialLen \in 0..MAX_SERIAL
  /\ lastErr \in {0} \cup ErrorCodes
  /\ jret \in {0} \cup ErrorCodes
  /\ nfc_data \in CardMsgs
  /\ reads \in 0..MaxReads
  /\ pc \in PreConn \cup InSession \cup {"verifyrecv"}
  /\ ret \in {0, -1}
  /\ retry \in 0..RETRY_TIME

TypeStart == start_svrdata \in BOOLEAN

TypeLocals ==
  /\ buff \in Blobs /\ DN \in Blobs /\ dnbuff \in Blobs
  /\ cardInfo \in Nat /\ pic \in Nat \X Nat /\ piclen \in Nat
  /\ pCardMsg \in CardMsgs

\* Every variable has its type; in particular a retry never finds the number
\* of attempts left below zero.
TypeOK == /\ TypeReader /\ TypeStart /\ TypeLocals
          /\ TypeFlags /\ TypeSockets /\ TypeNetwork /\ TypeCard

\* Every path through a read, retries included, closes each socket it opened
\* exactly once: a session holds its own socket and no other, and nothing is
\* open when the reader is outside a session.  No descriptor that is already
\* closed (DisconnectServer keeps m_iSock) is ever closed again.
SocketsBalanced ==
  /\ ~badclose
  /\ pc \in PreConn => open = {}
  /\ pc = "verifyrecv" => open = {authSock}
  /\ pc \in InSession => open = {m_iSock}

\* The JNI entry answers 0 exactly when it filled the caller's array, and one
\* of the documented error codes otherwise: the Java side decides by that
\* number alone whether to decode the array.
JniContract ==
  pc = "idle" /\ reads > 0 =>
    IF nfc_data = NoMsg THEN jret \in ErrorCodes ELSE jret = 0

\* What a successful read delivers is whole and of one session: the DN, the
\* text and both parts of the photo come from the same connection, whatever
\* earlier attempts of the read left in the function's variables.
DeliveredWhole ==
  nfc_data # NoMsg =>
    \E s \in 1..sid :
      nfc_data = [dn |-> Blob("f6002", s), info |-> s, photo |-> <<s, s>>]

\* Both directions of a read: what the server decodes, and what the caller
\* gets for it, are each of one session.
OneSession == UploadsCoherent /\ DeliveredWhole

\* Every read returns: no wait and no retry goes on for ever.
ReadReturns == (pc # "idle") ~> (pc = "idle")

\* A read that fails names the cause: each code is answered only in a world
\* where something that the code accuses may go wrong, and a configuration
\* code only for a wrong configuration.  In particular a read of a
\* configured reader succeeds when nothing fails, neither network nor card:
\* the protocol has no deadlock and no failure of its own making.
CodeNamesCause ==
  pc = "done" /\ ret # 0 =>
    CASE lastErr = JAVA_TYPE_ERR  -> nfcType # NFC_LOCAL_ANDROID_DEV
      [] lastErr = GETSERIAL_FAIL -> serialLen < 2
      [] OTHER -> Causes(lastErr) \cap Faults # {}

CardPhase == IF pc = "idle" THEN "idle"
             ELSE IF pc # "done" THEN "reading"
             ELSE IF ret = 0 THEN "ok" ELSE "failed"
CardHeld  == m_iSock \in open
CardRead  == INSTANCE CardReadSpec WITH
  Budget <- RETRY_TIME, ErrorCodes <- ErrorCodes, NoData <- NoMsg,
  phase <- CardPhase, budget <- retry, held <- CardHeld,
  code <- jret, data <- nfc_data

\* The reader implements the service of CardReadSpec: at most RETRY_TIME
\* attempts in a read, each with one connection that is given back before
\* the next attempt or the return, and data only from an attempt.
ReadService == CardRead!Spec
=============================================================================
