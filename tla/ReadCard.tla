------------------------------ MODULE ReadCard ------------------------------
(***************************************************************************)
(* The reader of the C interface (libnetcardreader): CReadCard over a      *)
(* PN532 board at an OTG cable or a serial port, between the card and the  *)
(* server of CardAndServer.  One thread calls it.                          *)
(*                                                                         *)
(* Unlike JavaReadCard it owns a device: it opens the board once to read   *)
(* the serial number from its EEPROM, closes it, opens it again to talk to *)
(* the card, and must give it back together with the socket on every path. *)
(* It makes one attempt per read.                                          *)
(*                                                                         *)
(* A handle is a number that OpenNFC gives out, never given twice.         *)
(***************************************************************************)
EXTENDS CardAndServer

CONSTANT MaxReads  \* bound: calls of the interface in a behaviour

ASSUME ReadsAssumption == MaxReads \in Nat

UNKNOWN_ERROR == 99

VARIABLES
  \* the CReadCard object: has it a device description, and is the serial
  \* number exempt from authorisation
  m_nfcParam, m_dwNoSNVerify,
  \* the caller: the call that runs or ran last, what the last read answered
  \* and filled in, what the last GetDevSerialNo answered, the calls made
  asked, code, card_data, serialCode, reads,
  \* GetDevSerialNo's handle, CNFCProtocol's handle, the handles open, the
  \* last one given, and whether one was closed that was not open
  dev, m_nfcDev, devs, did, baddev

config  == <<m_nfcParam, m_dwNoSNVerify>>
caller  == <<asked, code, card_data, serialCode, reads>>
control == <<pc, ret, lastErr>>
locals  == <<buff, DN, dnbuff, start_svrdata, cardInfo, pic, piclen, pCardMsg>>
devices == <<dev, m_nfcDev, devs, did, baddev>>
others  == <<config, caller, control, locals, devices>>
vars    == <<others, nearSide, network, Faults>>

-----------------------------------------------------------------------------
Init ==
  /\ m_nfcParam = FALSE /\ m_dwNoSNVerify = FALSE /\ lastErr = 0
  /\ asked = "none" /\ code = 0 /\ card_data = NoMsg /\ serialCode = 0
  /\ reads = 0
  /\ pc = "idle" /\ ret = 0
  /\ buff = NoBlob /\ DN = NoBlob /\ dnbuff = NoBlob
  /\ start_svrdata = FALSE
  /\ cardInfo = 0 /\ pic = <<0, 0>> /\ piclen = 0
  /\ pCardMsg = NoMsg
  /\ dev = -1 /\ m_nfcDev = -1
  /\ devs = {} /\ did = 0 /\ baddev = FALSE
  /\ SurroundingsInit

-----------------------------------------------------------------------------
(* The device                                                              *)

BoardFails == "device" \in Faults

OpenNFC ==
  /\ did' = did + 1
  /\ devs' = devs \cup {did + 1}
  /\ UNCHANGED baddev

CloseNFC(d) ==
  /\ devs' = devs \ {d}
  /\ baddev' = (baddev \/ d \notin devs)
  /\ UNCHANGED <<dev, m_nfcDev, did>>

CloseNFCDev == CloseNFC(m_nfcDev)

-----------------------------------------------------------------------------
(* Leaving a call                                                          *)

Fail(c) ==
  /\ lastErr' = c
  /\ ret' = -1
  /\ pc' = "done"

Goto(l) ==
  /\ pc' = l
  /\ UNCHANGED <<ret, lastErr>>

\* An error path of the session: code, disconnect, close the device.
Abort(c) ==
  /\ Fail(c)
  /\ DisconnectServer
  /\ CloseNFCDev
  /\ UNCHANGED <<config, caller, locals, authSock, card>>

-----------------------------------------------------------------------------
(* Configuration                                                           *)

\* A type without a device description leaves the reader without one.
SetNFCLocal(known) ==
  /\ m_nfcParam' = known
  /\ UNCHANGED m_dwNoSNVerify

SetSDKConfig(noverify) ==
  /\ m_dwNoSNVerify' = noverify
  /\ UNCHANGED m_nfcParam

Configure ==
  /\ pc = "idle"
  /\ \E b \in BOOLEAN : SetNFCLocal(b) \/ SetSDKConfig(b)
  /\ UNCHANGED <<caller, control, locals, devices, nearSide, network>>

-----------------------------------------------------------------------------
(* The calls, and the serial number that both begin with                   *)

Call(what) ==
  /\ pc = "idle"
  /\ reads < MaxReads
  /\ reads' = reads + 1
  /\ asked' = what
  /\ UNCHANGED <<code, serialCode>>
  /\ lastErr' = 0 /\ pc' = "serialopen" /\ ret' = ret
  /\ pCardMsg' = NoMsg
  /\ buff' = NoBlob /\ DN' = NoBlob /\ dnbuff' = NoBlob
  /\ start_svrdata' = FALSE
  /\ cardInfo' = 0 /\ pic' = <<0, 0>> /\ piclen' = 0
  /\ finger' \in BOOLEAN /\ sel' = "none"
  /\ dev' = -1
  /\ UNCHANGED <<config, m_nfcDev, devs, did, baddev, m_iSock, authSock,
                 sockets, network>>

\* The caller clears the structure before it asks for a read.
NFCCardReader  == Call("read") /\ card_data' = NoMsg
GetDevSerialNo == Call("serial") /\ card_data' = card_data

\* Mutation: the read leaves GetDevSerialNo's code standing.
NoSerialNo_KeepsCode(c) == Fail(c)

\* GetDevSerialNo failed with code c, which the read replaces by its own.
NoSerialNo(c) == Fail(IF asked = "read" THEN GETSERIAL_FAIL ELSE c)

OpenForSerial ==
  /\ pc = "serialopen"
  /\ \/ ~m_nfcParam /\ NoSerialNo(UNKNOWN_ERROR) /\ UNCHANGED devices
     \/ m_nfcParam /\ BoardFails /\ NoSerialNo(NFCOPEN_ERROR) /\ UNCHANGED devices
     \/ m_nfcParam /\ OpenNFC /\ dev' = did + 1 /\ m_nfcDev' = m_nfcDev
        /\ Goto("serialread")
  /\ UNCHANGED <<config, caller, locals, nearSide, network>>

\* Sixteen bytes, one command each; the device is closed either way.
ReadSerial ==
  /\ pc = "serialread"
  /\ CloseNFC(dev)
  /\ \/ BoardFails /\ NoSerialNo(NFCOPEN_ERROR)
     \/ /\ asked = "serial"
        /\ pc' = "done" /\ ret' = 0 /\ lastErr' = lastErr
     \/ /\ asked = "read"
        /\ Goto(IF m_dwNoSNVerify THEN "opendev" ELSE "verify")
  /\ UNCHANGED <<config, caller, locals, nearSide, network>>

VerifyConnect ==
  /\ pc = "verify"
  /\ \/ AuthConnect /\ Goto("verifyrecv")
     \/ "auth" \in Faults /\ Fail(AUTHOR_FAIL) /\ UNCHANGED <<sockets, authSock>>
  /\ UNCHANGED <<config, caller, locals, devices, m_iSock, network, card>>

VerifyReply ==
  /\ pc = "verifyrecv"
  /\ AuthDisconnect
  /\ \/ Goto("opendev")
     \/ "auth" \in Faults /\ Fail(AUTHOR_FAIL)
  /\ UNCHANGED <<config, caller, locals, devices, m_iSock, network, card>>

-----------------------------------------------------------------------------
(* NFCCardReader up to the receive loop                                    *)

\* OpenNFCDev keeps what OpenNFC answered, -1 if it failed.
OpenDev ==
  /\ pc = "opendev"
  /\ \/ OpenNFC /\ m_nfcDev' = did + 1 /\ Goto("search")
     \/ /\ BoardFails
        /\ m_nfcDev' = -1 /\ UNCHANGED <<devs, did, baddev>>
        /\ Fail(NFCOPEN_ERROR)
  /\ UNCHANGED <<dev, config, caller, locals, nearSide, network>>

\* Mutation: the device stays open when there is no card.
NoCard_KeepsDevice == Fail(SEARCHCARD_FAIL) /\ UNCHANGED devices

NoCard == Fail(SEARCHCARD_FAIL) /\ CloseNFCDev

\* InitNFC, whose result nobody looks at, and the request for a card.
SearchCard ==
  /\ pc = "search"
  /\ \/ /\ buff' = Blob("app", sid + 1)
        /\ Goto("connect")
        /\ UNCHANGED devices
     \/ CardFails /\ NoCard /\ buff' = buff
  /\ UNCHANGED <<config, caller, DN, dnbuff, start_svrdata, cardInfo, pic,
                 piclen, pCardMsg, nearSide, network>>

Connect ==
  /\ pc = "connect"
  /\ \/ ConnectServer /\ Goto("banner") /\ UNCHANGED devices
     \/ ConnectFails /\ Fail(NETCONNECT_ERROR) /\ CloseNFCDev
  /\ UNCHANGED <<config, caller, locals, authSock, card>>

\* n is what RecvData returned: the length it was asked for.
BannerRejected(n, f) == n # START_NETNFC_RDLEN /\ ~f.ok

RecvBanner ==
  /\ pc = "banner"
  /\ toClt # <<>>
  /\ IF BannerRejected(START_NETNFC_RDLEN, Head(toClt))
       THEN Abort(STARTNETREADCARD_FAIL)
       ELSE /\ Goto("serial")
            /\ toClt' = Tail(toClt)
            /\ UNCHANGED <<config, caller, locals, devices, nearSide, conn,
                           toSvr, svr, upl>>

SendSerial ==
  /\ pc = "serial"
  /\ \/ /\ SendData(Msg("VERIFY_SERIAL", NoBody))
        /\ Goto("dn")
        /\ UNCHANGED <<config, caller, locals, devices, nearSide, conn, toClt,
                       svr, upl>>
     \/ SendFails /\ Abort(NETSEND_ERROR)

\* NOATTRIB, then select and read file 6002; only lengths are tested.
ReadDN ==
  /\ pc = "dn"
  /\ \/ /\ \E f \in Answers("f6002") :
             /\ buff' = Blob(f, m_iSock)
             /\ DN' = Blob(f, m_iSock)
             /\ dnbuff' = Blob(f, m_iSock)
             /\ sel' \in {"f6002"} \cup (IF f = "status" THEN {sel} ELSE {})
        /\ Goto("start")
        /\ UNCHANGED <<config, caller, start_svrdata, cardInfo, pic, piclen,
                       pCardMsg, devices, m_iSock, authSock, sockets, network,
                       finger>>
     \/ CardFails /\ Abort(NFCREADCARD_ERROR)

SendStart ==
  /\ pc = "start"
  /\ \/ /\ SendData(Msg("STARTRDCARD_ACK", Whole(dnbuff)))
        /\ Goto("loop")
        /\ UNCHANGED <<config, caller, locals, devices, nearSide, conn, toClt,
                       svr, upl>>
     \/ SendFails /\ Abort(NETSEND_ERROR)

-----------------------------------------------------------------------------
(* The receive loop                                                        *)

RecvFail == pc \in {"banner", "loop"} /\ RecvFails /\ Abort(NETRECV_ERROR)

Handle(c) == pc = "loop" /\ RecvCmd(c)

LoopAgain ==
  /\ Goto("loop")
  /\ toClt' = Tail(toClt)
  /\ UNCHANGED <<config, caller, DN, dnbuff, cardInfo, pic, piclen, pCardMsg,
                 devices, m_iSock, authSock, sockets, conn, svr, upl, finger>>

HandleIncert ==
  /\ Handle("INCERT")
  /\ \/ ~Head(toClt).ok /\ Abort(INVALIDNETCMD)
     \/ Head(toClt).ok /\ CardFails /\ Abort(NFCREADCARD_ERROR)
     \/ Head(toClt).ok /\ SendFails /\ Abort(NETSEND_ERROR)
     \/ /\ Head(toClt).ok
        /\ \E f \in Answers("rand") :
             /\ buff' = Blob(f, m_iSock)
             /\ SendData(Msg("INAUTH_ACK", Whole(Blob(f, m_iSock))))
        /\ LoopAgain
        /\ UNCHANGED <<start_svrdata, sel>>

OutcertAccepted ==
  \/ /\ \E f \in Selects("f6011", sel) :
          \E g \in Selects("f6012", f) :
            LET b == Blob(IF <<f, g>> = <<"f6011", "f6012">>
                            THEN "f6011_12" ELSE "mixed", m_iSock)
            IN  /\ sel' = g
                /\ buff' = b
                /\ SendData(Msg("OUTAUTH_ACK", Whole(b)))
     /\ LoopAgain
     /\ UNCHANGED start_svrdata
  \/ CardFails /\ Abort(NFCREADCARD_ERROR)

\* Mutation: start over, as JavaReadCard does, but without counting.
OutcertRejected_Retries ==
  /\ "outcert" \in Faults
  /\ DisconnectServer
  /\ Goto("search")
  /\ UNCHANGED <<config, caller, locals, devices, authSock, card>>

\* A card that rejects the server's authentication ends the read.
OutcertRejected == "outcert" \in Faults /\ Abort(NFCREADCARD_ERROR)

HandleOutcert ==
  /\ Handle("OUTCERT")
  /\ \/ ~Head(toClt).ok /\ Abort(INVALIDNETCMD)
     \/ /\ Head(toClt).ok /\ start_svrdata
        /\ LoopAgain
        /\ UNCHANGED <<buff, start_svrdata, toSvr, sel>>
     \/ Head(toClt).ok /\ ~start_svrdata /\ OutcertAccepted
     \/ Head(toClt).ok /\ ~start_svrdata /\ OutcertRejected

HandleMsgAck ==
  /\ Handle("MSG_ACK")
  /\ \/ CardFails /\ Abort(NFCREADCARD_ERROR)
     \/ /\ \E f \in Selects("f6013", sel) :
             /\ sel' = f
             /\ buff' = Blob(f, m_iSock)
             /\ SendData(Msg("SENDPHOTO1", Half(1, Blob(f, m_iSock))))
        /\ LoopAgain
        /\ UNCHANGED start_svrdata

\* Send what buff holds from byte 514 on.
HandleAck1(c, reply) ==
  /\ Handle(c)
  /\ SendData(Msg(reply, Half(2, buff)))
  /\ LoopAgain
  /\ UNCHANGED <<buff, start_svrdata, sel>>

HandlePhotoAck1  == HandleAck1("RDPHOTO_ACK1", "SENDPHOTO2")
HandleFingerAck1 == HandleAck1("RDFINGERPRINT_ACK1", "SENDFINGERPRINT2")

\* Mutation: the saved message keeps its own command.
SendSecond_Unrenamed ==
  /\ SendData(Msg("STARTRDCARD_ACK", Whole(dnbuff)))
  /\ start_svrdata' = TRUE

SendSecond ==
  /\ SendData(Msg("SECNED_ACK", Whole(dnbuff)))
  /\ start_svrdata' = TRUE

\* Read the fingerprint file; a file of zeros means that there is none.
HandlePhotoAck2 ==
  /\ Handle("RDPHOTO_ACK2")
  /\ \/ CardFails /\ Abort(NFCREADCARD_ERROR)
     \/ /\ \E f \in Selects("f6021", sel) :
             LET b == Blob(IF f = "f6021" /\ ~finger THEN "zero" ELSE f, m_iSock)
             IN  /\ sel' = f
                 /\ buff' = b
                 /\ \/ b.file = "zero" /\ SendSecond
                    \/ /\ b.file # "zero"
                       /\ SendData(Msg("SENDFINGERPRINT1", Half(1, b)))
                       /\ UNCHANGED start_svrdata
        /\ LoopAgain

HandleFingerAck2 ==
  /\ Handle("RDFINGERPRINT_ACK2")
  /\ SendSecond
  /\ LoopAgain
  /\ UNCHANGED <<buff, sel>>

HandleOtherCmd ==
  /\ Handle("other")
  /\ LoopAgain
  /\ UNCHANGED <<buff, start_svrdata, toSvr, sel>>

\* Mutation: the text counts as photo too.
PhotoBytes_All(n) == PackLen(n)

PhotoBytes(n) == IF n = 1 THEN 0 ELSE PackLen(n)

HandleData ==
  /\ pc = "loop"
  /\ toClt # <<>>
  /\ Head(toClt).kind = "data"
  /\ LET f == Head(toClt)
     IN  \/ /\ f.ok
            /\ cardInfo' = IF f.no = 1 THEN f.sess ELSE cardInfo
            /\ pic' = <<IF f.no = 2 THEN f.sess ELSE pic[1],
                        IF f.no = 3 THEN f.sess ELSE pic[2]>>
            /\ piclen' = piclen + PhotoBytes(f.no)
            /\ SendData(Msg(DataAck[f.no], NoBody))
            /\ Goto(IF f.no = 3 THEN "decode" ELSE "loop")
         \/ ~f.ok /\ UNCHANGED <<cardInfo, pic, piclen, toSvr>> /\ Goto("loop")
  /\ toClt' = Tail(toClt)
  /\ UNCHANGED <<config, caller, buff, DN, dnbuff, start_svrdata, pCardMsg,
                 devices, nearSide, conn, svr, upl>>

HandleBadType ==
  /\ pc = "loop"
  /\ toClt # <<>>
  /\ Head(toClt).kind = "bad"
  /\ Abort(INVALIDNETCMD)

-----------------------------------------------------------------------------
(* The end of a call                                                       *)

\* Mutation: the DN is taken from the shared buffer at the end.
DeliveredDN_FromBuff == buff

DeliveredDN == DN

Finish ==
  /\ pc = "decode"
  /\ pCardMsg' = [dn |-> DeliveredDN, info |-> cardInfo,
                  photo |-> IF piclen = CARD_PHOTO_LEN THEN pic ELSE <<0, 0>>]
  /\ ret' = 0 /\ pc' = "done" /\ lastErr' = lastErr
  /\ DisconnectServer
  /\ CloseNFCDev
  /\ UNCHANGED <<config, caller, buff, DN, dnbuff, start_svrdata, cardInfo, pic,
                 piclen, authSock, card>>

\* The caller takes the result; on -1 it asks GetLastError, which clears the
\* code.
CallerReturn ==
  /\ pc = "done"
  /\ pc' = "idle" /\ ret' = ret
  /\ lastErr' = IF ret = 0 THEN lastErr ELSE 0
  /\ LET result == IF ret = 0 THEN 0 ELSE lastErr
     IN  \/ asked = "serial" /\ serialCode' = result /\ UNCHANGED <<code, card_data>>
         \/ /\ asked = "read" /\ code' = result /\ serialCode' = serialCode
            /\ card_data' = IF ret = 0 THEN pCardMsg ELSE card_data
  /\ UNCHANGED <<config, asked, reads, locals, devices, nearSide, network>>

-----------------------------------------------------------------------------
Reader ==
  \/ OpenForSerial \/ ReadSerial \/ VerifyConnect \/ VerifyReply \/ OpenDev
  \/ SearchCard \/ Connect \/ RecvBanner \/ SendSerial \/ ReadDN \/ SendStart
  \/ RecvFail \/ HandleIncert \/ HandleOutcert \/ HandleMsgAck
  \/ HandlePhotoAck1 \/ HandlePhotoAck2 \/ HandleFingerAck1
  \/ HandleFingerAck2 \/ HandleOtherCmd \/ HandleData \/ HandleBadType
  \/ Finish \/ CallerReturn

Server == UNCHANGED others /\ (SvrGreet \/ SvrHandle)
Around == UNCHANGED others /\ (StrangerSends \/ NetDrop)

Next == /\ Configure \/ NFCCardReader \/ GetDevSerialNo \/ Reader \/ Server \/ Around
        /\ SameWorld

Spec == Init /\ [][Next]_vars

\* The caller's thread keeps running, every wait for the network ends (the
\* socket's receive timeout) and so does every command of the board
\* (RequestEnds of NfcProtocol); the server answers what it gets.
FairSpec == Spec /\ WF_vars(Reader /\ SameWorld) /\ WF_vars(Server /\ SameWorld)

-----------------------------------------------------------------------------
(* Properties                                                              *)

Alone      == {"idle", "done", "serialopen", "verify", "opendev"}
HasDevice  == {"search", "connect"} \cup InSession
ReadErrors == ErrorCodes \ {JAVA_TYPE_ERR}

TypeReader ==
  /\ m_nfcParam \in BOOLEAN /\ m_dwNoSNVerify \in BOOLEAN
  /\ lastErr \in {0, UNKNOWN_ERROR} \cup ErrorCodes
  /\ code \in {0} \cup ErrorCodes
  /\ serialCode \in {0, UNKNOWN_ERROR} \cup ErrorCodes
  /\ asked \in {"none", "read", "serial"}
  /\ card_data \in CardMsgs
  /\ reads \in 0..MaxReads
  /\ pc \in Alone \cup HasDevice \cup {"serialread", "verifyrecv"}
  /\ ret \in {0, -1}

TypeDevices ==
  /\ did \in Nat
  /\ devs \subseteq 1..did
  /\ dev \in {-1} \cup 1..did
  /\ m_nfcDev \in {-1} \cup 1..did
  /\ baddev \in BOOLEAN

TypeLocals ==
  /\ buff \in Blobs /\ DN \in Blobs /\ dnbuff \in Blobs
  /\ start_svrdata \in BOOLEAN
  /\ cardInfo \in Nat /\ pic \in Nat \X Nat /\ pCardMsg \in CardMsgs
  /\ piclen \in 0..CARD_PHOTO_LEN

\* Every variable keeps its type; in particular the bytes counted for the
\* photo never exceed what it holds.
TypeOK == /\ TypeReader /\ TypeDevices /\ TypeLocals
          /\ TypeFlags /\ TypeSockets /\ TypeNetwork /\ TypeCard

\* The board is given back on every path: whenever no call uses it nothing
\* is open, GetDevSerialNo's handle is closed before the reader opens its
\* own, and none is closed twice although m_nfcDev keeps its value.
DeviceBalanced ==
  /\ ~baddev
  /\ pc \in Alone \cup {"verifyrecv"} => devs = {}
  /\ pc = "serialread" => devs = {dev}
  /\ pc \in HasDevice => devs = {m_nfcDev}

\* The same of the sockets, and the socket goes with the device: no session
\* is open on a reader that has no device.
SocketsBalanced ==
  /\ ~badclose
  /\ pc \in InSession => open = {m_iSock}
  /\ pc = "verifyrecv" => open = {authSock}
  /\ pc \notin InSession \cup {"verifyrecv"} => open = {}

\* Board and socket are both given back, on every path of both calls.
GivenBack == DeviceBalanced /\ SocketsBalanced

\* A call that fails leaves a documented code for GetLastError: a read one of
\* its own, whatever GetDevSerialNo had set inside it, the serial number call
\* one of the two it knows.  Code 0 comes with data, and only then.
CodeLeft ==
  pc = "idle" =>
    /\ asked = "read" => IF card_data = NoMsg THEN code \in ReadErrors ELSE code = 0
    /\ asked = "serial" => serialCode \in {0, NFCOPEN_ERROR, UNKNOWN_ERROR}

\* A call that fails names the cause: each code is left only in a world where
\* something that the code accuses may go wrong, and that of a missing
\* description of the device only when it is missing.
CodeNamesCause ==
  pc = "done" /\ ret # 0 =>
    IF lastErr = UNKNOWN_ERROR \/ (lastErr = GETSERIAL_FAIL /\ ~m_nfcParam)
      THEN ~m_nfcParam
      ELSE Causes(lastErr) \cap Faults # {}

\* What GetLastError tells the caller: that there was a failure, and why.
ResultContract == CodeLeft /\ CodeNamesCause

\* What a successful read delivers is whole and of its own session, whatever
\* the shared buffer held in between.
DeliveredWhole ==
  card_data # NoMsg =>
    /\ card_data.dn = Blob("f6002", m_iSock)
    /\ card_data.info = m_iSock
    /\ card_data.photo = <<m_iSock, m_iSock>>

\* Both directions of a read: what the server decodes, and what the caller
\* gets for it, are each of one session.
OneSession == UploadsCoherent /\ DeliveredWhole

\* Every call returns.
ReadReturns == (pc # "idle") ~> (pc = "idle")

ReadPhase == IF pc = "idle" \/ asked = "serial" THEN "idle"
             ELSE IF pc # "done" THEN "reading"
             ELSE IF ret = 0 THEN "ok" ELSE "failed"
ReadHolds == m_iSock \in open
CardRead  == INSTANCE CardReadSpec WITH
  Budget <- 1, NoData <- NoMsg, phase <- ReadPhase, budget <- 1,
  held <- ReadHolds, code <- code, data <- card_data

\* The reader implements CardReadSpec with a single attempt, and a call for
\* the serial number leaves no trace in it.
ReadService == CardRead!Spec
=============================================================================
