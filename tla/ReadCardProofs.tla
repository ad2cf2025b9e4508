---------------------------- MODULE ReadCardProofs ----------------------------
(***************************************************************************)
(* Proofs about ReadCard, for every number of calls and every set of       *)
(* faults: its types and the bytes of the photo, that the board and the    *)
(* socket are given back on every path, the contract of its results, what  *)
(* it delivers, that it implements CardReadSpec, and that every step       *)
(* brings a call nearer to its end.                                        *)
(***************************************************************************)
EXTENDS ReadCard, CardAndServerProofs, TLAPS

\* What the program counter says about the rest of the reader's state.
Control ==
  /\ pc # "idle" => asked # "none"
  /\ asked = "serial" => pc \in {"idle", "serialopen", "serialread", "done"}
  /\ asked = "read" /\ pc # "idle" => card_data = NoMsg
  /\ pc \notin {"idle", "done"} => pCardMsg = NoMsg
  /\ pc = "verifyrecv" => authSock # m_iSock
  /\ pc = "done" =>
       \/ ret = 0 /\ (asked = "read" => pCardMsg # NoMsg)
       \/ ret = -1 /\ lastErr \in IF asked = "read" THEN ReadErrors
                                  ELSE {NFCOPEN_ERROR, UNKNOWN_ERROR}

IInv == TypeOK /\ GivenBack /\ Control /\ CodeLeft

-----------------------------------------------------------------------------
(* Facts about the definitions                                             *)

\* The codes of a read are numbers other than zero, and all documented.
LEMMA CodesAreErrors ==
  /\ 0 \notin ErrorCodes
  /\ ReadErrors \subseteq ErrorCodes
  /\ {NETCONNECT_ERROR, NETRECV_ERROR, NETSEND_ERROR, NFCOPEN_ERROR,
      NFCREADCARD_ERROR, SEARCHCARD_FAIL, STARTNETREADCARD_FAIL,
      INVALIDNETCMD, GETSERIAL_FAIL, AUTHOR_FAIL} \subseteq ReadErrors
BY DEF ReadErrors, ErrorCodes, NETCONNECT_ERROR, NETRECV_ERROR, NETSEND_ERROR,
       NFCOPEN_ERROR, NFCREADCARD_ERROR, SEARCHCARD_FAIL, STARTNETREADCARD_FAIL,
       INVALIDNETCMD, GETSERIAL_FAIL, AUTHOR_FAIL, JAVA_TYPE_ERR

-----------------------------------------------------------------------------
(* The steps outside a session                                             *)

LEMMA InitInv == Init => IInv
<1> SUFFICES ASSUME Init PROVE IInv
  OBVIOUS
<1>0. SurroundingsInit
  BY DEF Init
<1>1. TypeReader
  <2>1. m_nfcParam \in BOOLEAN /\ m_dwNoSNVerify \in BOOLEAN
    BY Zenon DEF Init
  <2>2. QED
    BY <2>1, ReadsAssumption, EmptyTypes DEF Init, TypeReader, Alone
<1>2. TypeLocals
  <2>1. start_svrdata \in BOOLEAN
    BY Zenon DEF Init
  <2>2. QED
    BY <2>1, EmptyTypes DEF Init, TypeLocals, CARD_PHOTO_LEN
<1>3. TypeFlags /\ TypeSockets /\ TypeCard
  BY <1>0 DEF SurroundingsInit, TypeFlags, TypeSockets, TypeCard, Files
<1>4. TypeNetwork
  BY <1>0, EmptyTypes DEF SurroundingsInit, TypeNetwork, SvrStates
<1>5. TypeDevices /\ GivenBack
  BY <1>0 DEF Init, SurroundingsInit, TypeDevices, GivenBack, DeviceBalanced,
              SocketsBalanced, HasDevice, InSession
<1>6. Control /\ CodeLeft
  BY DEF Init, Control, CodeLeft
<1>7. QED
  BY <1>1, <1>2, <1>3, <1>4, <1>5, <1>6 DEF IInv, TypeOK

\* A step that touches neither sockets nor network, outside a session and
\* outside verify_serial.
LEMMA SocketsKept ==
  ASSUME IInv, UNCHANGED <<m_iSock, authSock, sockets, network>>,
         pc \notin InSession \cup {"verifyrecv"},
         pc' \notin InSession \cup {"verifyrecv"}
  PROVE  TypeSockets' /\ TypeNetwork' /\ UNCHANGED badclose /\ SocketsBalanced'
<1> USE DEF IInv, TypeOK, sockets, network
<1>1. TypeSockets'
  BY DEF TypeSockets
<1>2. TypeNetwork'
  BY DEF TypeNetwork
<1>3. SocketsBalanced'
  BY DEF SocketsBalanced, GivenBack
<1>4. QED
  BY <1>1, <1>2, <1>3

\* A step that touches no board, with pc on the same side of the calls that
\* hold one.
LEMMA DevicesKept ==
  ASSUME IInv, UNCHANGED devices, pc # "serialread", pc' # "serialread",
         pc \in HasDevice <=> pc' \in HasDevice,
         pc \in Alone \cup {"verifyrecv"} <=> pc' \in Alone \cup {"verifyrecv"}
  PROVE  TypeDevices' /\ DeviceBalanced'
BY DEF IInv, TypeOK, GivenBack, TypeDevices, DeviceBalanced, devices

LEMMA ConfigureInv == IInv /\ Configure => IInv'
<1> SUFFICES ASSUME IInv, Configure PROVE IInv'
  OBVIOUS
<1> USE DEF IInv, TypeOK, Configure
<1>1. pc = "idle" /\ pc' = "idle"
  BY DEF control
<1>2. /\ TypeSockets' /\ TypeNetwork' /\ UNCHANGED badclose /\ SocketsBalanced'
      /\ TypeDevices' /\ DeviceBalanced'
  BY <1>1, SocketsKept, DevicesKept DEF nearSide, InSession, HasDevice
<1>3. TypeReader'
  BY DEF TypeReader, SetNFCLocal, SetSDKConfig, caller, control
<1>4. TypeLocals' /\ TypeFlags' /\ TypeCard'
  BY <1>2 DEF TypeLocals, TypeFlags, TypeCard, locals, nearSide, card
<1>5. Control' /\ CodeLeft'
  BY <1>1 DEF Control, CodeLeft, caller
<1>6. QED
  BY <1>2, <1>3, <1>4, <1>5 DEF GivenBack

\* Both calls.
LEMMA CallInv ==
  ASSUME IInv, NEW what \in {"read", "serial"}, Call(what),
         card_data' = IF what = "read" THEN NoMsg ELSE card_data
  PROVE  IInv'
<1> USE EmptyTypes, CodesAreErrors
<1> USE DEF IInv, TypeOK, Call
<1>1. pc = "idle" /\ pc' = "serialopen" /\ asked' = what
  OBVIOUS
<1>2. TypeSockets' /\ TypeNetwork' /\ UNCHANGED badclose /\ SocketsBalanced'
  BY <1>1, SocketsKept DEF InSession
<1>3. TypeDevices' /\ DeviceBalanced'
  BY <1>1 DEF TypeDevices, DeviceBalanced, GivenBack, Alone, HasDevice, InSession
<1>4. TypeReader'
  BY ReadsAssumption DEF TypeReader, config, Alone
<1>5. TypeLocals'
  <2>1. start_svrdata' \in BOOLEAN
    BY Zenon
  <2>2. QED
    BY <2>1 DEF TypeLocals, CARD_PHOTO_LEN
<1>6. TypeFlags' /\ TypeCard'
  BY <1>2 DEF TypeFlags, TypeCard, Files
<1>7. Control' /\ CodeLeft'
  BY <1>1 DEF Control, CodeLeft
<1>8. QED
  BY <1>2, <1>3, <1>4, <1>5, <1>6, <1>7 DEF GivenBack

\* The serial number: the board is opened and closed again, whatever happens
\* to the reading.
LEMMA SerialInv == IInv /\ (OpenForSerial \/ ReadSerial) => IInv'
<1> SUFFICES ASSUME IInv, OpenForSerial \/ ReadSerial PROVE IInv'
  OBVIOUS
<1> USE CodesAreErrors
<1> USE DEF IInv, TypeOK
<1>1. /\ pc \in {"serialopen", "serialread"}
      /\ \/ pc = "serialopen" /\ pc' = "serialread"
         \/ pc' = "done" /\ ret' = 0 /\ asked = "serial"
         \/ pc' = "done" /\ ret' = -1 /\
              lastErr' \in IF asked = "read" THEN ReadErrors
                           ELSE {NFCOPEN_ERROR, UNKNOWN_ERROR}
         \/ pc' \in {"opendev", "verify"} /\ asked = "read"
      /\ UNCHANGED <<config, caller, locals, nearSide, network>>
  BY DEF OpenForSerial, ReadSerial, NoSerialNo, Fail, Goto
<1>2. TypeSockets' /\ TypeNetwork' /\ UNCHANGED badclose /\ SocketsBalanced'
  BY <1>1, SocketsKept DEF nearSide, InSession
<1>3. TypeDevices' /\ DeviceBalanced'
  <2>1. CASE OpenForSerial /\ UNCHANGED devices
    <3>1. pc = "serialopen" /\ pc' = "done"
      BY <2>1 DEF OpenForSerial, NoSerialNo, Fail, OpenNFC, devices, TypeDevices
    <3>2. QED
      BY <2>1, <3>1, DevicesKept DEF HasDevice, InSession, Alone
  <2>2. CASE OpenForSerial /\ OpenNFC
    <3>1. /\ pc = "serialopen" /\ pc' = "serialread"
          /\ did' = did + 1 /\ devs' = devs \cup {did + 1} /\ baddev' = baddev
          /\ dev' = did + 1 /\ m_nfcDev' = m_nfcDev
      BY <2>2 DEF OpenForSerial, OpenNFC, Goto, devices, TypeDevices
    <3>2. devs = {}
      BY <3>1 DEF GivenBack, DeviceBalanced, Alone
    <3>3. TypeDevices'
      BY <3>1, NewSocket DEF TypeDevices
    <3>4. QED
      BY <3>1, <3>2, <3>3 DEF GivenBack, DeviceBalanced, Alone, HasDevice, InSession
  <2>3. CASE ReadSerial
    <3>1. /\ pc = "serialread" /\ pc' \in {"done", "opendev", "verify"}
          /\ devs' = devs \ {dev} /\ baddev' = (baddev \/ dev \notin devs)
          /\ UNCHANGED <<dev, m_nfcDev, did>>
      BY <2>3 DEF ReadSerial, CloseNFC, NoSerialNo, Fail, Goto
    <3>2. devs = {dev} /\ devs' = {} /\ baddev' = FALSE
      BY <3>1 DEF GivenBack, DeviceBalanced
    <3>3. QED
      BY <3>1, <3>2 DEF TypeDevices, DeviceBalanced, HasDevice, InSession
  <2>4. QED
    BY <2>1, <2>2, <2>3 DEF OpenForSerial
<1>4. TypeReader'
  BY <1>1 DEF TypeReader, config, caller, Alone, OpenForSerial, ReadSerial,
              NoSerialNo, Fail, Goto
<1>5. TypeLocals' /\ TypeFlags' /\ TypeCard'
  BY <1>1, <1>2 DEF TypeLocals, TypeFlags, TypeCard, locals, nearSide, card
<1>6. Control' /\ CodeLeft'
  BY <1>1 DEF Control, CodeLeft, caller, locals
<1>7. QED
  BY <1>2, <1>3, <1>4, <1>5, <1>6 DEF GivenBack

\* verify_serial has a connection of its own, and gives it back.
LEMMA VerifyInv == IInv /\ (VerifyConnect \/ VerifyReply) => IInv'
<1> SUFFICES ASSUME IInv, VerifyConnect \/ VerifyReply PROVE IInv'
  OBVIOUS
<1> USE CodesAreErrors
<1> USE DEF IInv, TypeOK
<1>1. /\ pc \in {"verify", "verifyrecv"} /\ asked = "read"
      /\ \/ pc' \in {"verifyrecv", "opendev"}
         \/ pc' = "done" /\ ret' = -1 /\ lastErr' = AUTHOR_FAIL
      /\ UNCHANGED <<config, caller, locals, devices, m_iSock, network, card>>
  BY DEF VerifyConnect, VerifyReply, Goto, Fail, Control, TypeReader
<1>2. TypeDevices' /\ DeviceBalanced'
  BY <1>1, DevicesKept DEF HasDevice, InSession, Alone
<1>3. TypeReader'
  BY <1>1 DEF TypeReader, VerifyConnect, VerifyReply, Goto, Fail, config, caller, Alone
<1>4. /\ TypeSockets' /\ SocketsBalanced' /\ badclose' = badclose
      /\ pc' = "verifyrecv" => authSock' # m_iSock'
  <2>1. CASE VerifyConnect /\ AuthConnect /\ pc' = "verifyrecv"
    <3>1. /\ pc = "verify"
          /\ sid' = sid + 1 /\ authSock' = sid + 1 /\ open' = open \cup {sid + 1}
          /\ badclose' = badclose
      BY <2>1 DEF VerifyConnect, AuthConnect
    <3>2. open = {} /\ ~badclose
      BY <3>1 DEF GivenBack, SocketsBalanced, InSession
    <3>3. TypeSockets' /\ authSock' # m_iSock'
      BY <1>1, <3>1, NewSocket DEF TypeSockets
    <3>4. SocketsBalanced'
      BY <2>1, <3>1, <3>2 DEF SocketsBalanced, InSession
    <3>5. QED
      BY <3>1, <3>3, <3>4
  <2>2. CASE VerifyConnect /\ UNCHANGED <<sockets, authSock>> /\ pc' = "done"
    <3>1. pc = "verify"
      BY <2>2 DEF VerifyConnect
    <3>2. QED
      BY <1>1, <2>2, <3>1, SocketsKept DEF InSession
  <2>3. CASE VerifyReply
    <3>1. /\ pc = "verifyrecv" /\ pc' \in {"opendev", "done"}
          /\ sid' = sid /\ authSock' = -1 /\ open' = open \ {authSock}
          /\ badclose' = (badclose \/ authSock \notin open)
      BY <2>3 DEF VerifyReply, AuthDisconnect, Goto, Fail
    <3>2. open = {authSock} /\ badclose = FALSE
      BY <3>1 DEF GivenBack, SocketsBalanced, TypeFlags
    <3>3. open' = {} /\ badclose' = FALSE
      BY <3>1, <3>2
    <3>4. TypeSockets'
      BY <1>1, <3>1, <3>3 DEF TypeSockets
    <3>5. SocketsBalanced'
      BY <3>1, <3>3 DEF SocketsBalanced, InSession
    <3>6. QED
      BY <3>1, <3>2, <3>3, <3>4, <3>5
  <2>4. QED
    BY <2>1, <2>2, <2>3 DEF VerifyConnect, Goto, Fail
<1>5. TypeNetwork'
  BY <1>1 DEF TypeNetwork, network
<1>6. TypeLocals' /\ TypeFlags' /\ TypeCard'
  BY <1>1, <1>4 DEF TypeLocals, TypeFlags, TypeCard, locals, card
<1>7. Control' /\ CodeLeft'
  BY <1>1, <1>4 DEF Control, CodeLeft, caller, locals
<1>8. QED
  BY <1>2, <1>3, <1>4, <1>5, <1>6, <1>7 DEF GivenBack

\* CNFCProtocol's own handle.
LEMMA OpenDevInv == IInv /\ OpenDev => IInv'
<1> SUFFICES ASSUME IInv, OpenDev PROVE IInv'
  OBVIOUS
<1> USE CodesAreErrors
<1> USE DEF IInv, TypeOK
<1>1. /\ pc = "opendev" /\ asked = "read"
      /\ \/ /\ pc' = "search" /\ did' = did + 1 /\ devs' = devs \cup {did + 1}
            /\ baddev' = baddev /\ m_nfcDev' = did + 1
            /\ UNCHANGED <<ret, lastErr>>
         \/ /\ pc' = "done" /\ ret' = -1 /\ lastErr' = NFCOPEN_ERROR
            /\ m_nfcDev' = -1 /\ UNCHANGED <<did, devs, baddev>>
      /\ UNCHANGED <<dev, config, caller, locals, nearSide, network>>
  BY DEF OpenDev, OpenNFC, Goto, Fail, Control, TypeReader
<1>2. devs = {} /\ ~baddev
  BY <1>1 DEF GivenBack, DeviceBalanced, Alone
<1>3. TypeDevices'
  BY <1>1, NewSocket DEF TypeDevices
<1>4. DeviceBalanced'
  BY <1>1, <1>2 DEF DeviceBalanced, Alone, HasDevice, InSession
<1>5. TypeSockets' /\ TypeNetwork' /\ UNCHANGED badclose /\ SocketsBalanced'
  BY <1>1, SocketsKept DEF nearSide, InSession
<1>6. TypeReader'
  BY <1>1 DEF TypeReader, config, caller, Alone, HasDevice
<1>7. TypeLocals' /\ TypeFlags' /\ TypeCard'
  BY <1>1, <1>5 DEF TypeLocals, TypeFlags, TypeCard, locals, nearSide, card
<1>8. Control' /\ CodeLeft'
  BY <1>1 DEF Control, CodeLeft, caller, locals
<1>9. QED
  BY <1>3, <1>4, <1>5, <1>6, <1>7, <1>8 DEF GivenBack

\* The handle of the read is closed once, and nothing stays open.
LEMMA DeviceClosed ==
  ASSUME IInv, pc \in HasDevice, CloseNFCDev, pc' = "done"
  PROVE  TypeDevices' /\ DeviceBalanced'
<1>1. /\ devs' = devs \ {m_nfcDev} /\ baddev' = (baddev \/ m_nfcDev \notin devs)
      /\ UNCHANGED <<dev, m_nfcDev, did>>
  BY DEF CloseNFCDev, CloseNFC
<1>2. devs = {m_nfcDev} /\ baddev = FALSE
  BY DEF IInv, TypeOK, TypeDevices, GivenBack, DeviceBalanced
<1>3. devs' = {} /\ baddev' = FALSE
  BY <1>1, <1>2
<1>4. QED
  BY <1>1, <1>3 DEF IInv, TypeOK, TypeDevices, DeviceBalanced, HasDevice, InSession

LEMMA SearchCardInv == IInv /\ SearchCard => IInv'
<1> SUFFICES ASSUME IInv, SearchCard PROVE IInv'
  OBVIOUS
<1> USE CodesAreErrors
<1> USE DEF IInv, TypeOK
<1>1. /\ pc = "search" /\ asked = "read"
      /\ \/ pc' = "connect" /\ UNCHANGED <<devices, ret, lastErr>>
         \/ pc' = "done" /\ ret' = -1 /\ lastErr' = SEARCHCARD_FAIL /\ CloseNFCDev
      /\ buff' \in {buff, Blob("app", sid + 1)}
      /\ UNCHANGED <<config, caller, DN, dnbuff, start_svrdata, cardInfo, pic,
                     piclen, pCardMsg, nearSide, network>>
  BY DEF SearchCard, NoCard, Goto, Fail, Control, TypeReader
<1>2. TypeDevices' /\ DeviceBalanced'
  BY <1>1, DevicesKept, DeviceClosed DEF HasDevice, InSession, Alone
<1>3. TypeSockets' /\ TypeNetwork' /\ UNCHANGED badclose /\ SocketsBalanced'
  BY <1>1, SocketsKept DEF nearSide, InSession
<1>4. TypeReader'
  BY <1>1 DEF TypeReader, config, caller, Alone, HasDevice
<1>5. TypeLocals'
  <2>1. Blob("app", sid + 1) \in Blobs
    BY BlobTypes DEF TypeSockets, Files
  <2>2. QED
    BY <1>1, <2>1 DEF TypeLocals
<1>6. TypeFlags' /\ TypeCard'
  BY <1>1, <1>3 DEF TypeFlags, TypeCard, nearSide, card
<1>7. Control' /\ CodeLeft'
  BY <1>1 DEF Control, CodeLeft, caller
<1>8. QED
  BY <1>2, <1>3, <1>4, <1>5, <1>6, <1>7 DEF GivenBack

LEMMA ConnectInv == IInv /\ Connect => IInv'
<1> SUFFICES ASSUME IInv, Connect PROVE IInv'
  OBVIOUS
<1> USE CodesAreErrors
<1> USE DEF IInv, TypeOK
<1>1. /\ pc = "connect" /\ asked = "read"
      /\ \/ pc' = "banner" /\ ConnectServer /\ UNCHANGED <<devices, ret, lastErr>>
         \/ /\ pc' = "done" /\ ret' = -1 /\ lastErr' = NETCONNECT_ERROR
            /\ ConnectFails /\ CloseNFCDev
      /\ UNCHANGED <<config, caller, locals, authSock, card>>
  BY DEF Connect, Goto, Fail, Control, TypeReader
<1>2. TypeDevices' /\ DeviceBalanced'
  BY <1>1, DevicesKept, DeviceClosed DEF HasDevice, InSession, Alone
<1>3. TypeSockets' /\ TypeNetwork'
  BY <1>1, ConnectTypes, ConnectFailsTypes
<1>4. SocketsBalanced' /\ UNCHANGED badclose
  BY <1>1 DEF SocketsBalanced, GivenBack, ConnectServer, ConnectFails, sockets, InSession
<1>5. TypeReader'
  BY <1>1 DEF TypeReader, config, caller, Alone, HasDevice, InSession
<1>6. TypeLocals' /\ TypeFlags' /\ TypeCard'
  BY <1>1, <1>4 DEF TypeLocals, TypeFlags, TypeCard, locals, card
<1>7. Control' /\ CodeLeft'
  BY <1>1 DEF Control, CodeLeft, caller, locals
<1>8. QED
  BY <1>2, <1>3, <1>4, <1>5, <1>6, <1>7 DEF GivenBack

LEMMA CallerReturnInv == IInv /\ CallerReturn => IInv'
<1> SUFFICES ASSUME IInv, CallerReturn PROVE IInv'
  OBVIOUS
<1> USE CodesAreErrors
<1> USE DEF IInv, TypeOK
<1>1. /\ pc = "done" /\ pc' = "idle" /\ ret' = ret
      /\ lastErr' \in {lastErr, 0}
      /\ UNCHANGED <<config, asked, reads, locals, devices, nearSide, network>>
  BY DEF CallerReturn
<1>2. \/ /\ asked = "serial" /\ UNCHANGED <<code, card_data>>
         /\ serialCode' \in {0, NFCOPEN_ERROR, UNKNOWN_ERROR}
      \/ /\ asked = "read" /\ serialCode' = serialCode
         /\ \/ code' = 0 /\ card_data' = pCardMsg /\ pCardMsg # NoMsg
            \/ code' \in ReadErrors /\ card_data' = card_data /\ card_data = NoMsg
  BY <1>1 DEF CallerReturn, Control
<1>3. TypeDevices' /\ DeviceBalanced'
  BY <1>1, DevicesKept DEF HasDevice, InSession, Alone
<1>4. TypeSockets' /\ TypeNetwork' /\ UNCHANGED badclose /\ SocketsBalanced'
  BY <1>1, SocketsKept DEF nearSide, InSession
<1>5. TypeReader'
  BY <1>1, <1>2 DEF TypeReader, TypeLocals, config, Alone
<1>6. TypeLocals' /\ TypeFlags' /\ TypeCard'
  BY <1>1, <1>4 DEF TypeLocals, TypeFlags, TypeCard, locals, nearSide, card
<1>7. Control'
  BY <1>1 DEF Control, locals
<1>8. CodeLeft'
  BY <1>1, <1>2 DEF CodeLeft
<1>9. QED
  BY <1>3, <1>4, <1>5, <1>6, <1>7, <1>8 DEF GivenBack

-----------------------------------------------------------------------------
(* The steps of a session                                                  *)

\* In a session a read runs.
LEMMA InRead ==
  ASSUME IInv, pc \in InSession
  PROVE  /\ asked = "read" /\ card_data = NoMsg /\ pCardMsg = NoMsg
         /\ pc \in HasDevice /\ open = {m_iSock} /\ m_iSock \in 1..sid
         /\ m_iSock \in Nat /\ badclose = FALSE
<1>1. open = {m_iSock} /\ badclose = FALSE
  BY DEF IInv, TypeOK, TypeFlags, GivenBack, SocketsBalanced
<1>2. m_iSock \in 1..sid
  BY <1>1 DEF IInv, TypeOK, TypeSockets
<1>3. asked = "read"
  BY DEF IInv, TypeOK, TypeReader, Control, InSession
<1>4. QED
  BY <1>1, <1>2, <1>3 DEF IInv, TypeOK, TypeSockets, Control, HasDevice, InSession

\* Leaving the session closes its socket and the board, once each.
LEMMA LeaveInv ==
  ASSUME IInv, pc \in InSession, pc' = "done", DisconnectServer, CloseNFCDev,
         UNCHANGED <<config, caller, buff, DN, dnbuff, start_svrdata, cardInfo,
                     pic, piclen, authSock, card>>,
         pCardMsg' \in CardMsgs,
         \/ ret' = 0 /\ lastErr' = lastErr /\ pCardMsg' # NoMsg
         \/ ret' = -1 /\ lastErr' \in ReadErrors
  PROVE  IInv'
<1> USE DEF IInv, TypeOK
<1>1. /\ asked = "read" /\ card_data = NoMsg
      /\ pc \in HasDevice /\ open = {m_iSock}
      /\ m_iSock \in Nat /\ badclose = FALSE
  BY InRead
<1>2. open' = {} /\ badclose' = FALSE
  BY <1>1 DEF DisconnectServer
<1>3. TypeSockets' /\ TypeNetwork'
  BY DisconnectTypes
<1>4. SocketsBalanced'
  BY <1>2 DEF SocketsBalanced, InSession
<1>5. TypeDevices' /\ DeviceBalanced'
  BY <1>1, DeviceClosed
<1>6. TypeReader'
  BY CodesAreErrors DEF TypeReader, config, caller, Alone
<1>7. TypeLocals' /\ TypeFlags' /\ TypeCard'
  BY <1>1, <1>2 DEF TypeLocals, TypeFlags, TypeCard, card
<1>8. Control' /\ CodeLeft'
  BY <1>1 DEF Control, CodeLeft, caller
<1>9. QED
  BY <1>3, <1>4, <1>5, <1>6, <1>7, <1>8 DEF GivenBack

LEMMA AbortInv ==
  ASSUME IInv, pc \in InSession, NEW c \in ReadErrors, Abort(c)
  PROVE  IInv'
<1>1. /\ pc' = "done" /\ ret' = -1 /\ lastErr' = c
      /\ DisconnectServer /\ CloseNFCDev
      /\ UNCHANGED <<config, caller, locals, authSock, card>>
  BY DEF Abort, Fail
<1>2. pCardMsg' \in CardMsgs
  BY <1>1 DEF IInv, TypeOK, TypeLocals, locals
<1>3. QED
  BY <1>1, <1>2, LeaveInv DEF locals

\* Every step that stays inside a session leaves its control state alone:
\* only the locals and the network change.
LEMMA SessionStepInv ==
  ASSUME IInv, pc \in InSession, pc' \in InSession,
         UNCHANGED <<config, caller, ret, lastErr, pCardMsg, devices, m_iSock,
                     authSock, sockets, finger>>,
         sel' \in Files, TypeLocals', TypeNetwork'
  PROVE  IInv'
<1> USE DEF IInv, TypeOK
<1>1. TypeDevices' /\ DeviceBalanced'
  BY DevicesKept DEF HasDevice, InSession, Alone
<1>2. TypeReader'
  BY DEF TypeReader, config, caller, HasDevice
<1>3. TypeSockets' /\ TypeFlags' /\ TypeCard'
  BY DEF TypeSockets, TypeFlags, TypeCard, sockets
<1>4. SocketsBalanced'
  BY DEF SocketsBalanced, GivenBack, sockets, InSession
<1>5. Control' /\ CodeLeft'
  BY InRead DEF Control, CodeLeft, caller, InSession
<1>6. QED
  BY <1>1, <1>2, <1>3, <1>4, <1>5 DEF GivenBack

\* Steps of the server, of a stranger and of the network do not touch the
\* reader.
LEMMA NetworkStepInv ==
  ASSUME IInv, UNCHANGED others, UNCHANGED nearSide, TypeNetwork'
  PROVE  IInv'
<1> USE DEF others, nearSide, IInv, TypeOK
<1>1. TypeDevices' /\ DeviceBalanced'
  BY DEF TypeDevices, DeviceBalanced, GivenBack, devices, control
<1>2. TypeReader'
  BY DEF TypeReader, config, caller, control
<1>3. TypeLocals'
  BY DEF TypeLocals, locals
<1>4. TypeSockets' /\ TypeFlags' /\ TypeCard'
  BY DEF TypeSockets, TypeFlags, TypeCard, sockets, card
<1>5. SocketsBalanced'
  BY DEF SocketsBalanced, GivenBack, sockets, control
<1>6. Control' /\ CodeLeft'
  BY DEF Control, CodeLeft, caller, control, locals
<1>7. QED
  BY <1>1, <1>2, <1>3, <1>4, <1>5, <1>6 DEF GivenBack

\* A step that sends m, or nothing, and may read into the buffers.
LEMMA SendStepInv ==
  ASSUME IInv, pc \in InSession, pc' \in InSession,
         UNCHANGED <<config, caller, ret, lastErr, cardInfo, pic, piclen,
                     pCardMsg, devices, m_iSock, authSock, sockets, conn, svr,
                     upl, finger>>,
         buff' \in Blobs, DN' \in Blobs, dnbuff' \in Blobs,
         start_svrdata' \in BOOLEAN, sel' \in Files,
         toClt' \in Seq(Frames), toSvr' \in Seq(Msgs)
  PROVE  IInv'
<1>1. TypeLocals'
  BY DEF IInv, TypeOK, TypeLocals
<1>2. TypeNetwork'
  BY DEF IInv, TypeOK, TypeNetwork
<1>3. QED
  BY <1>1, <1>2, SessionStepInv

\* What every step of a session starts from.
LEMMA AtSession ==
  ASSUME IInv, pc \in InSession
  PROVE  /\ m_iSock \in Nat
         /\ buff \in Blobs /\ DN \in Blobs /\ dnbuff \in Blobs
         /\ start_svrdata \in BOOLEAN /\ sel \in Files
         /\ toSvr \in Seq(Msgs) /\ toClt \in Seq(Frames)
         /\ toClt # <<>> => Tail(toClt) \in Seq(Frames)
<1>1. m_iSock \in Nat
  BY InRead
<1>2. start_svrdata \in BOOLEAN
  BY DEF IInv, TypeOK, TypeLocals
<1>3. QED
  BY <1>1, <1>2 DEF IInv, TypeOK, TypeLocals, TypeNetwork, TypeCard

\* What a step that sends a half of b, or all of it, leaves to be read.
LEMMA Sends ==
  ASSUME IInv, NEW c \in CltCmds, NEW b \in Blobs, NEW h \in 0..2,
         SendData(Msg(c, Half(h, b)))
  PROVE  toSvr' \in Seq(Msgs)
<1>1. Msg(c, Half(h, b)) \in Msgs
  BY MsgTypes
<1>2. QED
  BY <1>1, SendDataTypes DEF IInv, TypeOK

\* From the greeting to the start message.
LEMMA OpeningInv ==
  ASSUME IInv, RecvBanner \/ SendSerial \/ ReadDN \/ SendStart \/ RecvFail
  PROVE  IInv'
<1>1. pc \in InSession
  BY DEF RecvBanner, SendSerial, ReadDN, SendStart, RecvFail, InSession
<1>2. CASE \E c \in ReadErrors : Abort(c)
  BY <1>1, <1>2, AbortInv
<1>3. CASE RecvBanner /\ ~ \E c \in ReadErrors : Abort(c)
  <2>1. /\ toClt # <<>> /\ toClt' = Tail(toClt) /\ pc' \in InSession
        /\ UNCHANGED <<ret, lastErr, config, caller, locals, devices, nearSide,
                       conn, toSvr, svr, upl>>
    BY <1>3, CodesAreErrors DEF RecvBanner, Goto, InSession
  <2>2. QED
    BY <1>1, <2>1, AtSession, SendStepInv DEF locals, nearSide, card
<1>4. CASE (SendSerial \/ SendStart) /\ ~ \E c \in ReadErrors : Abort(c)
  <2>1. /\ pc' \in InSession
        /\ UNCHANGED <<ret, lastErr, config, caller, locals, devices, nearSide,
                       conn, toClt, svr, upl>>
        /\ \/ SendData(Msg("VERIFY_SERIAL", Half(0, NoBlob)))
           \/ SendData(Msg("STARTRDCARD_ACK", Half(0, dnbuff)))
    BY <1>4, CodesAreErrors DEF SendSerial, SendStart, Goto, InSession, NoBody, Whole
  <2>2. toSvr' \in Seq(Msgs)
    BY <1>1, <2>1, AtSession, Sends, EmptyTypes DEF CltCmds
  <2>3. QED
    BY <1>1, <2>1, <2>2, AtSession, SendStepInv DEF locals, nearSide, card
<1>5. CASE ReadDN /\ ~ \E c \in ReadErrors : Abort(c)
  <2>1. PICK f \in Answers("f6002") :
          /\ buff' = Blob(f, m_iSock) /\ DN' = Blob(f, m_iSock)
          /\ dnbuff' = Blob(f, m_iSock)
          /\ sel' \in {"f6002"} \cup (IF f = "status" THEN {sel} ELSE {})
    BY <1>5, CodesAreErrors DEF ReadDN
  <2>2. /\ pc' \in InSession
        /\ UNCHANGED <<ret, lastErr, config, caller, start_svrdata, cardInfo,
                       pic, piclen, pCardMsg, devices, m_iSock, authSock,
                       sockets, network, finger>>
    BY <1>5, CodesAreErrors DEF ReadDN, Goto, InSession
  <2>3. Blob(f, m_iSock) \in Blobs /\ sel' \in Files
    BY <1>1, <2>1, AtSession, SelectsFiles, BlobTypes DEF Files
  <2>4. QED
    BY <1>1, <2>1, <2>2, <2>3, AtSession, SendStepInv DEF network
<1>6. QED
  BY <1>2, <1>3, <1>4, <1>5, CodesAreErrors DEF RecvFail

-----------------------------------------------------------------------------
(* The conversation with the server: every step of the reader keeps the    *)
(* invariant of CardAndServerProofs                                        *)

\* An error path leaves the session.
LEMMA AbortConv ==
  ASSUME NEW c, Abort(c)
  PROVE  Conversation'
<1>1. pc' = "done" /\ DisconnectServer
  BY DEF Abort, Fail
<1>2. QED
  BY <1>1, LeaveConv DEF InSession

\* A call starts with fresh variables and keeps them until it has a session.
LEMMA PreludeConv ==
  ASSUME Conversation,
         \/ Configure \/ NFCCardReader \/ GetDevSerialNo \/ OpenForSerial
         \/ ReadSerial \/ VerifyConnect \/ VerifyReply \/ OpenDev
         \/ SearchCard \/ CallerReturn
  PROVE  Conversation'
<1>1. CASE Configure \/ NFCCardReader \/ GetDevSerialNo \/ CallerReturn
  <2>1. pc \notin InSession /\ pc' \notin InSession /\ UNCHANGED network
    BY <1>1 DEF Configure, NFCCardReader, GetDevSerialNo, Call, CallerReturn,
                control, InSession
  <2>2. pc' \in {"idle", "done"} \/ Fresh'
    BY <1>1 DEF Configure, NFCCardReader, GetDevSerialNo, Call, CallerReturn,
                control, Fresh
  <2>3. QED
    BY <2>1, <2>2, OutsideConv
<1>2. CASE \/ OpenForSerial \/ ReadSerial \/ VerifyConnect \/ VerifyReply
           \/ OpenDev \/ SearchCard
  <2>1. pc \notin InSession \cup {"idle", "done"} /\ pc' \notin InSession
    BY <1>2 DEF OpenForSerial, ReadSerial, VerifyConnect, VerifyReply, OpenDev,
                SearchCard, NoSerialNo, NoCard, Goto, Fail, InSession
  <2>2. UNCHANGED network /\ UNCHANGED <<start_svrdata, piclen>>
    BY <1>2 DEF OpenForSerial, ReadSerial, VerifyConnect, VerifyReply, OpenDev,
                SearchCard, locals
  <2>3. Fresh'
    BY <2>1, <2>2, FreshOutside DEF Fresh
  <2>4. QED
    BY <2>1, <2>2, <2>3, OutsideConv
<1>3. QED
  BY <1>1, <1>2

LEMMA ConnectStepConv ==
  ASSUME Conversation, Connect, SameWorld
  PROVE  Conversation'
<1>1. /\ pc \notin InSession \cup {"idle", "done"}
      /\ UNCHANGED <<start_svrdata, piclen, Faults>>
  BY DEF Connect, locals, InSession, SameWorld
<1>2. CASE ConnectServer /\ Goto("banner")
  BY <1>1, <1>2, ConnectConv DEF Goto
<1>3. CASE ConnectFails /\ Fail(NETCONNECT_ERROR)
  <2>1. pc' \notin InSession /\ UNCHANGED network
    BY <1>3 DEF ConnectFails, Fail, InSession
  <2>2. Fresh'
    BY <1>1, FreshOutside DEF Fresh
  <2>3. QED
    BY <1>1, <2>1, <2>2, OutsideConv
<1>4. QED
  BY <1>2, <1>3 DEF Connect

\* From the greeting to the start message.
LEMMA OpeningConv ==
  ASSUME Conversation, SameWorld,
         RecvBanner \/ SendSerial \/ ReadDN \/ SendStart
  PROVE  Conversation'
<1>1. CASE \E c : Abort(c)
  BY <1>1, AbortConv
<1>2. CASE ~ \E c : Abort(c)
  <2>1. CASE RecvBanner
    <3>1. /\ pc = "banner" /\ toClt # <<>> /\ pc' = "serial" /\ toClt' = Tail(toClt)
          /\ UNCHANGED <<m_iSock, sid, conn, svr, upl, toSvr, start_svrdata, piclen>>
      BY <1>2, <2>1 DEF RecvBanner, Goto, locals, nearSide, sockets
    <3>2. QED
      BY <3>1, BannerConv DEF Stays, SameWorld
  <2>2. CASE SendSerial
    <3>1. /\ pc = "serial" /\ pc' = "dn" /\ SendData(Msg("VERIFY_SERIAL", NoBody))
          /\ UNCHANGED <<m_iSock, sid, conn, svr, upl, toClt, start_svrdata, piclen>>
      BY <1>2, <2>2 DEF SendSerial, Goto, locals, nearSide, sockets
    <3>2. QED
      BY <3>1, SerialConv DEF Stays, SameWorld
  <2>3. CASE ReadDN
    <3>1. /\ pc = "dn" /\ pc' = "start"
          /\ \E f \in Answers("f6002") :
               buff' = Blob(f, m_iSock) /\ DN' = buff' /\ dnbuff' = buff'
          /\ UNCHANGED <<m_iSock, sid, conn, svr, upl, toSvr, toClt,
                         start_svrdata, piclen>>
      BY <1>2, <2>3 DEF ReadDN, Goto, sockets, network
    <3>2. QED
      BY <3>1, DNConv DEF Stays, SameWorld
  <2>4. CASE SendStart
    <3>1. /\ pc = "start" /\ pc' = "loop"
          /\ SendData(Msg("STARTRDCARD_ACK", Whole(dnbuff)))
          /\ UNCHANGED <<m_iSock, sid, conn, svr, upl, toClt, buff, DN, dnbuff,
                         start_svrdata, piclen>>
      BY <1>2, <2>4 DEF SendStart, Goto, locals, nearSide, sockets
    <3>2. QED
      BY <3>1, StartConv DEF Stays, SameWorld
  <2>5. QED
    BY <2>1, <2>2, <2>3, <2>4
<1>3. QED
  BY <1>1, <1>2

\* The frame of a handler that goes round the loop again.
LEMMA LoopFrame ==
  ASSUME pc = "loop", LoopAgain, SameWorld
  PROVE  LoopStays
BY DEF LoopStays, Stays, LoopAgain, Goto, SameWorld, sockets

LEMMA HandlersConv ==
  ASSUME IInv, Conversation, SameWorld,
         \/ HandleIncert \/ HandleMsgAck \/ HandlePhotoAck1 \/ HandleFingerAck1
         \/ HandlePhotoAck2 \/ HandleFingerAck2 \/ HandleOtherCmd
  PROVE  Conversation'
<1>1. CASE \E c : Abort(c)
  BY <1>1, AbortConv
<1>2. CASE ~ \E c : Abort(c)
  <2>1. LoopStays
    BY <1>2, LoopFrame DEF HandleIncert, HandleMsgAck, HandlePhotoAck1,
       HandleFingerAck1, HandleAck1, HandlePhotoAck2, HandleFingerAck2,
       HandleOtherCmd, Handle
  <2>2. CASE HandleIncert
    <3>1. /\ RecvCmd("INCERT") /\ Head(toClt).ok /\ UNCHANGED start_svrdata
          /\ \E f \in Answers("rand") :
               /\ buff' = Blob(f, m_iSock)
               /\ SendData(Msg("INAUTH_ACK", Whole(Blob(f, m_iSock))))
      BY <1>2, <2>2 DEF HandleIncert, Handle
    <3>2. QED
      BY <2>1, <3>1, IncertConv
  <2>3. CASE HandleMsgAck
    <3>1. /\ RecvCmd("MSG_ACK") /\ UNCHANGED start_svrdata
          /\ \E f \in Selects("f6013", sel) :
               /\ buff' = Blob(f, m_iSock)
               /\ SendData(Msg("SENDPHOTO1", Half(1, Blob(f, m_iSock))))
      BY <1>2, <2>3 DEF HandleMsgAck, Handle
    <3>2. TypeCard
      BY DEF IInv, TypeOK
    <3>3. QED
      BY <2>1, <3>1, <3>2, MsgAckConv
  <2>4. CASE HandlePhotoAck1 \/ HandleFingerAck1
    BY <2>1, <2>4, Ack1Conv
       DEF HandlePhotoAck1, HandleFingerAck1, HandleAck1, Handle
  <2>5. CASE HandlePhotoAck2
    <3>1. PICK f \in Selects("f6021", sel) :
            LET b == Blob(IF f = "f6021" /\ ~finger THEN "zero" ELSE f, m_iSock)
            IN  /\ buff' = b
                /\ \/ SendSecond
                   \/ SendData(Msg("SENDFINGERPRINT1", Half(1, b))) /\ UNCHANGED start_svrdata
      BY <1>2, <2>5 DEF HandlePhotoAck2
    <3>2. RecvCmd("RDPHOTO_ACK2")
      BY <2>5 DEF HandlePhotoAck2, Handle
    <3>3. NewBuff
      <4>1. m_iSock = sid
        BY <2>1 DEF LoopStays, Conversation, Connected, InSession
      <4>2. TypeCard
        BY DEF IInv, TypeOK
      <4>3. QED
        <5>1. f \in Files \ {"none"} /\ (f # "f6021" => CardFails)
          BY <3>1, <4>2, SelectsBytes DEF TypeCard
        <5>2. QED
          BY <3>1, <4>1, <5>1 DEF NewBuff, Blob, Files
    <3>4. CASE SendSecond
      BY <2>1, <3>2, <3>3, <3>4, SecondConv DEF SendSecond
    <3>5. CASE SendData(Msg("SENDFINGERPRINT1", Half(1, buff'))) /\ UNCHANGED start_svrdata
      BY <2>1, <3>2, <3>3, <3>5, FingerConv
    <3>6. QED
      BY <3>1, <3>4, <3>5
  <2>6. CASE HandleFingerAck2
    <3>1. NewBuff
      BY <2>1, <2>6, SameBuff DEF HandleFingerAck2, LoopStays
    <3>2. QED
      BY <2>1, <2>6, <3>1, SecondConv DEF HandleFingerAck2, Handle, SendSecond
  <2>7. CASE HandleOtherCmd
    BY <2>1, <2>7, IgnoreConv DEF HandleOtherCmd, Handle, RecvCmd
  <2>8. QED
    BY <2>2, <2>3, <2>4, <2>5, <2>6, <2>7
<1>3. QED
  BY <1>1, <1>2

\* External authentication: accepted, swallowed, or rejected, which ends the
\* read.
LEMMA OutcertStepConv ==
  ASSUME IInv, Conversation, SameWorld, HandleOutcert
  PROVE  Conversation'
<1>1. pc = "loop" /\ RecvCmd("OUTCERT")
  BY DEF HandleOutcert, Handle
<1>2. CASE \E c : Abort(c)
  BY <1>2, AbortConv
<1>3. CASE LoopAgain /\ start_svrdata /\ Head(toClt).ok
           /\ UNCHANGED <<buff, start_svrdata, toSvr>>
  BY <1>1, <1>3, LoopFrame, SwallowConv
<1>4. CASE OutcertAccepted /\ ~start_svrdata /\ Head(toClt).ok
           /\ ~ \E c : Abort(c)
  <2>1. LoopStays /\ UNCHANGED start_svrdata
    BY <1>1, <1>4, LoopFrame DEF OutcertAccepted
  <2>2. \E k \in {"f6011_12", "mixed"} :
          /\ buff' = Blob(k, m_iSock)
          /\ SendData(Msg("OUTAUTH_ACK", Whole(Blob(k, m_iSock))))
    BY <1>4 DEF OutcertAccepted
  <2>3. QED
    BY <1>1, <1>4, <2>1, <2>2, OutcertConv
<1>5. QED
  BY <1>2, <1>3, <1>4 DEF HandleOutcert, OutcertRejected

LEMMA DataStepConv ==
  ASSUME IInv, Conversation, SameWorld, HandleData
  PROVE  Conversation'
<1> DEFINE f == Head(toClt)
<1>1. /\ pc = "loop" /\ toClt # <<>> /\ f.kind = "data" /\ toClt' = Tail(toClt)
      /\ Stays /\ UNCHANGED <<buff, DN, dnbuff, start_svrdata>>
  BY DEF HandleData, Stays, SameWorld, nearSide, sockets
<1>2. CASE f.ok
  <2>1. f.no \in 1..3
    BY <1>1, <1>2, DataFrame DEF IInv, TypeOK
  <2>2. /\ cardInfo' = IF f.no = 1 THEN f.sess ELSE cardInfo
        /\ piclen' = IF f.no = 1 THEN piclen ELSE piclen + PackLen(f.no)
        /\ SendData(Msg(DataAck[f.no], NoBody))
        /\ pc' = IF f.no = 3 THEN "decode" ELSE "loop"
    BY <1>2, <2>1 DEF HandleData, PhotoBytes, Goto, IInv, TypeOK, TypeLocals
  <2>3. /\ pic'[1] = IF f.no = 2 THEN f.sess ELSE pic[1]
        /\ pic'[2] = IF f.no = 3 THEN f.sess ELSE pic[2]
    BY <1>2 DEF HandleData
  <2>4. QED
    BY <1>1, <1>2, <2>2, <2>3, DataConv
<1>3. CASE ~f.ok
  <2>1. LoopStays /\ UNCHANGED toSvr
    BY <1>1, <1>3 DEF HandleData, LoopStays, Goto
  <2>2. QED
    BY <1>1, <1>3, <2>1, IgnoreConv
<1>4. QED
  BY <1>2, <1>3

LEMMA ReaderConv ==
  ASSUME IInv, Conversation, Reader, SameWorld
  PROVE  Conversation'
<1>1. CASE RecvFail \/ HandleBadType
  BY <1>1, AbortConv DEF RecvFail, HandleBadType
<1>2. CASE Finish
  BY <1>2, LeaveConv DEF Finish, InSession
<1>3. QED
  BY <1>1, <1>2, PreludeConv, ConnectStepConv, OpeningConv, HandlersConv,
     OutcertStepConv, DataStepConv DEF Reader

LEMMA NextConv ==
  ASSUME IInv, Conversation, [Next]_vars
  PROVE  Conversation'
<1>1. CASE UNCHANGED vars
  BY <1>1, SameConv DEF vars, others, locals, control, ReaderSame
<1>2. CASE Configure \/ NFCCardReader \/ GetDevSerialNo
  BY <1>2, PreludeConv
<1>3. CASE Reader /\ SameWorld
  BY <1>3, ReaderConv
<1>4. CASE (Server \/ Around) /\ SameWorld
  <2>1. TypeNetwork /\ sid \in Nat
    BY DEF IInv, TypeOK, TypeSockets
  <2>2. SvrGreet \/ SvrHandle \/ StrangerSends \/ NetDrop
    BY <1>4 DEF Server, Around
  <2>3. UNCHANGED others
    BY <1>4 DEF Server, Around
  <2>4. ReaderSame
    BY <1>4, <2>1, <2>2, <2>3, FarSideTypes
       DEF ReaderSame, SameWorld, others, locals, control
  <2>5. QED
    BY <2>1, <2>2, <2>4, FarSideConv
<1>5. QED
  BY <1>1, <1>2, <1>3, <1>4 DEF Next

LEMMA InitConv ==
  ASSUME Init
  PROVE  Conversation
BY DEF Init, SurroundingsInit, Conversation, BuffersOwn, NothingYet, Uploads,
       NetworkQuiet, InSession, Started, Photo, Finger, Late

-----------------------------------------------------------------------------
(* The receive loop and the end of a call                                  *)

\* A handler that goes round the loop again.
LEMMA LoopAgainInv ==
  ASSUME IInv, pc = "loop", toClt # <<>>, LoopAgain,
         buff' \in Blobs, start_svrdata' \in BOOLEAN, sel' \in Files,
         toSvr' \in Seq(Msgs)
  PROVE  IInv'
<1>1. pc \in InSession /\ pc' \in InSession
  BY DEF LoopAgain, Goto, InSession
<1>2. /\ UNCHANGED <<config, caller, ret, lastErr, cardInfo, pic, piclen,
                     pCardMsg, devices, m_iSock, authSock, sockets, conn, svr,
                     upl, finger, DN, dnbuff>>
      /\ toClt' = Tail(toClt)
  BY DEF LoopAgain, Goto
<1>3. QED
  BY <1>1, <1>2, AtSession, SendStepInv

LEMMA HandlersInv ==
  ASSUME IInv,
         \/ HandleIncert \/ HandleOutcert \/ HandleMsgAck \/ HandlePhotoAck1
         \/ HandlePhotoAck2 \/ HandleFingerAck1 \/ HandleFingerAck2
         \/ HandleOtherCmd
  PROVE  IInv'
<1>1. pc = "loop" /\ pc \in InSession /\ toClt # <<>>
  BY DEF HandleIncert, HandleOutcert, HandleMsgAck, HandlePhotoAck1, HandleAck1,
         HandlePhotoAck2, HandleFingerAck1, HandleFingerAck2, HandleOtherCmd,
         Handle, RecvCmd, InSession
<1>2. /\ m_iSock \in Nat /\ buff \in Blobs /\ dnbuff \in Blobs /\ sel \in Files
      /\ start_svrdata \in BOOLEAN /\ toSvr \in Seq(Msgs)
  BY <1>1, AtSession
<1>3. CASE \E c \in ReadErrors : Abort(c)
  BY <1>1, <1>3, AbortInv
<1>4. CASE ~ \E c \in ReadErrors : Abort(c)
  <2>1. CASE HandleIncert
    <3>1. PICK f \in Files : /\ buff' = Blob(f, m_iSock)
                             /\ SendData(Msg("INAUTH_ACK", Half(0, Blob(f, m_iSock))))
      BY <1>2, <1>4, <2>1, CodesAreErrors, SelectsFiles DEF HandleIncert, Whole, Files
    <3>2. LoopAgain /\ UNCHANGED <<start_svrdata, sel>>
      BY <1>4, <2>1, CodesAreErrors DEF HandleIncert
    <3>3. QED
      BY <1>1, <1>2, <3>1, <3>2, BlobTypes, Sends, LoopAgainInv DEF CltCmds
  <2>2. CASE HandleOutcert
    <3>1. CASE LoopAgain /\ UNCHANGED <<buff, start_svrdata, toSvr, sel>>
      BY <1>1, <1>2, <3>1, LoopAgainInv
    <3>2. CASE OutcertAccepted
      <4>1. LoopAgain /\ UNCHANGED start_svrdata
        BY <1>4, <3>2, CodesAreErrors DEF OutcertAccepted
      <4>2. PICK f \in Selects("f6011", sel) :
              \E g \in Selects("f6012", f) :
                LET b == Blob(IF <<f, g>> = <<"f6011", "f6012">>
                                THEN "f6011_12" ELSE "mixed", m_iSock)
                IN  /\ sel' = g
                    /\ buff' = b
                    /\ SendData(Msg("OUTAUTH_ACK", Whole(b)))
        BY <1>4, <3>2, CodesAreErrors DEF OutcertAccepted
      <4>3. PICK k \in {"f6011_12", "mixed"} :
              /\ buff' = Blob(k, m_iSock)
              /\ SendData(Msg("OUTAUTH_ACK", Half(0, Blob(k, m_iSock))))
        BY <4>2 DEF Whole
      <4>4. sel' \in Files
        BY <1>2, <4>2, SelectsFiles DEF Files
      <4>5. Blob(k, m_iSock) \in Blobs
        BY <1>2, BlobTypes DEF Files
      <4>6. QED
        BY <1>1, <1>2, <4>1, <4>3, <4>4, <4>5, Sends, LoopAgainInv DEF CltCmds
    <3>3. QED
      BY <1>4, <2>2, <3>1, <3>2, CodesAreErrors DEF HandleOutcert, OutcertRejected
  <2>3. CASE HandleMsgAck
    <3>1. PICK f \in Files :
            /\ sel' = f /\ buff' = Blob(f, m_iSock)
            /\ SendData(Msg("SENDPHOTO1", Half(1, Blob(f, m_iSock))))
      BY <1>2, <1>4, <2>3, CodesAreErrors, SelectsFiles DEF HandleMsgAck, Files
    <3>2. LoopAgain /\ UNCHANGED start_svrdata
      BY <1>4, <2>3, CodesAreErrors DEF HandleMsgAck
    <3>3. QED
      BY <1>1, <1>2, <3>1, <3>2, BlobTypes, Sends, LoopAgainInv DEF CltCmds
  <2>4. CASE HandlePhotoAck1 \/ HandleFingerAck1
    <3>1. /\ LoopAgain /\ UNCHANGED <<buff, start_svrdata, sel>>
          /\ \E c \in CltCmds : SendData(Msg(c, Half(2, buff)))
      BY <2>4 DEF HandlePhotoAck1, HandleFingerAck1, HandleAck1, CltCmds
    <3>2. QED
      BY <1>1, <1>2, <3>1, Sends, LoopAgainInv
  <2>5. CASE HandlePhotoAck2
    <3>1. LoopAgain
      BY <1>4, <2>5, CodesAreErrors DEF HandlePhotoAck2
    <3>2. PICK f \in Selects("f6021", sel) :
            LET b == Blob(IF f = "f6021" /\ ~finger THEN "zero" ELSE f, m_iSock)
            IN  /\ sel' = f
                /\ buff' = b
                /\ \/ SendSecond
                   \/ /\ SendData(Msg("SENDFINGERPRINT1", Half(1, b)))
                      /\ UNCHANGED start_svrdata
      BY <1>4, <2>5, CodesAreErrors DEF HandlePhotoAck2
    <3>3. f \in Files /\ (IF f = "f6021" /\ ~finger THEN "zero" ELSE f) \in Files
      BY <1>2, SelectsFiles DEF Files
    <3>4. PICK k \in Files :
            /\ sel' = f /\ buff' = Blob(k, m_iSock)
            /\ \/ SendData(Msg("SECNED_ACK", Half(0, dnbuff))) /\ start_svrdata' = TRUE
               \/ /\ SendData(Msg("SENDFINGERPRINT1", Half(1, Blob(k, m_iSock))))
                  /\ UNCHANGED start_svrdata
      BY <3>2, <3>3 DEF SendSecond, Whole
    <3>5. toSvr' \in Seq(Msgs)
      <4>1. CASE SendData(Msg("SECNED_ACK", Half(0, dnbuff)))
        BY <1>2, <4>1, Sends DEF CltCmds
      <4>2. CASE SendData(Msg("SENDFINGERPRINT1", Half(1, Blob(k, m_iSock))))
        BY <1>2, <4>2, BlobTypes, Sends DEF CltCmds
      <4>3. QED
        BY <3>4, <4>1, <4>2
    <3>6. start_svrdata' \in BOOLEAN
      BY <1>2, <3>4, Zenon
    <3>7. QED
      BY <1>1, <1>2, <3>1, <3>3, <3>4, <3>5, <3>6, BlobTypes, LoopAgainInv
  <2>6. CASE HandleFingerAck2
    <3>1. /\ LoopAgain /\ UNCHANGED <<buff, sel>> /\ start_svrdata' = TRUE
          /\ SendData(Msg("SECNED_ACK", Half(0, dnbuff)))
      BY <2>6 DEF HandleFingerAck2, SendSecond, Whole
    <3>2. QED
      BY <1>1, <1>2, <3>1, Sends, LoopAgainInv DEF CltCmds
  <2>7. CASE HandleOtherCmd
    BY <1>1, <1>2, <2>7, LoopAgainInv DEF HandleOtherCmd
  <2>8. QED
    BY <2>1, <2>2, <2>3, <2>4, <2>5, <2>6, <2>7
<1>5. QED
  BY <1>3, <1>4

\* The photo gets two packs in a session, and they fit.
LEMMA PhotoFits ==
  ASSUME Conversation', pc' \in {"loop", "decode"}
  PROVE  piclen' \in 0..CARD_PHOTO_LEN
<1> USE DEF CARD_PHOTO_LEN
<1>1. Strange' => piclen' = 0
  BY DEF Strange, Received
<1>2. (Asked \/ Answered \/ Lost)' => piclen' \in {0, 514}
  <2>1. Asked' => piclen' \in {0, 514}
    BY DEF Asked, Received
  <2>2. Answered' => piclen' \in {0, 514}
    BY DEF Answered, Received, Replies
  <2>3. QED
    BY <2>1, <2>2 DEF Lost
<1>3. Turn' /\ pc' = "decode" => piclen' = CARD_PHOTO_LEN
  BY DEF Turn, Received
<1>4. CASE (svr \in Strangers)'
  <2>1. Strange'
    BY <1>4 DEF Conversation, InSession
  <2>2. QED
    BY <1>1, <2>1
<1>5. CASE (svr \notin Strangers)'
  <2>1. Turn'
    BY <1>5 DEF Conversation, InSession
  <2>2. CASE pc' = "loop"
    BY <1>2, <2>1, <2>2 DEF Turn
  <2>3. CASE pc' = "decode"
    BY <1>3, <2>1, <2>3
  <2>4. QED
    BY <2>2, <2>3
<1>6. QED
  BY <1>4, <1>5

LEMMA HandleDataInv ==
  ASSUME IInv, Conversation, SameWorld, HandleData
  PROVE  IInv'
<1> DEFINE f == Head(toClt)
<1>1. /\ pc = "loop" /\ pc \in InSession /\ toClt # <<>> /\ f.kind = "data"
      /\ toClt' = Tail(toClt)
      /\ UNCHANGED <<config, caller, buff, DN, dnbuff, start_svrdata, pCardMsg,
                     devices, nearSide, conn, svr, upl>>
      /\ pc' \in {"loop", "decode"} /\ UNCHANGED <<ret, lastErr>>
  BY DEF HandleData, Goto, InSession
<1>2. piclen' \in 0..CARD_PHOTO_LEN
  BY <1>1, DataStepConv, PhotoFits
<1>3. f.ok => /\ f.no \in 1..3 /\ f.sess \in Nat
              /\ DataAck[f.no] \in CltCmds
  BY <1>1, DataFrame DEF IInv, TypeOK
<1>4. toSvr' \in Seq(Msgs)
  <2>1. CASE f.ok
    <3>1. SendData(Msg(DataAck[f.no], Half(0, NoBlob)))
      BY <2>1 DEF HandleData, NoBody, Whole
    <3>2. QED
      BY <1>3, <2>1, <3>1, Sends, EmptyTypes
  <2>2. CASE ~f.ok
    BY <1>1, <2>2, AtSession DEF HandleData
  <2>3. QED
    BY <2>1, <2>2
<1>5. cardInfo' \in Nat /\ pic' \in Nat \X Nat
  <2>1. cardInfo \in Nat /\ pic \in Nat \X Nat
    BY DEF IInv, TypeOK, TypeLocals
  <2>2. CASE f.ok
    BY <1>3, <2>1, <2>2 DEF HandleData
  <2>3. CASE ~f.ok
    BY <2>1, <2>3 DEF HandleData
  <2>4. QED
    BY <2>2, <2>3
<1>6. TypeLocals'
  BY <1>1, <1>2, <1>5 DEF IInv, TypeOK, TypeLocals
<1>7. TypeNetwork'
  BY <1>1, <1>4, AtSession DEF IInv, TypeOK, TypeNetwork
<1>8. QED
  BY <1>1, <1>6, <1>7, AtSession, SessionStepInv DEF nearSide, card, InSession

LEMMA FinishInv ==
  ASSUME IInv, Conversation, Finish
  PROVE  IInv'
<1>1. /\ pc = "decode" /\ pc' = "done" /\ ret' = 0 /\ lastErr' = lastErr
      /\ DisconnectServer /\ CloseNFCDev
      /\ UNCHANGED <<config, caller, buff, DN, dnbuff, start_svrdata, cardInfo,
                     pic, piclen, authSock, card>>
      /\ pCardMsg' = [dn |-> DN, info |-> cardInfo,
                      photo |-> IF piclen = CARD_PHOTO_LEN THEN pic ELSE <<0, 0>>]
  BY DEF Finish, DeliveredDN
<1>2. pCardMsg' \in CardMsgs
  BY <1>1 DEF IInv, TypeOK, TypeLocals, CardMsgs
<1>3. pCardMsg' # NoMsg
  <2>1. DN.file = "f6002" /\ NoBlob.file = "none"
    BY <1>1, ReaderSide DEF Blob, NoBlob
  <2>2. pCardMsg'.dn = DN
    BY <1>1
  <2>3. QED
    BY <2>1, <2>2, EmptyTypes
<1>4. QED
  BY <1>1, <1>2, <1>3, LeaveInv DEF InSession

LEMMA ReaderInv ==
  ASSUME IInv, Conversation, Reader, SameWorld
  PROVE  IInv'
<1>1. CASE HandleBadType
  BY <1>1, AbortInv, CodesAreErrors DEF HandleBadType, InSession
<1>2. QED
  BY <1>1, SerialInv, VerifyInv, OpenDevInv, SearchCardInv, ConnectInv,
     OpeningInv, HandlersInv, HandleDataInv, FinishInv, CallerReturnInv DEF Reader

LEMMA NextInv ==
  ASSUME IInv, Conversation, [Next]_vars
  PROVE  IInv'
<1>1. CASE NFCCardReader \/ GetDevSerialNo
  BY <1>1, CallInv DEF NFCCardReader, GetDevSerialNo
<1>2. CASE Server \/ Around
  <2>1. TypeNetwork /\ sid \in Nat
    BY DEF IInv, TypeOK, TypeSockets
  <2>2. /\ UNCHANGED others
        /\ SvrGreet \/ SvrHandle \/ StrangerSends \/ NetDrop
    BY <1>2 DEF Server, Around
  <2>3. QED
    BY <2>1, <2>2, FarSideTypes, NetworkStepInv
<1>3. CASE UNCHANGED vars
  <2>1. UNCHANGED others /\ UNCHANGED nearSide /\ TypeNetwork'
    BY <1>3 DEF vars, network, IInv, TypeOK, TypeNetwork
  <2>2. QED
    BY <2>1, NetworkStepInv
<1>4. QED
  BY <1>1, <1>2, <1>3, ConfigureInv, ReaderInv DEF Next

-----------------------------------------------------------------------------
(* The steps of a session, seen from outside: each stays in it or gives up *)
(* with a code whose cause may happen in this world                        *)

Within ==
  /\ pc' \in InSession
  /\ UNCHANGED <<config, caller, pCardMsg, m_iSock, sockets>>

SessionCodes == {NETRECV_ERROR, NETSEND_ERROR, NFCREADCARD_ERROR, INVALIDNETCMD}

GivesUp ==
  \E c \in SessionCodes : Abort(c) /\ Causes(c) \cap Faults # {}

\* A failed card command.
LEMMA CardGivesUp ==
  ASSUME CardFails, Abort(NFCREADCARD_ERROR)
  PROVE  GivesUp
BY CausesAre DEF GivesUp, SessionCodes, CardFails

LEMMA SendGivesUp ==
  ASSUME Conversation, pc \in InSession, SendFails, Abort(NETSEND_ERROR)
  PROVE  GivesUp
BY SendFailsFrom DEF GivesUp, SessionCodes

LEMMA OpeningOutcome ==
  ASSUME Conversation, RecvBanner \/ SendSerial \/ ReadDN \/ SendStart \/ RecvFail
  PROVE  Within \/ GivesUp
<1>1. CASE RecvBanner
  BY <1>1 DEF RecvBanner, BannerRejected, Within, Goto, InSession, locals,
              nearSide, sockets
<1>2. CASE SendSerial \/ SendStart
  <2>1. pc \in InSession
    BY <1>2 DEF SendSerial, SendStart, InSession
  <2>2. \/ SendFails /\ Abort(NETSEND_ERROR)
        \/ Within
    BY <1>2 DEF SendSerial, SendStart, Within, Goto, InSession, locals, nearSide,
                sockets
  <2>3. QED
    BY <2>1, <2>2, SendGivesUp
<1>3. CASE ReadDN
  <2>1. \/ CardFails /\ Abort(NFCREADCARD_ERROR)
        \/ Within
    BY <1>3 DEF ReadDN, Within, Goto, InSession
  <2>2. QED
    BY <2>1, CardGivesUp
<1>4. CASE RecvFail
  <2>1. Causes(NETRECV_ERROR) \cap Faults # {} /\ Abort(NETRECV_ERROR)
    BY <1>4, RecvFailsFrom DEF RecvFail
  <2>2. QED
    BY <2>1 DEF GivesUp, SessionCodes
<1>5. QED
  BY <1>1, <1>2, <1>3, <1>4

\* A malformed command comes from a stranger, a failed card command from the
\* card, a rejected authentication from the card too.
LEMMA HandlersOutcome ==
  ASSUME Conversation,
         \/ HandleIncert \/ HandleOutcert \/ HandleMsgAck \/ HandlePhotoAck1
         \/ HandlePhotoAck2 \/ HandleFingerAck1 \/ HandleFingerAck2
         \/ HandleOtherCmd \/ HandleData \/ HandleBadType
  PROVE  Within \/ GivesUp
<1>1. pc = "loop" /\ toClt # <<>>
  BY DEF HandleIncert, HandleOutcert, HandleMsgAck, HandlePhotoAck1, HandleAck1,
         HandlePhotoAck2, HandleFingerAck1, HandleFingerAck2, HandleOtherCmd,
         HandleData, HandleBadType, Handle, RecvCmd
<1>2. ASSUME ~Head(toClt).ok \/ Head(toClt).kind = "bad", Abort(INVALIDNETCMD)
      PROVE  GivesUp
  BY <1>1, <1>2, InvalidFrom DEF GivesUp, SessionCodes
<1>3. ASSUME CardFails, Abort(NFCREADCARD_ERROR) PROVE GivesUp
  BY <1>3, CardGivesUp
<1>4. ASSUME SendFails, Abort(NETSEND_ERROR) PROVE GivesUp
  BY <1>1, <1>4, SendGivesUp DEF InSession
<1>5. OutcertRejected => GivesUp
  BY CausesAre DEF OutcertRejected, GivesUp, SessionCodes
<1>6. LoopAgain => Within
  BY DEF LoopAgain, Goto, Within, InSession
<1>7. CASE HandleIncert \/ HandleMsgAck \/ HandlePhotoAck2
  BY <1>2, <1>3, <1>4, <1>6, <1>7 DEF HandleIncert, HandleMsgAck, HandlePhotoAck2
<1>8. CASE HandleOutcert
  BY <1>2, <1>3, <1>5, <1>6, <1>8 DEF HandleOutcert, OutcertAccepted
<1>9. CASE HandlePhotoAck1 \/ HandleFingerAck1 \/ HandleFingerAck2 \/ HandleOtherCmd
  BY <1>6, <1>9 DEF HandlePhotoAck1, HandleFingerAck1, HandleAck1,
                    HandleFingerAck2, HandleOtherCmd
<1>10. CASE HandleData
  BY <1>10 DEF HandleData, Within, Goto, InSession, nearSide, sockets
<1>11. CASE HandleBadType
  BY <1>2, <1>11 DEF HandleBadType
<1>12. QED
  BY <1>7, <1>8, <1>9, <1>10, <1>11

\* The steps that a session consists of, without its beginning and its end.
InsideSession ==
  \/ RecvBanner \/ SendSerial \/ ReadDN \/ SendStart \/ RecvFail
  \/ HandleIncert \/ HandleOutcert \/ HandleMsgAck \/ HandlePhotoAck1
  \/ HandlePhotoAck2 \/ HandleFingerAck1 \/ HandleFingerAck2
  \/ HandleOtherCmd \/ HandleData \/ HandleBadType

LEMMA SessionOutcome ==
  ASSUME Conversation, InsideSession
  PROVE  pc \in InSession /\ (Within \/ GivesUp)
<1>1. pc \in InSession
  BY DEF InsideSession, RecvBanner, SendSerial, ReadDN, SendStart, RecvFail,
         HandleIncert, HandleOutcert, HandleMsgAck, HandlePhotoAck1, HandleAck1,
         HandlePhotoAck2, HandleFingerAck1, HandleFingerAck2, HandleOtherCmd,
         HandleData, HandleBadType, Handle, InSession
<1>2. Within \/ GivesUp
  BY OpeningOutcome, HandlersOutcome DEF InsideSession
<1>3. QED
  BY <1>1, <1>2

-----------------------------------------------------------------------------
(* What is delivered                                                       *)

\* Nothing, or all of the session of the last connection.
OfLastSession(m) ==
  m # NoMsg =>
    m = [dn |-> Blob("f6002", m_iSock), info |-> m_iSock,
         photo |-> <<m_iSock, m_iSock>>]

Delivered == OfLastSession(pCardMsg) /\ OfLastSession(card_data)

\* A connection is made only where nothing has been delivered, and what is
\* delivered is made where all of it is of the session.
LEMMA DeliveredStep ==
  ASSUME IInv, Conversation, Delivered, [Next]_vars
  PROVE  Delivered'
<1>1. ASSUME pCardMsg' \in {pCardMsg, NoMsg},
             card_data' \in {card_data, NoMsg, pCardMsg},
             UNCHANGED m_iSock
      PROVE  Delivered'
  BY <1>1 DEF Delivered, OfLastSession
<1>2. CASE Configure \/ NFCCardReader \/ GetDevSerialNo \/ CallerReturn
  BY <1>1, <1>2 DEF Configure, NFCCardReader, GetDevSerialNo, Call, CallerReturn,
                    caller, locals, nearSide
<1>3. CASE \/ OpenForSerial \/ ReadSerial \/ VerifyConnect \/ VerifyReply
           \/ OpenDev \/ SearchCard
  BY <1>1, <1>3 DEF OpenForSerial, ReadSerial, VerifyConnect, VerifyReply,
                    OpenDev, SearchCard, caller, locals, nearSide
<1>4. CASE Connect
  <2>1. /\ pc = "connect" /\ UNCHANGED <<pCardMsg, card_data>>
    BY <1>4 DEF Connect, caller, locals
  <2>2. asked = "read"
    BY <2>1 DEF IInv, TypeOK, TypeReader, Control
  <2>3. pCardMsg = NoMsg /\ card_data = NoMsg
    BY <2>1, <2>2 DEF IInv, Control
  <2>4. QED
    BY <2>1, <2>3 DEF Delivered, OfLastSession
<1>5. CASE InsideSession
  <2>1. GivesUp => UNCHANGED <<pCardMsg, card_data, m_iSock>>
    BY DEF GivesUp, Abort, DisconnectServer, locals, caller
  <2>2. QED
    BY <1>1, <1>5, <2>1, SessionOutcome DEF Within, caller
<1>6. CASE Finish
  <2>1. /\ pc = "decode" /\ UNCHANGED <<card_data, m_iSock>>
    BY <1>6 DEF Finish, caller, DisconnectServer
  <2>2. /\ DN = Blob("f6002", m_iSock) /\ cardInfo = m_iSock
        /\ pic[1] = m_iSock /\ pic[2] = m_iSock /\ piclen = CARD_PHOTO_LEN
    BY <2>1, ReaderSide
  <2>3. pic = <<m_iSock, m_iSock>>
    BY <2>2 DEF IInv, TypeOK, TypeLocals
  <2>4. OfLastSession(pCardMsg)'
    BY <1>6, <2>1, <2>2, <2>3 DEF Finish, DeliveredDN, OfLastSession
  <2>5. QED
    BY <2>1, <2>4 DEF Delivered, OfLastSession
<1>7. CASE Server \/ Around \/ UNCHANGED vars
  <2>1. UNCHANGED others /\ UNCHANGED nearSide
    BY <1>7 DEF Server, Around, SvrGreet, SvrHandle, StrangerSends, NetDrop, vars
  <2>2. QED
    BY <1>1, <2>1 DEF others, caller, locals, nearSide
<1>8. QED
  BY <1>2, <1>3, <1>4, <1>5, <1>6, <1>7 DEF Next, Reader, InsideSession

-----------------------------------------------------------------------------
(* What a failure is blamed on                                             *)

\* UNKNOWN_ERROR and GETSERIAL_FAIL may mean that there is no description of
\* the device; the others always accuse the world.
LEMMA OtherCodes ==
  /\ {NETCONNECT_ERROR, NFCOPEN_ERROR, SEARCHCARD_FAIL, AUTHOR_FAIL}
       \cap {UNKNOWN_ERROR, GETSERIAL_FAIL} = {}
  /\ SessionCodes \cap {UNKNOWN_ERROR, GETSERIAL_FAIL} = {}
  /\ UNKNOWN_ERROR # GETSERIAL_FAIL
BY DEF SessionCodes, NETCONNECT_ERROR, NETRECV_ERROR, NETSEND_ERROR,
       NFCOPEN_ERROR, NFCREADCARD_ERROR, SEARCHCARD_FAIL, INVALIDNETCMD,
       AUTHOR_FAIL, UNKNOWN_ERROR, GETSERIAL_FAIL

\* A call that fails with a code whose cause may happen in this world.
LEMMA Blamed ==
  ASSUME lastErr' \notin {UNKNOWN_ERROR, GETSERIAL_FAIL},
         Causes(lastErr') \cap Faults # {}, SameWorld
  PROVE  CodeNamesCause'
BY DEF CodeNamesCause, SameWorld, Causes

LEMMA NotDone ==
  ASSUME pc' # "done" \/ ret' = 0
  PROVE  CodeNamesCause'
BY DEF CodeNamesCause

\* The serial number: no description, a board that cannot be opened, or one
\* that does not give its number.
LEMMA SerialBlames ==
  ASSUME SameWorld, OpenForSerial \/ ReadSerial
  PROVE  CodeNamesCause'
<1>1. CASE pc' # "done" \/ ret' = 0
  BY <1>1, NotDone
<1>2. CASE ~m_nfcParam /\ OpenForSerial /\ NoSerialNo(UNKNOWN_ERROR)
  BY <1>2, OtherCodes DEF OpenForSerial, NoSerialNo, Fail, config, CodeNamesCause
<1>3. CASE BoardFails /\ NoSerialNo(NFCOPEN_ERROR)
  <2>1. "device" \in Faults /\ lastErr' \in {NFCOPEN_ERROR, GETSERIAL_FAIL}
    BY <1>3 DEF BoardFails, NoSerialNo, Fail
  <2>2. lastErr' # UNKNOWN_ERROR
    BY <2>1, OtherCodes DEF UNKNOWN_ERROR, NFCOPEN_ERROR
  <2>3. Causes(lastErr') \cap Faults # {}
    BY <2>1, CausesAre
  <2>4. QED
    BY <2>2, <2>3 DEF CodeNamesCause, SameWorld, Causes
<1>4. QED
  BY <1>1, <1>2, <1>3 DEF OpenForSerial, ReadSerial, Goto

LEMMA BlameStep ==
  ASSUME IInv, Conversation, CodeNamesCause, [Next]_vars
  PROVE  CodeNamesCause'
<1>1. CASE Configure \/ NFCCardReader \/ GetDevSerialNo \/ CallerReturn \/ Finish
  <2>1. pc' # "done" \/ ret' = 0
    BY <1>1 DEF Configure, NFCCardReader, GetDevSerialNo, Call, CallerReturn,
                Finish, control
  <2>2. QED
    BY <2>1, NotDone
<1>2. CASE (VerifyConnect \/ VerifyReply) /\ SameWorld
  <2>1. pc' # "done" \/ ("auth" \in Faults /\ lastErr' = AUTHOR_FAIL)
    BY <1>2 DEF VerifyConnect, VerifyReply, Goto, Fail
  <2>2. QED
    BY <1>2, <2>1, CausesAre, NotDone, Blamed, OtherCodes
<1>3. CASE OpenDev /\ SameWorld
  <2>1. pc' # "done" \/ ("device" \in Faults /\ lastErr' = NFCOPEN_ERROR)
    BY <1>3 DEF OpenDev, BoardFails, Goto, Fail
  <2>2. QED
    BY <1>3, <2>1, CausesAre, NotDone, Blamed, OtherCodes
<1>4. CASE SearchCard /\ SameWorld
  <2>1. pc' # "done" \/ ("card" \in Faults /\ lastErr' = SEARCHCARD_FAIL)
    BY <1>4 DEF SearchCard, NoCard, CardFails, Goto, Fail
  <2>2. QED
    BY <1>4, <2>1, CausesAre, NotDone, Blamed, OtherCodes
<1>5. CASE Connect /\ SameWorld
  <2>1. pc' # "done" \/ ("connect" \in Faults /\ lastErr' = NETCONNECT_ERROR)
    BY <1>5 DEF Connect, ConnectFails, Goto, Fail
  <2>2. QED
    BY <1>5, <2>1, CausesAre, NotDone, Blamed, OtherCodes
<1>6. CASE InsideSession /\ SameWorld
  <2>1. CASE Within
    BY <2>1, NotDone DEF Within, InSession
  <2>2. CASE GivesUp
    <3>1. lastErr' \in SessionCodes /\ Causes(lastErr') \cap Faults # {}
      BY <2>2 DEF GivesUp, Abort, Fail
    <3>2. QED
      BY <1>6, <3>1, Blamed, OtherCodes
  <2>3. QED
    BY <1>6, <2>1, <2>2, SessionOutcome
<1>7. CASE ((Server \/ Around) /\ SameWorld) \/ UNCHANGED vars
  <2>1. UNCHANGED <<pc, ret, lastErr, m_nfcParam, Faults>>
    BY <1>7 DEF SameWorld, Server, Around, others, control, config, vars
  <2>2. QED
    BY <2>1 DEF CodeNamesCause, Causes
<1>8. QED
  BY <1>1, <1>2, <1>3, <1>4, <1>5, <1>6, <1>7, SerialBlames
     DEF Next, Reader, InsideSession

-----------------------------------------------------------------------------
(* The invariant, and what follows from it                                 *)

SessionInv == IInv /\ Conversation /\ Delivered /\ CodeNamesCause

LEMMA Invariance == Spec => []SessionInv
<1>1. Init => SessionInv
  BY InitInv, InitConv
     DEF SessionInv, Delivered, OfLastSession, CodeNamesCause, Init
<1>2. SessionInv /\ [Next]_vars => SessionInv'
  BY NextInv, NextConv, DeliveredStep, BlameStep DEF SessionInv
<1>3. QED
  BY <1>1, <1>2, PTL DEF Spec

\* Every variable keeps its type; the photo never gets more bytes than it
\* holds.
THEOREM TypeCorrect == Spec => []TypeOK
<1>1. SessionInv => TypeOK
  BY DEF SessionInv, IInv
<1>2. QED
  BY <1>1, Invariance, PTL

\* The board and the socket are given back on every path of both calls.
THEOREM BoardAndSocketGivenBack == Spec => []GivenBack
<1>1. SessionInv => GivenBack
  BY DEF SessionInv, IInv
<1>2. QED
  BY <1>1, Invariance, PTL

\* A failure leaves a documented code that names its cause, and code 0 comes
\* with data, and only then.
THEOREM ResultContractHolds == Spec => []ResultContract
<1>1. SessionInv => ResultContract
  BY DEF SessionInv, IInv, ResultContract
<1>2. QED
  BY <1>1, Invariance, PTL

\* What the server decodes, and what the caller gets for it, are each of one
\* session.
THEOREM OneSessionHolds == Spec => []OneSession
<1>1. SessionInv => OneSession
  BY ServerSide DEF SessionInv, Delivered, OfLastSession, OneSession, DeliveredWhole
<1>2. QED
  BY <1>1, Invariance, PTL

\* The server never gets a message it does not expect, but for one that the
\* card refused to give an answer for.
THEOREM StaysInStep == Spec => []InStep
<1>1. SessionInv => InStep
  BY ServerSide DEF SessionInv
<1>2. QED
  BY <1>1, Invariance, PTL

-----------------------------------------------------------------------------
(* The reader implements CardReadSpec with a single attempt                *)

Stutter == UNCHANGED CardRead!vars

\* A step that neither begins nor ends a read, nor touches its connection.
LEMMA Invisible ==
  ASSUME UNCHANGED <<code, card_data>>, UNCHANGED ReadPhase, UNCHANGED ReadHolds
  PROVE  Stutter
BY DEF Stutter, CardRead!vars

LEMMA Failing ==
  ASSUME asked = "read", pc \notin {"idle", "done"}, pc' = "done", ret' = -1,
         UNCHANGED <<asked, code, card_data>>, ReadHolds' = FALSE
  PROVE  CardRead!GiveUp
BY DEF CardRead!GiveUp, ReadPhase

\* The steps of a session that stay in it are invisible, the others give up.
LEMMA SessionRefines ==
  ASSUME SessionInv, InsideSession
  PROVE  CardRead!GiveUp \/ Stutter
<1>1. pc \in InSession /\ asked = "read"
  BY SessionOutcome, InRead DEF SessionInv
<1>2. CASE Within
  <2>1. UNCHANGED ReadPhase /\ UNCHANGED ReadHolds
    BY <1>1, <1>2 DEF Within, caller, sockets, ReadPhase, ReadHolds, InSession
  <2>2. QED
    BY <1>2, <2>1, Invisible DEF Within, caller
<1>3. CASE GivesUp
  <2>1. /\ pc' = "done" /\ ret' = -1 /\ UNCHANGED caller
        /\ open' = open \ {m_iSock} /\ m_iSock' = m_iSock
    BY <1>3 DEF GivesUp, Abort, Fail, DisconnectServer
  <2>2. ReadHolds' = FALSE
    BY <2>1 DEF ReadHolds
  <2>3. QED
    BY <1>1, <2>1, <2>2, Failing DEF caller, InSession
<1>4. QED
  BY <1>2, <1>3, SessionOutcome DEF SessionInv

\* Outside a session, and in verify_serial, no connection is held.
LEMMA NothingHeld ==
  ASSUME IInv, pc \notin InSession
  PROVE  ReadHolds = FALSE
BY DEF IInv, GivenBack, SocketsBalanced, Control, ReadHolds

\* A call for the serial number leaves no trace; that of a read continues or
\* gives up.
LEMMA PreludeRefines ==
  ASSUME SessionInv,
         \/ OpenForSerial \/ ReadSerial \/ VerifyConnect \/ VerifyReply
         \/ OpenDev \/ SearchCard
  PROVE  CardRead!GiveUp \/ Stutter
<1>1. /\ pc \notin InSession \cup {"idle", "done"} /\ pc' \notin InSession \cup {"idle"}
      /\ pc' = "done" => ret' = -1 \/ asked = "serial"
      /\ UNCHANGED <<caller, m_iSock>>
  BY DEF OpenForSerial, ReadSerial, VerifyConnect, VerifyReply, OpenDev,
         SearchCard, NoSerialNo, NoCard, Goto, Fail, InSession, nearSide
<1>2. ReadHolds = FALSE
  BY <1>1, NothingHeld DEF SessionInv
<1>3. ReadHolds' = FALSE
  <2>1. m_iSock \notin open /\ m_iSock # sid + 1
    BY <1>2 DEF ReadHolds, SessionInv, IInv, TypeOK, TypeSockets
  <2>2. open' \in {open, open \cup {sid + 1}, open \ {authSock}}
    BY DEF OpenForSerial, ReadSerial, VerifyConnect, VerifyReply, OpenDev,
           SearchCard, AuthConnect, AuthDisconnect, nearSide, sockets
  <2>3. QED
    BY <1>1, <2>1, <2>2 DEF ReadHolds
<1>4. asked \in {"read", "serial"}
  BY <1>1 DEF SessionInv, IInv, TypeOK, TypeReader, Control
<1>5. CASE asked = "serial" \/ pc' # "done"
  <2>1. UNCHANGED ReadPhase
    BY <1>1, <1>5 DEF ReadPhase, caller
  <2>2. QED
    BY <1>1, <1>2, <1>3, <2>1, Invisible DEF caller
<1>6. CASE asked = "read" /\ pc' = "done"
  BY <1>1, <1>3, <1>6, Failing DEF caller
<1>7. QED
  BY <1>4, <1>5, <1>6

\* The single attempt: a connection, or the end.
LEMMA ConnectRefines ==
  ASSUME SessionInv, Connect
  PROVE  CardRead!Attempt \/ CardRead!GiveUp
<1>1. pc = "connect" /\ UNCHANGED caller
  BY DEF Connect
<1>2. ReadHolds = FALSE /\ open = {}
  BY <1>1, NothingHeld DEF SessionInv, IInv, GivenBack, SocketsBalanced, InSession
<1>3. asked = "read"
  BY <1>1 DEF SessionInv, IInv, TypeOK, TypeReader, Control
<1>4. CASE ConnectServer /\ Goto("banner")
  <2>1. ReadHolds' = TRUE /\ pc' = "banner"
    BY <1>4 DEF ReadHolds, ConnectServer, Goto
  <2>2. ReadPhase = "reading" /\ ReadPhase' = "reading"
    BY <1>1, <1>3, <2>1 DEF ReadPhase, caller
  <2>3. CardRead!Attempt
    BY <1>1, <1>2, <2>1, <2>2 DEF CardRead!Attempt, caller
  <2>4. QED
    BY <2>3
<1>5. CASE ConnectFails /\ Fail(NETCONNECT_ERROR)
  <2>1. ReadHolds' = FALSE /\ pc' = "done" /\ ret' = -1
    BY <1>2, <1>5 DEF ReadHolds, ConnectFails, Fail, sockets
  <2>2. QED
    BY <1>1, <1>3, <2>1, Failing DEF caller
<1>6. QED
  BY <1>4, <1>5 DEF Connect

LEMMA FinishRefines ==
  ASSUME SessionInv, Finish
  PROVE  CardRead!Succeed
<1>1. /\ pc = "decode" /\ pc' = "done" /\ ret' = 0 /\ UNCHANGED caller
      /\ open' = open \ {m_iSock} /\ m_iSock' = m_iSock
  BY DEF Finish, DisconnectServer
<1>2. open = {m_iSock} /\ asked = "read"
  BY <1>1, InRead DEF SessionInv, InSession
<1>3. ReadHolds = TRUE /\ ReadHolds' = FALSE
  BY <1>1, <1>2 DEF ReadHolds
<1>4. ReadPhase = "reading" /\ ReadPhase' = "ok"
  BY <1>1, <1>2 DEF ReadPhase, caller
<1>5. QED
  BY <1>1, <1>3, <1>4 DEF CardRead!Succeed, caller

\* A read begins; a call for the serial number does not show.
LEMMA CallRefines ==
  ASSUME SessionInv, NFCCardReader \/ GetDevSerialNo
  PROVE  CardRead!Begin \/ Stutter
<1>1. /\ pc = "idle" /\ pc' = "serialopen" /\ UNCHANGED <<code, m_iSock, open>>
      /\ \/ asked' = "read" /\ card_data' = NoMsg
         \/ asked' = "serial" /\ card_data' = card_data
  BY DEF NFCCardReader, GetDevSerialNo, Call, sockets
<1>2. UNCHANGED ReadHolds
  BY <1>1 DEF ReadHolds
<1>3. CASE asked' = "read" /\ card_data' = NoMsg
  <2>1. ReadPhase = "idle" /\ ReadPhase' = "reading"
    BY <1>1, <1>3 DEF ReadPhase
  <2>2. QED
    BY <1>1, <1>2, <1>3, <2>1 DEF CardRead!Begin
<1>4. CASE asked' = "serial" /\ card_data' = card_data
  <2>1. ReadPhase = "idle" /\ ReadPhase' = "idle"
    BY <1>1, <1>4 DEF ReadPhase
  <2>2. QED
    BY <1>1, <1>2, <1>4, <2>1, Invisible
<1>5. QED
  BY <1>1, <1>3, <1>4

LEMMA ReturnRefines ==
  ASSUME SessionInv, CallerReturn
  PROVE  CardRead!Return \/ Stutter
<1>1. /\ pc = "done" /\ pc' = "idle" /\ UNCHANGED <<m_iSock, open>>
      /\ \/ asked = "serial" /\ UNCHANGED <<code, card_data>>
         \/ /\ asked = "read"
            /\ IF ret = 0 THEN code' = 0 /\ card_data' = pCardMsg
                          ELSE code' = lastErr /\ card_data' = card_data
  BY DEF CallerReturn, nearSide, sockets
<1>2. UNCHANGED ReadHolds /\ ReadPhase' = "idle"
  BY <1>1 DEF ReadHolds, ReadPhase
<1>3. CASE asked = "serial" /\ UNCHANGED <<code, card_data>>
  <2>1. ReadPhase = "idle"
    BY <1>3 DEF ReadPhase
  <2>2. QED
    BY <1>2, <1>3, <2>1, Invisible
<1>4. CASE asked = "read" /\ ret = 0
  <2>1. ReadPhase = "ok" /\ pCardMsg # NoMsg
    BY <1>1, <1>4 DEF ReadPhase, SessionInv, IInv, Control
  <2>2. QED
    BY <1>1, <1>2, <1>4, <2>1 DEF CardRead!Return
<1>5. CASE asked = "read" /\ ret # 0
  <2>1. ReadPhase = "failed"
    BY <1>1, <1>5 DEF ReadPhase
  <2>2. card_data = NoMsg /\ lastErr \in ErrorCodes
    BY <1>1, <1>5, CodesAreErrors DEF SessionInv, IInv, Control
  <2>3. QED
    BY <1>1, <1>2, <1>5, <2>1, <2>2 DEF CardRead!Return
<1>6. QED
  BY <1>1, <1>3, <1>4, <1>5

LEMMA OutsideInvisible ==
  ASSUME Configure \/ Server \/ Around \/ UNCHANGED vars
  PROVE  Stutter
<1>1. UNCHANGED <<pc, ret, asked, code, card_data, m_iSock, open>>
  <2>1. CASE Configure
    BY <2>1 DEF Configure, caller, control, nearSide, sockets
  <2>2. CASE UNCHANGED others /\ UNCHANGED nearSide
    BY <2>2 DEF others, caller, control, nearSide, sockets
  <2>3. QED
    BY <2>1, <2>2 DEF Server, Around, SvrGreet, SvrHandle, StrangerSends,
                      NetDrop, vars
<1>2. QED
  BY <1>1, Invisible DEF ReadPhase, ReadHolds

LEMMA StepRefines == SessionInv /\ [Next]_vars => [CardRead!Next]_(CardRead!vars)
<1> SUFFICES ASSUME SessionInv, [Next]_vars PROVE CardRead!Next \/ Stutter
  BY DEF Stutter
<1>1. CASE Configure \/ Server \/ Around \/ UNCHANGED vars
  BY <1>1, OutsideInvisible
<1>2. CASE NFCCardReader \/ GetDevSerialNo \/ Finish \/ CallerReturn
  BY <1>2, CallRefines, FinishRefines, ReturnRefines DEF CardRead!Next
<1>3. CASE \/ OpenForSerial \/ ReadSerial \/ VerifyConnect \/ VerifyReply
           \/ OpenDev \/ SearchCard \/ Connect \/ InsideSession
  BY <1>3, PreludeRefines, ConnectRefines, SessionRefines DEF CardRead!Next
<1>4. QED
  BY <1>1, <1>2, <1>3 DEF Next, Reader, InsideSession

LEMMA InitRefines == Init => CardRead!Init
BY DEF Init, SurroundingsInit, CardRead!Init, ReadPhase, ReadHolds

\* The reader implements the service of CardReadSpec.
THEOREM ImplementsCardRead == Spec => ReadService
BY Invariance, InitRefines, StepRefines, PTL DEF Spec, ReadService, CardRead!Spec

-----------------------------------------------------------------------------
(* A call gets shorter with every step                                     *)

\* How far the caller's thread is from the end of its call.
Place ==
  CASE pc = "serialopen" -> 14 [] pc = "serialread" -> 13 [] pc = "verify"  -> 12
    [] pc = "verifyrecv" -> 11 [] pc = "opendev"    -> 10 [] pc = "search"  -> 9
    [] pc = "connect"    -> 8  [] pc = "banner"     -> 7  [] pc = "serial"  -> 6
    [] pc = "dn"         -> 5  [] pc = "start"      -> 4  [] pc = "loop"    -> 3
    [] pc = "decode"     -> 2  [] pc = "done"       -> 1  [] OTHER -> 0

\* What is left of a call: the steps of its thread, then what the far end can
\* still say in it.
Remaining == 1000 * Place + NetworkLeft

Shortens ==
  pc # "idle" => pc' = "idle" \/ Remaining' \in 0..(Remaining - 1)

\* Two ways to come nearer the end: the thread moves on, or it stays where it
\* is and the conversation gets shorter.
MovesOn == Place' < Place /\ NetworkLeft' <= NetworkLeft + 181
TalksOn == Place' = Place /\ NetworkLeft' < NetworkLeft

LEMMA PlaceType == Place \in 0..14
BY DEF Place

LEMMA PlaceNext == (Place \in 0..14)'
BY PlaceType, PTL

LEMMA NearerEnd ==
  ASSUME TypeOK, TypeOK', MovesOn \/ TalksOn
  PROVE  Remaining' \in 0..(Remaining - 1)
<1>1. /\ NetworkLeft \in Nat /\ NetworkLeft' \in Nat
      /\ Place \in 0..14 /\ Place' \in 0..14
  BY MeasuredFacts, MeasuredNext, PlaceType, PlaceNext DEF TypeOK
<1>2. PICK p \in 0..14, n \in Nat : p = Place /\ n = NetworkLeft
  BY <1>1
<1>3. PICK p2 \in 0..14, n2 \in Nat : p2 = Place' /\ n2 = NetworkLeft'
  BY <1>1
<1>4. Remaining = 1000 * p + n
  BY <1>2 DEF Remaining
<1>5. Remaining' = 1000 * p2 + n2
  BY <1>3 DEF Remaining
<1>6. \/ p2 < p /\ n2 <= n + 181
      \/ p2 = p /\ n2 < n
  BY <1>2, <1>3 DEF MovesOn, TalksOn
<1>7. 1000 * p2 + n2 \in 0..(1000 * p + n - 1)
  BY <1>6
<1>8. QED
  BY <1>4, <1>5, <1>7

\* A conversation that ended, one that just began and an untouched one.
LEMMA LeavingMoves ==
  ASSUME TypeOK, DisconnectServer, Place' < Place
  PROVE  MovesOn
<1>1. NetworkLeft \in Nat
  BY MeasuredFacts DEF TypeOK
<1>2. NetworkLeft' = 0
  BY DisconnectingLeft
<1>3. PICK n \in Nat : n = NetworkLeft
  BY <1>1
<1>4. QED
  BY <1>2, <1>3 DEF MovesOn

LEMMA QuietMoves ==
  ASSUME TypeOK, UNCHANGED network, Place' < Place
  PROVE  MovesOn
<1>1. NetworkLeft \in Nat
  BY MeasuredFacts DEF TypeOK
<1>2. PICK n \in Nat : n = NetworkLeft
  BY <1>1
<1>3. NetworkLeft' = n
  BY <1>2 DEF network, NetworkLeft, UpLeft, Incoming
<1>4. QED
  BY <1>2, <1>3 DEF MovesOn

LEMMA AbortMoves ==
  ASSUME TypeOK, NEW c, Abort(c), pc \notin {"idle", "done"}
  PROVE  MovesOn
<1>1. pc' = "done" /\ DisconnectServer
  BY DEF Abort, Fail
<1>2. pc \in InSession \cup {"serialopen", "serialread", "verify", "verifyrecv",
                           "opendev", "search", "connect"}
  BY DEF TypeOK, TypeReader, Alone, HasDevice
<1>3. Place' < Place
  BY <1>1, <1>2 DEF Place, InSession
<1>4. QED
  BY <1>1, <1>3, LeavingMoves

\* Up to the connection.
LEMMA PreludeMoves ==
  ASSUME TypeOK, \/ OpenForSerial \/ ReadSerial \/ VerifyConnect \/ VerifyReply
                 \/ OpenDev \/ SearchCard
  PROVE  MovesOn
<1>1. UNCHANGED network
  BY DEF OpenForSerial, ReadSerial, VerifyConnect, VerifyReply, OpenDev, SearchCard
<1>2. \/ pc = "serialopen" /\ pc' \in {"serialread", "done"}
      \/ pc = "serialread" /\ pc' \in {"verify", "opendev", "done"}
      \/ pc = "verify" /\ pc' \in {"verifyrecv", "done"}
      \/ pc = "verifyrecv" /\ pc' \in {"opendev", "done"}
      \/ pc = "opendev" /\ pc' \in {"search", "done"}
      \/ pc = "search" /\ pc' \in {"connect", "done"}
  BY DEF OpenForSerial, ReadSerial, VerifyConnect, VerifyReply, OpenDev, SearchCard,
         NoSerialNo, NoCard, Goto, Fail
<1>3. Place' < Place
  BY <1>2 DEF Place
<1>4. QED
  BY <1>1, <1>3, QuietMoves

LEMMA ConnectMoves ==
  ASSUME TypeOK, TypeOK', Connect
  PROVE  MovesOn
<1>1. pc = "connect" /\ pc' \in {"banner", "done"}
  BY DEF Connect, Goto, Fail
<1>2. Place' < Place
  BY <1>1 DEF Place
<1>3. CASE ConnectServer
  <2>1. PICK n \in Nat, n2 \in Nat : n = NetworkLeft /\ n2 = NetworkLeft'
    BY MeasuredFacts, MeasuredNext DEF TypeOK
  <2>2. n2 <= n + 181
    BY <1>3, <2>1, ConnectingLeft
  <2>3. QED
    BY <1>2, <2>1, <2>2 DEF MovesOn
<1>4. CASE ConnectFails
  BY <1>2, <1>4, QuietMoves DEF ConnectFails
<1>5. QED
  BY <1>3, <1>4 DEF Connect

\* From the greeting to the start message.
LEMMA OpeningMoves ==
  ASSUME TypeOK, TypeOK', RecvBanner \/ SendSerial \/ ReadDN \/ SendStart
  PROVE  MovesOn
<1>1. pc \in {"banner", "serial", "dn", "start"}
  BY DEF RecvBanner, SendSerial, ReadDN, SendStart
<1>2. CASE \E c : Abort(c)
  BY <1>1, <1>2, AbortMoves
<1>3. CASE ~ \E c : Abort(c)
  <2>1. PICK n \in Nat, n2 \in Nat : n = NetworkLeft /\ n2 = NetworkLeft'
    BY MeasuredFacts, MeasuredNext DEF TypeOK
  <2>2. CASE RecvBanner
    <3>1. /\ pc = "banner" /\ pc' = "serial"
          /\ toClt # <<>> /\ toClt' = Tail(toClt) /\ UNCHANGED <<conn, svr, toSvr>>
      BY <1>3, <2>2 DEF RecvBanner, Goto
    <3>2. n2 < n
      BY <2>1, <3>1, TakingLess DEF TypeOK
    <3>3. Place' < Place
      BY <3>1 DEF Place
    <3>4. QED
      BY <2>1, <3>1, <3>2, <3>3 DEF MovesOn
  <2>3. CASE SendSerial \/ SendStart
    <3>1. /\ \/ pc = "serial" /\ pc' = "dn"
             \/ pc = "start" /\ pc' = "loop"
          /\ UNCHANGED <<conn, svr, toClt>>
          /\ \E m : SendData(m)
      BY <1>3, <2>3 DEF SendSerial, SendStart, Goto
    <3>2. n2 <= n + 3
      BY <2>1, <3>1, SendingAdds DEF TypeOK
    <3>3. Place' < Place
      BY <3>1 DEF Place
    <3>4. QED
      BY <2>1, <3>1, <3>2, <3>3 DEF MovesOn
  <2>4. CASE ReadDN
    <3>1. pc = "dn" /\ pc' = "start" /\ UNCHANGED network
      BY <1>3, <2>4 DEF ReadDN, Goto
    <3>2. Place' < Place
      BY <3>1 DEF Place
    <3>3. QED
      BY <3>1, <3>2, QuietMoves
  <2>5. QED
    BY <2>2, <2>3, <2>4
<1>4. QED
  BY <1>2, <1>3

\* A frame of the receive loop is gone for good, and calls for one message at
\* most, which a stranger does not get.
LEMMA FrameTaken ==
  ASSUME TypeOK, TypeOK', pc = "loop", toClt # <<>>, toClt' = Tail(toClt),
         UNCHANGED <<conn, svr>>, pc' \in {"loop", "decode"},
         toSvr' = toSvr \/ (svr # "noisy" /\ \E m : SendData(m))
  PROVE  MovesOn \/ TalksOn
<1>1. PICK n \in Nat, n2 \in Nat : n = NetworkLeft /\ n2 = NetworkLeft'
  BY MeasuredFacts, MeasuredNext DEF TypeOK
<1>2. n2 < n
  BY <1>1, TakingLess DEF TypeOK
<1>3. Place' = Place \/ Place' < Place
  <2>1. Place = 3
    BY DEF Place
  <2>2. CASE pc' = "loop"
    <3>1. Place' = 3
      BY <2>2 DEF Place
    <3>2. QED
      BY <2>1, <3>1
  <2>3. CASE pc' = "decode"
    <3>1. Place' = 2
      BY <2>3 DEF Place
    <3>2. QED
      BY <2>1, <3>1
  <2>4. QED
    BY <2>2, <2>3
<1>4. n2 <= n + 181
  BY <1>2
<1>5. CASE Place' = Place
  BY <1>1, <1>2, <1>4, <1>5, Zenon DEF TalksOn
<1>6. CASE Place' < Place
  BY <1>1, <1>4, <1>6, Zenon DEF MovesOn
<1>7. QED
  BY <1>3, <1>5, <1>6

LEMMA HandlersMove ==
  ASSUME TypeOK, TypeOK', Conversation,
         \/ HandleIncert \/ HandleMsgAck \/ HandlePhotoAck1 \/ HandleFingerAck1
         \/ HandlePhotoAck2 \/ HandleFingerAck2 \/ HandleOtherCmd
  PROVE  MovesOn \/ TalksOn
<1>1. pc = "loop" /\ toClt # <<>>
  BY DEF HandleIncert, HandleMsgAck, HandlePhotoAck1, HandleFingerAck1, HandleAck1,
         HandlePhotoAck2, HandleFingerAck2, HandleOtherCmd, Handle, RecvCmd
<1>2. CASE \E c : Abort(c)
  BY <1>1, <1>2, AbortMoves
<1>3. CASE ~ \E c : Abort(c)
  <2>1. LoopAgain
    BY <1>3 DEF HandleIncert, HandleMsgAck, HandlePhotoAck1, HandleFingerAck1,
       HandleAck1, HandlePhotoAck2, HandleFingerAck2, HandleOtherCmd
  <2>2. CASE HandleOtherCmd
    BY <1>1, <2>1, <2>2, FrameTaken DEF HandleOtherCmd, LoopAgain, Goto
  <2>3. CASE ~HandleOtherCmd
    <3>1. \E m : SendData(m)
      BY <1>3, <2>3 DEF HandleIncert, HandleMsgAck, HandlePhotoAck1, HandleFingerAck1,
         HandleAck1, HandlePhotoAck2, HandleFingerAck2, SendSecond
    <3>2. CASE HandleIncert
      <4>1. Head(toClt).ok /\ RecvCmd("INCERT")
        BY <1>3, <3>2 DEF HandleIncert, Handle
      <4>2. svr # "noisy"
        BY <1>1, <4>1, StrangeCalls DEF RecvCmd
      <4>3. QED
        BY <1>1, <2>1, <3>1, <4>2, FrameTaken DEF LoopAgain, Goto
    <3>3. CASE ~HandleIncert
      <4>1. \E c \in {"MSG_ACK", "RDPHOTO_ACK1", "RDFINGERPRINT_ACK1", "RDPHOTO_ACK2",
                      "RDFINGERPRINT_ACK2"} : RecvCmd(c)
        BY <2>3, <3>3 DEF HandleMsgAck, HandlePhotoAck1, HandleFingerAck1, HandleAck1,
           HandlePhotoAck2, HandleFingerAck2, Handle
      <4>2. svr # "noisy"
        BY <1>1, <4>1, StrangeCmds
      <4>3. QED
        BY <1>1, <2>1, <3>1, <4>2, FrameTaken DEF LoopAgain, Goto
    <3>4. QED
      BY <3>2, <3>3
  <2>4. QED
    BY <2>2, <2>3
<1>4. QED
  BY <1>2, <1>3

LEMMA OutcertMoves ==
  ASSUME TypeOK, TypeOK', Conversation, HandleOutcert
  PROVE  MovesOn \/ TalksOn
<1>1. pc = "loop" /\ toClt # <<>> /\ RecvCmd("OUTCERT")
  BY DEF HandleOutcert, Handle, RecvCmd
<1>2. CASE \E c : Abort(c)
  BY <1>1, <1>2, AbortMoves
<1>3. CASE LoopAgain /\ UNCHANGED toSvr
  BY <1>1, <1>3, FrameTaken DEF LoopAgain, Goto
<1>4. CASE Head(toClt).ok /\ OutcertAccepted /\ ~ \E c : Abort(c)
  <2>1. LoopAgain /\ \E m : SendData(m)
    BY <1>4 DEF OutcertAccepted
  <2>2. svr # "noisy"
    BY <1>1, <1>4, StrangeCalls DEF RecvCmd
  <2>3. QED
    BY <1>1, <2>1, <2>2, FrameTaken DEF LoopAgain, Goto
<1>5. QED
  BY <1>2, <1>3, <1>4 DEF HandleOutcert, OutcertRejected

LEMMA DataMoves ==
  ASSUME TypeOK, TypeOK', Conversation, HandleData
  PROVE  MovesOn \/ TalksOn
<1>1. /\ pc = "loop" /\ toClt # <<>> /\ Head(toClt).kind = "data"
      /\ toClt' = Tail(toClt) /\ UNCHANGED <<conn, svr>>
  BY DEF HandleData
<1>2. CASE Head(toClt).ok
  <2>1. (\E m : SendData(m)) /\ pc' \in {"loop", "decode"}
    BY <1>2 DEF HandleData, Goto
  <2>2. svr # "noisy"
    BY <1>1, <1>2, StrangeCalls
  <2>3. QED
    BY <1>1, <2>1, <2>2, FrameTaken
<1>3. CASE ~Head(toClt).ok
  <2>1. toSvr' = toSvr /\ pc' = "loop"
    BY <1>3 DEF HandleData, Goto
  <2>2. QED
    BY <1>1, <2>1, FrameTaken
<1>4. QED
  BY <1>2, <1>3

LEMMA ReaderMoves ==
  ASSUME TypeOK, TypeOK', Conversation, Reader, ~CallerReturn
  PROVE  MovesOn \/ TalksOn
<1>1. CASE RecvFail \/ HandleBadType
  <2>1. pc \in {"banner", "loop"} /\ \E c : Abort(c)
    BY <1>1 DEF RecvFail, HandleBadType
  <2>2. QED
    BY <2>1, AbortMoves
<1>2. CASE Finish
  <2>1. pc = "decode" /\ pc' = "done" /\ DisconnectServer
    BY <1>2 DEF Finish
  <2>2. Place' < Place
    BY <2>1 DEF Place
  <2>3. QED
    BY <2>1, <2>2, LeavingMoves
<1>3. CASE \/ OpenForSerial \/ ReadSerial \/ VerifyConnect \/ VerifyReply
           \/ OpenDev \/ SearchCard
  BY <1>3, PreludeMoves
<1>4. CASE Connect
  BY <1>4, ConnectMoves
<1>5. CASE RecvBanner \/ SendSerial \/ ReadDN \/ SendStart
  BY <1>5, OpeningMoves
<1>6. CASE HandleOutcert
  BY <1>6, OutcertMoves
<1>7. CASE HandleData
  BY <1>7, DataMoves
<1>8. CASE \/ HandleIncert \/ HandleMsgAck \/ HandlePhotoAck1 \/ HandleFingerAck1
           \/ HandlePhotoAck2 \/ HandleFingerAck2 \/ HandleOtherCmd
  BY <1>8, HandlersMove
<1>9. QED
  BY <1>1, <1>2, <1>3, <1>4, <1>5, <1>6, <1>7, <1>8 DEF Reader

LEMMA OutsideTalks ==
  ASSUME TypeOK, TypeOK', Server \/ Around
  PROVE  TalksOn
<1>1. UNCHANGED pc /\ (SvrGreet \/ SvrHandle \/ StrangerSends \/ NetDrop)
  BY DEF Server, Around, others, control
<1>2. NetworkLeft' < NetworkLeft
  BY <1>1, FarSideLess DEF TypeOK, TypeSockets
<1>3. Place' = Place
  BY <1>1 DEF Place
<1>4. QED
  BY <1>1, <1>2, <1>3 DEF TalksOn

\* Every step of a call, of whichever process, ends the call or leaves less
\* of it: the thread moves from one place of GetDevSerialNo and NFCCardReader
\* to a later one, and the receive loop goes round only for a frame of a
\* conversation that gets shorter.
THEOREM EveryStepShortens == Spec => [][Shortens]_vars
<1>1. SessionInv /\ SessionInv' /\ [Next]_vars => [Shortens]_vars
  <2> SUFFICES ASSUME SessionInv, SessionInv', Next, pc # "idle", pc' # "idle"
               PROVE  Remaining' \in 0..(Remaining - 1)
    BY DEF Shortens
  <2>1. TypeOK /\ TypeOK' /\ Conversation
    BY DEF SessionInv, IInv
  <2>2. ~(Configure \/ NFCCardReader \/ GetDevSerialNo \/ CallerReturn)
    BY DEF Configure, NFCCardReader, GetDevSerialNo, Call, CallerReturn
  <2>3. (Reader /\ ~CallerReturn) \/ Server \/ Around
    BY <2>2 DEF Next
  <2>4. MovesOn \/ TalksOn
    BY <2>1, <2>3, ReaderMoves, OutsideTalks
  <2>5. QED
    BY <2>1, <2>4, NearerEnd
<1>2. QED
  BY <1>1, Invariance, PTL DEF Spec

=============================================================================
