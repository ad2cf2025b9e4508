------------------------- MODULE JavaReadCardProofs -------------------------
(***************************************************************************)
(* Proofs about JavaReadCard, for every number of attempts and of reads    *)
(* and every set of faults: its types, the balance of its sockets, the     *)
(* contract of its result, that it implements CardReadSpec, that what it   *)
(* uploads and delivers is of one session, and that every step brings it   *)
(* nearer to its end.                                                      *)
(***************************************************************************)
EXTENDS JavaReadCard, CardAndServerProofs, TLAPS

\* What the program counter says about the rest of the reader's state.
Control ==
  /\ pc \notin {"idle", "done"} => retry > 0 /\ pCardMsg = NoMsg
  /\ pc # "idle" => nfc_data = NoMsg
  /\ pc \in InSession => m_iSock \in 1..sid
  /\ pc = "verifyrecv" => authSock \in 1..sid /\ authSock # m_iSock
  /\ pc \in {"start", "loop", "decode"} => DN.file # "none"
  /\ pc = "done" =>
       \/ ret = 0 /\ pCardMsg # NoMsg
       \/ ret = -1 /\ lastErr \in ErrorCodes

IInv == TypeOK /\ SocketsBalanced /\ Control /\ JniContract

-----------------------------------------------------------------------------
(* Facts about the definitions                                             *)

\* The error codes are numbers other than zero.
LEMMA CodesAreErrors ==
  /\ 0 \notin ErrorCodes
  /\ ErrorCodes \subseteq Nat
  /\ \A c \in {NETCONNECT_ERROR, NETRECV_ERROR, NETSEND_ERROR,
              NFCREADCARD_ERROR, SEARCHCARD_FAIL, STARTNETREADCARD_FAIL,
              INVALIDNETCMD, GETSERIAL_FAIL, AUTHOR_FAIL, JAVA_TYPE_ERR} :
       c \in ErrorCodes
BY DEF ErrorCodes, NETCONNECT_ERROR, NETRECV_ERROR, NETSEND_ERROR,
       NFCOPEN_ERROR, NFCREADCARD_ERROR, SEARCHCARD_FAIL, STARTNETREADCARD_FAIL,
       INVALIDNETCMD, GETSERIAL_FAIL, AUTHOR_FAIL, JAVA_TYPE_ERR

-----------------------------------------------------------------------------
(* The invariant holds initially and every step preserves it               *)

LEMMA InitInv == Init => IInv
<1> SUFFICES ASSUME Init PROVE IInv
  OBVIOUS
<1> USE RetryAssumption, ReadsAssumption, EmptyTypes
<1> USE DEF SurroundingsInit
<1>0. TypeFlags /\ TypeStart /\ TypeCard
  BY DEF Init, TypeFlags, TypeStart, TypeCard, Files
<1>1. TypeReader
  BY DEF Init, TypeReader, PreConn, MAX_SERIAL
<1>2. TypeLocals
  BY DEF Init, TypeLocals
<1>3. TypeSockets
  BY DEF Init, TypeSockets
<1>4. TypeNetwork
  BY DEF Init, TypeNetwork, SvrStates
<1>5. SocketsBalanced
  BY DEF Init, SocketsBalanced, PreConn, InSession
<1>6. Control
  BY DEF Init, Control, InSession
<1>7. JniContract
  BY DEF Init, JniContract
<1>8. QED
  BY <1>0, <1>1, <1>2, <1>3, <1>4, <1>5, <1>6, <1>7 DEF IInv, TypeOK

\* Every error path of the session ends outside it with nothing open.
LEMMA AbortInv ==
  ASSUME IInv, pc \in InSession, NEW code \in ErrorCodes, Abort(code)
  PROVE  IInv'
<1> USE CodesAreErrors
<1> USE DEF Abort, Fail, DisconnectServer, config, jniVars, locals, IInv, TypeOK
<1>0. TypeFlags' /\ TypeStart' /\ TypeCard'
  BY DEF TypeFlags, TypeStart, TypeCard, card
<1>1. TypeReader'
  BY DEF TypeReader, PreConn
<1>2. TypeLocals'
  BY DEF TypeLocals
<1>3. TypeSockets' /\ TypeNetwork'
  BY DisconnectTypes
<1>5. SocketsBalanced'
  BY DEF SocketsBalanced, PreConn, InSession, Control, TypeSockets
<1>6. Control'
  BY DEF Control, InSession
<1>7. JniContract'
  BY DEF JniContract
<1>8. QED
  BY <1>0, <1>1, <1>2, <1>3, <1>5, <1>6, <1>7

\* Every step that stays inside a session leaves its control state alone:
\* only the locals and the network change.
LEMMA SessionStepInv ==
  ASSUME IInv, pc \in InSession, pc' \in InSession,
         pc' \in {"start", "loop", "decode"} => DN'.file # "none",
         UNCHANGED <<config, jniVars, ret, lastErr, m_iSock, retry, authSock,
                     pCardMsg, sockets, finger>>,
         start_svrdata' \in BOOLEAN, sel' \in Files, TypeLocals', TypeNetwork'
  PROVE  IInv'
<1> USE CodesAreErrors
<1> USE DEF config, jniVars, sockets, IInv, TypeOK
<1>1. TypeFlags' /\ TypeStart' /\ TypeCard'
  BY DEF TypeFlags, TypeStart, TypeCard
<1>2. TypeReader'
  BY DEF TypeReader
<1>3. TypeSockets'
  BY DEF TypeSockets
<1>4. SocketsBalanced'
  BY DEF SocketsBalanced, InSession, PreConn
<1>5. Control'
  BY DEF Control, InSession
<1>6. JniContract'
  BY DEF JniContract, InSession
<1>7. QED
  BY <1>1, <1>2, <1>3, <1>4, <1>5, <1>6

\* Steps of the server, of a stranger and of the network do not touch the
\* reader.
LEMMA NetworkStepInv ==
  ASSUME IInv, UNCHANGED others, UNCHANGED nearSide, TypeNetwork'
  PROVE  IInv'
<1> USE DEF others, nearSide, card, config, jniVars, locals, sockets, IInv, TypeOK
<1>1. TypeFlags' /\ TypeStart' /\ TypeCard'
  BY DEF TypeFlags, TypeStart, TypeCard
<1>2. TypeReader'
  BY DEF TypeReader
<1>3. TypeLocals' /\ TypeSockets'
  BY DEF TypeLocals, TypeSockets
<1>4. SocketsBalanced'
  BY DEF SocketsBalanced
<1>5. Control'
  BY DEF Control
<1>6. JniContract'
  BY DEF JniContract
<1>7. QED
  BY <1>1, <1>2, <1>3, <1>4, <1>5, <1>6

-----------------------------------------------------------------------------
(* The handlers of the receive loop                                        *)

\* A handler that goes round the loop again, having sent m or nothing.
LEMMA LoopAgainInv ==
  ASSUME IInv, pc = "loop", toClt # <<>>, LoopAgain,
         buff' \in Blobs, start_svrdata' \in BOOLEAN, sel' \in Files,
         KeepData, toSvr' \in Seq(Msgs)
  PROVE  IInv'
<1> USE DEF LoopAgain, Goto, KeepData
<1>1. TypeLocals'
  BY DEF IInv, TypeOK, TypeLocals
<1>2. TypeNetwork'
  BY DEF IInv, TypeOK, TypeNetwork
<1>3. DN'.file # "none"
  BY DEF IInv, Control
<1>4. QED
  BY <1>1, <1>2, <1>3, SessionStepInv DEF InSession

\* A handler that sends b, or a half of it, under command c.
LEMMA SendingInv ==
  ASSUME IInv, pc = "loop", toClt # <<>>, LoopAgain, KeepData,
         NEW b \in Blobs, NEW c \in CltCmds, NEW h \in 0..2,
         SendData(Msg(c, Half(h, b))),
         buff' \in Blobs, start_svrdata' \in BOOLEAN, sel' \in Files
  PROVE  IInv'
<1>1. Msg(c, Half(h, b)) \in Msgs
  BY MsgTypes
<1>2. toSvr' \in Seq(Msgs)
  BY <1>1, SendDataTypes DEF IInv, TypeOK
<1>3. QED
  BY <1>2, LoopAgainInv

\* What a handler starts from.
LEMMA AtLoop ==
  ASSUME IInv, NEW c, Handle(c)
  PROVE  /\ pc = "loop" /\ toClt # <<>>
         /\ m_iSock \in Nat
         /\ buff \in Blobs /\ dnbuff \in Blobs
         /\ start_svrdata \in BOOLEAN /\ sel \in Files
         /\ toSvr \in Seq(Msgs)
<1>1. pc = "loop" /\ toClt # <<>>
  BY DEF Handle, RecvCmd
<1>2. m_iSock \in Nat
  BY <1>1 DEF IInv, Control, InSession, TypeOK, TypeSockets
<1>3. start_svrdata \in BOOLEAN
  BY DEF IInv, TypeOK, TypeStart
<1>4. QED
  BY <1>1, <1>2, <1>3 DEF IInv, TypeOK, TypeLocals, TypeNetwork, TypeCard

LEMMA HandleIncertInv == IInv /\ HandleIncert => IInv'
<1> SUFFICES ASSUME IInv, HandleIncert PROVE IInv'
  OBVIOUS
<1>1. Handle("INCERT")
  BY DEF HandleIncert
<1>2. CASE \E c \in ErrorCodes : Abort(c)
  BY <1>1, <1>2, AtLoop, AbortInv DEF InSession
<1>3. CASE /\ \E f \in Answers("rand") :
                /\ buff' = Blob(f, m_iSock)
                /\ SendData(Msg("INAUTH_ACK", Whole(Blob(f, m_iSock))))
           /\ LoopAgain /\ KeepData
           /\ UNCHANGED <<start_svrdata, sel>>
  <2>1. PICK f \in Files : /\ buff' = Blob(f, m_iSock)
                           /\ SendData(Msg("INAUTH_ACK", Half(0, Blob(f, m_iSock))))
    BY <1>1, <1>3, AtLoop, SelectsFiles DEF Whole, Files
  <2>2. Blob(f, m_iSock) \in Blobs
    BY <1>1, AtLoop, BlobTypes
  <2>3. start_svrdata' \in BOOLEAN /\ sel' \in Files
    BY <1>1, <1>3, AtLoop
  <2>4. QED
    BY <1>1, <1>3, <2>1, <2>2, <2>3, AtLoop, SendingInv DEF CltCmds
<1>4. QED
  BY <1>2, <1>3, CodesAreErrors DEF HandleIncert

\* A rejected authentication gives its socket back, whether it tries again
\* or not, and never counts below zero.
LEMMA OutcertRejectedInv ==
  ASSUME IInv, pc = "loop", OutcertRejected
  PROVE  IInv'
<1> USE CodesAreErrors, RetryAssumption
<1> USE DEF OutcertRejected, KeepData, RetriesLeft, NoRetryLeft, Fail, Goto,
            config, jniVars, card, IInv, TypeOK
<1>0. TypeFlags' /\ TypeStart' /\ TypeCard'
  BY DEF TypeFlags, TypeStart, TypeCard, DisconnectServer
<1>1. TypeReader'
  BY DEF TypeReader, PreConn, Control
<1>2. m_iSock \in Nat
  BY DEF Control, InSession, TypeSockets
<1>3. Blob("status", m_iSock) \in Blobs
  BY <1>2, BlobTypes DEF Files
<1>4. TypeLocals'
  BY <1>3 DEF TypeLocals
<1>5. TypeSockets' /\ TypeNetwork'
  BY DisconnectTypes
<1>7. SocketsBalanced'
  BY DEF SocketsBalanced, PreConn, InSession, Control, TypeSockets, DisconnectServer
<1>8. Control'
  BY DEF Control, InSession, TypeReader, DisconnectServer
<1>9. JniContract'
  BY DEF JniContract
<1>10. QED
  BY <1>0, <1>1, <1>4, <1>5, <1>7, <1>8, <1>9

\* The accepted authentication uploads one blob, whatever was selected.
LEMMA OutcertAcceptedInv ==
  ASSUME IInv, Handle("OUTCERT"), OutcertAccepted
  PROVE  IInv'
<1>1. CASE Abort(NFCREADCARD_ERROR)
  BY <1>1, AtLoop, AbortInv, CodesAreErrors DEF InSession
<1>2. CASE ~Abort(NFCREADCARD_ERROR)
  <2>1. LoopAgain /\ KeepData /\ start_svrdata' \in BOOLEAN
    BY <1>2, AtLoop DEF OutcertAccepted
  <2>2. PICK f \in Selects("f6011", sel) :
          \E g \in Selects("f6012", f) :
            LET b == Blob(IF <<f, g>> = <<"f6011", "f6012">>
                            THEN "f6011_12" ELSE "mixed", m_iSock)
            IN  /\ sel' = g
                /\ buff' = b
                /\ SendData(Msg("OUTAUTH_ACK", Whole(b)))
    BY <1>2 DEF OutcertAccepted
  <2>3. PICK g \in Selects("f6012", f),
             k \in {"f6011_12", "mixed"} :
          /\ sel' = g /\ buff' = Blob(k, m_iSock)
          /\ SendData(Msg("OUTAUTH_ACK", Half(0, Blob(k, m_iSock))))
    BY <2>2 DEF Whole
  <2>4. f \in Files /\ g \in Files
    BY AtLoop, SelectsFiles DEF Files
  <2>5. Blob(k, m_iSock) \in Blobs
    BY AtLoop, BlobTypes DEF Files
  <2>6. QED
    BY <2>1, <2>3, <2>4, <2>5, AtLoop, SendingInv DEF CltCmds
<1>3. QED
  BY <1>1, <1>2

LEMMA HandleOutcertInv == IInv /\ HandleOutcert => IInv'
<1> SUFFICES ASSUME IInv, HandleOutcert PROVE IInv'
  OBVIOUS
<1>1. Handle("OUTCERT")
  BY DEF HandleOutcert
<1>2. CASE Abort(INVALIDNETCMD)
  BY <1>1, <1>2, AtLoop, AbortInv, CodesAreErrors DEF InSession
<1>3. CASE LoopAgain /\ KeepData /\ UNCHANGED <<buff, start_svrdata, toSvr, sel>>
  <2>1. /\ buff' \in Blobs /\ start_svrdata' \in BOOLEAN /\ sel' \in Files
        /\ toSvr' \in Seq(Msgs)
    BY <1>1, <1>3, AtLoop
  <2>2. QED
    BY <1>1, <1>3, <2>1, AtLoop, LoopAgainInv
<1>4. CASE OutcertAccepted
  BY <1>1, <1>4, OutcertAcceptedInv
<1>5. CASE OutcertRejected
  BY <1>1, <1>5, AtLoop, OutcertRejectedInv
<1>6. QED
  BY <1>2, <1>3, <1>4, <1>5 DEF HandleOutcert

LEMMA HandleMsgAckInv == IInv /\ HandleMsgAck => IInv'
<1> SUFFICES ASSUME IInv, HandleMsgAck PROVE IInv'
  OBVIOUS
<1>1. Handle("MSG_ACK")
  BY DEF HandleMsgAck
<1>2. CASE Abort(NFCREADCARD_ERROR)
  BY <1>1, <1>2, AtLoop, AbortInv, CodesAreErrors DEF InSession
<1>3. CASE ~Abort(NFCREADCARD_ERROR)
  <2>1. LoopAgain /\ KeepData /\ start_svrdata' \in BOOLEAN
    BY <1>1, <1>3, AtLoop DEF HandleMsgAck
  <2>2. PICK f \in Files :
          /\ sel' = f /\ buff' = Blob(f, m_iSock)
          /\ SendData(Msg("SENDPHOTO1", Half(1, Blob(f, m_iSock))))
    BY <1>1, <1>3, AtLoop, SelectsFiles DEF HandleMsgAck, Files
  <2>3. Blob(f, m_iSock) \in Blobs
    BY <1>1, AtLoop, BlobTypes
  <2>4. QED
    BY <1>1, <2>1, <2>2, <2>3, AtLoop, SendingInv DEF CltCmds
<1>4. QED
  BY <1>2, <1>3

\* Both handlers that send the second half of what buff holds.
LEMMA HandleAck1Inv ==
  ASSUME IInv, NEW c, NEW reply \in CltCmds, HandleAck1(c, reply)
  PROVE  IInv'
<1>1. Handle(c)
  BY DEF HandleAck1
<1>2. buff' \in Blobs /\ start_svrdata' \in BOOLEAN /\ sel' \in Files
  BY <1>1, AtLoop DEF HandleAck1
<1>3. SendData(Msg(reply, Half(2, buff))) /\ LoopAgain /\ KeepData
  BY DEF HandleAck1
<1>4. QED
  BY <1>1, <1>2, <1>3, AtLoop, SendingInv

LEMMA HandlePhotoAck2Inv == IInv /\ HandlePhotoAck2 => IInv'
<1> SUFFICES ASSUME IInv, HandlePhotoAck2 PROVE IInv'
  OBVIOUS
<1>1. Handle("RDPHOTO_ACK2")
  BY DEF HandlePhotoAck2
<1>2. CASE Abort(NFCREADCARD_ERROR)
  BY <1>1, <1>2, AtLoop, AbortInv, CodesAreErrors DEF InSession
<1>3. CASE ~Abort(NFCREADCARD_ERROR)
  <2>1. LoopAgain /\ KeepData
    BY <1>3 DEF HandlePhotoAck2
  <2>2. PICK f \in Files, k \in Files :
          /\ sel' = f /\ buff' = Blob(k, m_iSock)
          /\ \/ SendSecond
             \/ /\ SendData(Msg("SENDFINGERPRINT1", Half(1, Blob(k, m_iSock))))
                /\ UNCHANGED start_svrdata
    <3>1. PICK f \in Selects("f6021", sel) :
            LET b == Blob(IF f = "f6021" /\ ~finger THEN "zero" ELSE f, m_iSock)
            IN  /\ sel' = f
                /\ buff' = b
                /\ \/ SendSecond
                   \/ /\ SendData(Msg("SENDFINGERPRINT1", Half(1, b)))
                      /\ UNCHANGED start_svrdata
      BY <1>3 DEF HandlePhotoAck2
    <3>2. f \in Files
      BY <1>1, AtLoop, SelectsFiles DEF Files
    <3>3. CASE f = "f6021" /\ ~finger
      BY <3>1, <3>2, <3>3 DEF Files
    <3>4. CASE ~(f = "f6021" /\ ~finger)
      BY <3>1, <3>2, <3>4
    <3>5. QED
      BY <3>3, <3>4
  <2>3. Blob(k, m_iSock) \in Blobs
    BY <1>1, AtLoop, BlobTypes
  <2>4. CASE SendSecond
    <3>1. SendData(Msg("SECNED_ACK", Half(0, dnbuff))) /\ start_svrdata' \in BOOLEAN
      BY <2>4 DEF SendSecond, Whole
    <3>2. QED
      BY <1>1, <2>1, <2>2, <2>3, <3>1, AtLoop, SendingInv DEF CltCmds
  <2>5. CASE /\ SendData(Msg("SENDFINGERPRINT1", Half(1, Blob(k, m_iSock))))
             /\ UNCHANGED start_svrdata
    <3>1. start_svrdata' \in BOOLEAN
      BY <1>1, <2>5, AtLoop
    <3>2. QED
      BY <1>1, <2>1, <2>2, <2>3, <2>5, <3>1, AtLoop, SendingInv DEF CltCmds
  <2>6. QED
    BY <2>2, <2>4, <2>5
<1>4. QED
  BY <1>2, <1>3

LEMMA HandleFingerAck2Inv == IInv /\ HandleFingerAck2 => IInv'
<1> SUFFICES ASSUME IInv, HandleFingerAck2 PROVE IInv'
  OBVIOUS
<1>1. Handle("RDFINGERPRINT_ACK2") /\ LoopAgain /\ KeepData
  BY DEF HandleFingerAck2
<1>2. buff' \in Blobs /\ sel' \in Files
  BY <1>1, AtLoop DEF HandleFingerAck2
<1>3. SendData(Msg("SECNED_ACK", Half(0, dnbuff))) /\ start_svrdata' \in BOOLEAN
  BY DEF HandleFingerAck2, SendSecond, Whole
<1>4. QED
  BY <1>1, <1>2, <1>3, AtLoop, SendingInv DEF CltCmds

LEMMA HandleOtherCmdInv == IInv /\ HandleOtherCmd => IInv'
<1> SUFFICES ASSUME IInv, HandleOtherCmd PROVE IInv'
  OBVIOUS
<1>1. Handle("other") /\ LoopAgain /\ KeepData
  BY DEF HandleOtherCmd
<1>2. /\ buff' \in Blobs /\ start_svrdata' \in BOOLEAN /\ sel' \in Files
      /\ toSvr' \in Seq(Msgs)
  BY <1>1, AtLoop DEF HandleOtherCmd
<1>3. QED
  BY <1>1, <1>2, AtLoop, LoopAgainInv

LEMMA HandleDataInv == IInv /\ HandleData => IInv'
<1> SUFFICES ASSUME IInv, HandleData PROVE IInv'
  OBVIOUS
<1> DEFINE f == Head(toClt)
<1>1. /\ pc = "loop" /\ toClt # <<>> /\ f.kind = "data"
      /\ toClt' = Tail(toClt)
      /\ UNCHANGED <<config, m_iSock, jniVars, retry, authSock, buff, DN,
                     dnbuff, start_svrdata, pCardMsg, sockets, conn, svr, upl,
                     card>>
  BY DEF HandleData
<1>2. TypeLocals /\ TypeNetwork /\ start_svrdata \in BOOLEAN /\ sel \in Files
  BY DEF IInv, TypeOK, TypeStart, TypeCard
<1>3. DN'.file # "none"
  BY <1>1 DEF IInv, Control
<1>4. pc' \in {"loop", "decode"} /\ UNCHANGED <<ret, lastErr>>
  BY DEF HandleData, Goto
<1>5. toSvr' \in Seq(Msgs)
  <2>1. CASE ~f.ok
    BY <1>2, <2>1 DEF HandleData, TypeNetwork
  <2>2. CASE f.ok
    <3>1. Msg(DataAck[f.no], NoBody) \in Msgs
      BY <1>1, <1>2, <2>2, DataFrame, EmptyTypes DEF Msg, Msgs
    <3>2. SendData(Msg(DataAck[f.no], NoBody))
      BY <2>2 DEF HandleData
    <3>3. QED
      BY <1>2, <3>1, <3>2, SendDataTypes
  <2>3. QED
    BY <2>1, <2>2
<1>6. TypeNetwork'
  BY <1>1, <1>2, <1>5 DEF TypeNetwork
<1>7. cardInfo' \in Nat /\ pic' \in Nat \X Nat /\ piclen' \in Nat
  <2>1. CASE ~f.ok
    BY <1>2, <2>1 DEF HandleData, KeepData, TypeLocals
  <2>2. CASE f.ok
    <3>1. f.no \in 1..3 /\ f.sess \in Nat
      BY <1>1, <1>2, <2>2, DataFrame
    <3>2. PackLen(f.no) \in Nat
      BY DEF PackLen
    <3>3. /\ cardInfo' = IF f.no = 1 THEN f.sess ELSE cardInfo
          /\ pic' = CASE f.no = 1 -> pic
                      [] f.no = 2 -> <<f.sess, pic[2]>>
                      [] f.no = 3 -> <<pic[1], f.sess>>
          /\ piclen' = IF f.no = 1 THEN piclen ELSE piclen + PackLen(f.no)
      BY <2>2 DEF HandleData
    <3>4. cardInfo' \in Nat
      BY <1>2, <3>1, <3>3 DEF TypeLocals
    <3>5. pic' \in Nat \X Nat
      BY <1>2, <3>1, <3>3 DEF TypeLocals
    <3>6. piclen' \in Nat
      BY <1>2, <3>2, <3>3 DEF TypeLocals
    <3>7. QED
      BY <3>4, <3>5, <3>6
  <2>3. QED
    BY <2>1, <2>2
<1>8. TypeLocals'
  BY <1>1, <1>2, <1>7 DEF TypeLocals
<1>9. start_svrdata' \in BOOLEAN /\ sel' \in Files /\ UNCHANGED finger
  BY <1>1, <1>2 DEF card
<1>10. QED
  BY <1>1, <1>3, <1>4, <1>6, <1>8, <1>9, SessionStepInv DEF InSession

LEMMA HandleBadTypeInv == IInv /\ HandleBadType => IInv'
BY AbortInv, CodesAreErrors DEF HandleBadType, InSession

LEMMA RecvFailInv == IInv /\ RecvFail => IInv'
BY AbortInv, CodesAreErrors DEF RecvFail, InSession

-----------------------------------------------------------------------------
(* The handshake                                                           *)

LEMMA RecvBannerInv == IInv /\ RecvBanner => IInv'
<1> SUFFICES ASSUME IInv, RecvBanner PROVE IInv'
  OBVIOUS
<1>1. CASE Abort(STARTNETREADCARD_FAIL)
  BY <1>1, AbortInv, CodesAreErrors DEF RecvBanner, InSession
<1>2. CASE /\ Goto("serial")
           /\ toClt' = Tail(toClt)
           /\ UNCHANGED <<config, m_iSock, jniVars, retry, authSock, locals,
                          pCardMsg, sockets, conn, toSvr, svr, upl, card>>
  <2>1. /\ TypeLocals' /\ start_svrdata' \in BOOLEAN /\ sel' \in Files
        /\ UNCHANGED finger
    BY <1>2 DEF IInv, TypeOK, TypeLocals, TypeStart, TypeCard, locals, card
  <2>2. TypeNetwork'
    BY <1>2 DEF IInv, TypeOK, TypeNetwork, RecvBanner
  <2>3. QED
    BY <1>2, <2>1, <2>2, SessionStepInv DEF RecvBanner, Goto, InSession
<1>3. QED
  BY <1>1, <1>2 DEF RecvBanner

\* A step of the handshake that only sends m.
LEMMA SendStepInv ==
  ASSUME IInv, NEW m \in Msgs, SendData(m), pc \in InSession,
         NEW l \in InSession, l = "loop" => pc = "start",
         l \in {"dn", "loop"}, Goto(l),
         UNCHANGED <<config, m_iSock, jniVars, retry, authSock, locals,
                     pCardMsg, sockets, conn, toClt, svr, upl, card>>
  PROVE  IInv'
<1>1. /\ TypeLocals' /\ start_svrdata' \in BOOLEAN /\ sel' \in Files
      /\ UNCHANGED finger
  BY DEF IInv, TypeOK, TypeLocals, TypeStart, TypeCard, locals, card
<1>2. TypeNetwork'
  BY SendDataTypes DEF IInv, TypeOK, TypeNetwork
<1>3. l = "loop" => DN'.file # "none"
  BY DEF IInv, Control, locals
<1>4. QED
  BY <1>1, <1>2, <1>3, SessionStepInv DEF Goto, InSession

LEMMA SendSerialInv == IInv /\ SendSerial => IInv'
<1> SUFFICES ASSUME IInv, SendSerial PROVE IInv'
  OBVIOUS
<1>1. CASE Abort(NETSEND_ERROR)
  BY <1>1, AbortInv, CodesAreErrors DEF SendSerial, InSession
<1>2. CASE ~Abort(NETSEND_ERROR)
  <2>1. Msg("VERIFY_SERIAL", NoBody) \in Msgs
    BY EmptyTypes DEF Msg, Msgs, CltCmds
  <2>2. QED
    BY <1>2, <2>1, SendStepInv DEF SendSerial, InSession
<1>3. QED
  BY <1>1, <1>2

LEMMA SendStartInv == IInv /\ SendStart => IInv'
<1> SUFFICES ASSUME IInv, SendStart PROVE IInv'
  OBVIOUS
<1>1. CASE Abort(NETSEND_ERROR)
  BY <1>1, AbortInv, CodesAreErrors DEF SendStart, InSession
<1>2. CASE ~Abort(NETSEND_ERROR)
  <2>1. dnbuff \in Blobs
    BY DEF IInv, TypeOK, TypeLocals
  <2>2. Msg("STARTRDCARD_ACK", Whole(dnbuff)) \in Msgs
    BY <2>1, MsgTypes DEF Whole, CltCmds
  <2>3. QED
    BY <1>2, <2>2, SendStepInv DEF SendStart, InSession
<1>3. QED
  BY <1>1, <1>2

LEMMA ReadDNInv == IInv /\ ReadDN => IInv'
<1> SUFFICES ASSUME IInv, ReadDN PROVE IInv'
  OBVIOUS
<1>1. pc = "dn"
  BY DEF ReadDN
<1>2. CASE Abort(NFCREADCARD_ERROR)
  BY <1>1, <1>2, AbortInv, CodesAreErrors DEF InSession
<1>3. CASE ~Abort(NFCREADCARD_ERROR)
  <2>1. PICK f \in {"f6002", "status"} :
          /\ buff' = Blob(f, m_iSock) /\ TakeDN(f) /\ dnbuff' = Blob(f, m_iSock)
          /\ sel' \in {"f6002", sel}
    BY <1>3 DEF ReadDN, Answers
  <2>2. /\ Goto("start")
        /\ UNCHANGED <<config, m_iSock, jniVars, retry, authSock,
                       start_svrdata, cardInfo, pic, piclen, pCardMsg,
                       sockets, network, finger>>
    BY <1>3 DEF ReadDN
  <2>3. m_iSock \in Nat
    BY <1>1 DEF IInv, Control, InSession, TypeOK, TypeSockets
  <2>4. Blob(f, m_iSock) \in Blobs /\ Blob(f, m_iSock).file # "none"
    BY <2>1, <2>3, BlobTypes DEF Files
  <2>5. TypeLocals' /\ DN'.file # "none"
    BY <2>1, <2>2, <2>4 DEF IInv, TypeOK, TypeLocals, TakeDN
  <2>6. TypeNetwork' /\ start_svrdata' \in BOOLEAN /\ sel' \in Files
    BY <2>1, <2>2 DEF IInv, TypeOK, TypeNetwork, TypeStart, TypeCard, network, Files
  <2>7. QED
    BY <1>1, <2>2, <2>5, <2>6, SessionStepInv DEF Goto, InSession
<1>4. QED
  BY <1>2, <1>3

LEMMA ConnectInv == IInv /\ Connect => IInv'
<1> SUFFICES ASSUME IInv, Connect PROVE IInv'
  OBVIOUS
<1> USE CodesAreErrors
<1> USE DEF Goto, Fail, IInv, TypeOK
<1>1. /\ pc \in {"connect", "reconnect"}
      /\ UNCHANGED <<config, jniVars, retry, authSock, locals, pCardMsg, card>>
  BY DEF Connect
<1>2. \/ ConnectServer /\ pc' = "banner" /\ UNCHANGED <<ret, lastErr>>
      \/ /\ ConnectFails
         /\ \/ pc' = "reconnect" /\ UNCHANGED <<ret, lastErr>>
            \/ pc' = "done" /\ ret' = -1 /\ lastErr' = NETCONNECT_ERROR
  BY DEF Connect
<1>3. TypeFlags' /\ TypeStart' /\ TypeCard'
  BY <1>1, <1>2 DEF TypeFlags, TypeStart, TypeCard, card, locals,
     ConnectServer, ConnectFails, sockets
<1>4. TypeReader'
  BY <1>1, <1>2 DEF TypeReader, config, jniVars, PreConn, InSession
<1>5. TypeLocals'
  BY <1>1 DEF TypeLocals, locals
<1>6. TypeSockets' /\ TypeNetwork'
  BY <1>1, <1>2, ConnectTypes, ConnectFailsTypes
<1>8. SocketsBalanced'
  BY <1>1, <1>2 DEF SocketsBalanced, PreConn, InSession, ConnectServer,
     ConnectFails, sockets
<1>9. Control'
  BY <1>1, <1>2 DEF Control, InSession, jniVars, TypeSockets, ConnectServer,
     ConnectFails, sockets
<1>10. JniContract'
  BY <1>1, <1>2 DEF JniContract, jniVars
<1>11. QED
  BY <1>3, <1>4, <1>5, <1>6, <1>8, <1>9, <1>10

LEMMA ConfigureInv == IInv /\ Configure => IInv'
<1> SUFFICES ASSUME IInv, Configure PROVE IInv'
  OBVIOUS
<1> USE DEF IInv, TypeOK, jniVars, locals, sockets, network
<1>1. /\ pc = "idle"
      /\ UNCHANGED <<lastErr, m_iSock, jniVars, pc, ret, retry, authSock, locals,
                     pCardMsg, sockets, network, card>>
  BY DEF Configure, SetNFCLocal, SetPhoneSerial
<1>2. nfcType' \in {NFC_LOCAL_ANDROID_DEV, NFC_OTG_ANDROID_DEV}
  BY DEF Configure, SetNFCLocal, SetPhoneSerial, TypeReader
<1>3. serialLen' \in 0..MAX_SERIAL
  <2>1. CASE UNCHANGED serialLen
    BY <2>1 DEF TypeReader
  <2>2. CASE \E n \in Serials : SetPhoneSerial(n)
    BY <2>2 DEF SetPhoneSerial, TypeReader, MAX_SERIAL, Serials
  <2>3. QED
    BY <2>1, <2>2 DEF Configure, SetNFCLocal
<1>5. TypeFlags' /\ TypeStart' /\ TypeCard'
  BY <1>1 DEF TypeFlags, TypeStart, TypeCard, card
<1>6. TypeReader'
  BY <1>1, <1>2, <1>3 DEF TypeReader
<1>7. TypeLocals' /\ TypeSockets' /\ TypeNetwork'
  BY <1>1 DEF TypeLocals, TypeSockets, TypeNetwork
<1>8. SocketsBalanced' /\ Control' /\ JniContract'
  BY <1>1 DEF SocketsBalanced, Control, JniContract
<1>9. QED
  BY <1>5, <1>6, <1>7, <1>8

LEMMA StartReadInv == IInv /\ StartRead => IInv'
<1> SUFFICES ASSUME IInv, StartRead PROVE IInv'
  OBVIOUS
<1> USE CodesAreErrors, EmptyTypes, RetryAssumption, ReadsAssumption
<1> USE DEF IInv, TypeOK, config, sockets, network
<1>1. /\ pc = "idle" /\ reads < MaxReads /\ reads' = reads + 1
      /\ nfc_data' = NoMsg /\ pCardMsg' = NoMsg /\ retry' = RETRY_TIME
      /\ buff' = NoBlob /\ DN' = NoBlob /\ dnbuff' = NoBlob
      /\ cardInfo' = 0 /\ pic' = <<0, 0>> /\ piclen' = 0
      /\ UNCHANGED <<config, m_iSock, jret, authSock, sockets, network>>
  BY DEF StartRead
<1>2. start_svrdata' \in BOOLEAN /\ finger' \in BOOLEAN /\ sel' \in Files
  BY DEF StartRead, Files
<1>3. \/ pc' = "done" /\ ret' = -1 /\ lastErr' \in ErrorCodes
      \/ pc' \in {"search", "verify"} /\ ret' = ret /\ lastErr' = 0
  BY DEF StartRead, Fail, NFCREADCARD_SUCCESS
<1>4. TypeFlags' /\ TypeStart' /\ TypeCard'
  BY <1>1, <1>2 DEF TypeFlags, TypeStart, TypeCard
<1>5. TypeReader'
  BY <1>1, <1>3 DEF TypeReader, PreConn
<1>6. TypeLocals' /\ TypeSockets' /\ TypeNetwork'
  BY <1>1 DEF TypeLocals, TypeSockets, TypeNetwork
<1>7. SocketsBalanced'
  BY <1>1, <1>3 DEF SocketsBalanced, PreConn, InSession
<1>8. Control' /\ JniContract'
  BY <1>1, <1>3 DEF Control, InSession, JniContract
<1>9. QED
  BY <1>4, <1>5, <1>6, <1>7, <1>8

LEMMA VerifyConnectInv == IInv /\ VerifyConnect => IInv'
<1> SUFFICES ASSUME IInv, VerifyConnect PROVE IInv'
  OBVIOUS
<1> USE CodesAreErrors
<1> USE DEF IInv, TypeOK, config, jniVars, locals, network
<1>1. /\ pc = "verify"
      /\ UNCHANGED <<config, m_iSock, jniVars, retry, locals, pCardMsg,
                     badclose, network, card>>
  BY DEF VerifyConnect, AuthConnect, sockets
<1>2. \/ /\ sid' = sid + 1 /\ authSock' = sid + 1
         /\ open' = open \cup {sid + 1}
         /\ pc' = "verifyrecv" /\ UNCHANGED <<ret, lastErr>>
      \/ /\ pc' = "done" /\ ret' = -1 /\ lastErr' \in ErrorCodes
         /\ UNCHANGED <<sid, authSock, open>>
  BY DEF VerifyConnect, AuthConnect, Goto, Fail, sockets
<1>3. TypeFlags' /\ TypeStart' /\ TypeCard'
  BY <1>1 DEF TypeFlags, TypeStart, TypeCard, card
<1>4. TypeReader'
  BY <1>1, <1>2 DEF TypeReader, PreConn
<1>5. TypeLocals' /\ TypeNetwork'
  BY <1>1 DEF TypeLocals, TypeNetwork
<1>6. TypeSockets'
  BY <1>1, <1>2, NewSocket DEF TypeSockets
<1>7. SocketsBalanced'
  BY <1>1, <1>2 DEF SocketsBalanced, PreConn, InSession
<1>8. Control' /\ JniContract'
  BY <1>1, <1>2 DEF Control, InSession, JniContract, TypeSockets
<1>9. QED
  BY <1>3, <1>4, <1>5, <1>6, <1>7, <1>8

LEMMA VerifyReplyInv == IInv /\ VerifyReply => IInv'
<1> SUFFICES ASSUME IInv, VerifyReply PROVE IInv'
  OBVIOUS
<1> USE CodesAreErrors
<1> USE DEF IInv, TypeOK, config, jniVars, locals, network
<1>1. /\ pc = "verifyrecv" /\ open' = open \ {authSock} /\ authSock' = -1
      /\ UNCHANGED <<config, m_iSock, jniVars, retry, locals, pCardMsg, sid,
                     network, card>>
  BY DEF VerifyReply, AuthDisconnect
<1>2. \/ pc' = "search" /\ UNCHANGED <<ret, lastErr>>
      \/ pc' = "done" /\ ret' = -1 /\ lastErr' \in ErrorCodes
  BY DEF VerifyReply, Goto, Fail
<1>3. open = {authSock} /\ ~badclose
  BY <1>1 DEF SocketsBalanced
<1>4. badclose' = FALSE
  BY <1>3 DEF VerifyReply, AuthDisconnect
<1>5. TypeFlags' /\ TypeStart' /\ TypeCard'
  BY <1>1, <1>4 DEF TypeFlags, TypeStart, TypeCard, card
<1>6. TypeReader'
  BY <1>1, <1>2 DEF TypeReader, PreConn
<1>7. TypeLocals' /\ TypeNetwork'
  BY <1>1 DEF TypeLocals, TypeNetwork
<1>8. TypeSockets'
  BY <1>1 DEF TypeSockets
<1>9. SocketsBalanced'
  BY <1>1, <1>2, <1>3, <1>4 DEF SocketsBalanced, PreConn, InSession
<1>10. Control' /\ JniContract'
  BY <1>1, <1>2 DEF Control, InSession, JniContract
<1>11. QED
  BY <1>5, <1>6, <1>7, <1>8, <1>9, <1>10

LEMMA SearchCardInv == IInv /\ SearchCard => IInv'
<1> SUFFICES ASSUME IInv, SearchCard PROVE IInv'
  OBVIOUS
<1> USE CodesAreErrors
<1> USE DEF IInv, TypeOK, config, jniVars, sockets, network
<1>1. /\ pc = "search"
      /\ UNCHANGED <<config, m_iSock, jniVars, retry, authSock, DN, dnbuff,
                     start_svrdata, cardInfo, pic, piclen, pCardMsg, sockets,
                     network, card>>
  BY DEF SearchCard
<1>2. \/ pc' = "connect" /\ UNCHANGED <<ret, lastErr>>
      \/ pc' = "done" /\ ret' = -1 /\ lastErr' \in ErrorCodes
  BY DEF SearchCard, Goto, Fail
<1>3. buff' \in Blobs
  <2>1. Blob("app", sid + 1) \in Blobs
    BY BlobTypes DEF TypeSockets, Files
  <2>2. QED
    BY <2>1 DEF SearchCard, TypeLocals
<1>4. TypeFlags' /\ TypeStart' /\ TypeCard'
  BY <1>1 DEF TypeFlags, TypeStart, TypeCard, card
<1>5. TypeReader'
  BY <1>1, <1>2 DEF TypeReader, PreConn
<1>6. TypeLocals'
  BY <1>1, <1>3 DEF TypeLocals
<1>7. TypeSockets' /\ TypeNetwork'
  BY <1>1 DEF TypeSockets, TypeNetwork
<1>8. SocketsBalanced'
  BY <1>1, <1>2 DEF SocketsBalanced, PreConn, InSession
<1>9. Control' /\ JniContract'
  BY <1>1, <1>2 DEF Control, InSession, JniContract
<1>10. QED
  BY <1>4, <1>5, <1>6, <1>7, <1>8, <1>9

-----------------------------------------------------------------------------
(* The end of a read                                                       *)

\* The structure a success fills is not the empty one: it has the DN.
LEMMA FinishInv == IInv /\ Finish => IInv'
<1> SUFFICES ASSUME IInv, Finish PROVE IInv'
  OBVIOUS
<1> USE CodesAreErrors, EmptyTypes
<1> USE DEF IInv, TypeOK, config, jniVars, locals, card, Finish,
            NFCREADCARD_SUCCESS
<1>1. pCardMsg' \in CardMsgs
  BY DEF CardMsgs, TypeLocals
<1>2. pCardMsg' # NoMsg
  <2>1. DN.file # "none"
    BY DEF Control
  <2>2. pCardMsg'.dn = DN
    OBVIOUS
  <2>3. NoBlob.file = "none"
    BY DEF NoBlob, Blob
  <2>4. QED
    BY <2>1, <2>2, <2>3
<1>3. TypeFlags' /\ TypeStart' /\ TypeCard'
  BY DEF TypeFlags, TypeStart, TypeCard, DisconnectServer
<1>4. TypeReader'
  BY DEF TypeReader, PreConn
<1>5. TypeLocals'
  BY <1>1 DEF TypeLocals
<1>6. TypeSockets' /\ TypeNetwork'
  BY DisconnectTypes
<1>8. SocketsBalanced'
  BY DEF SocketsBalanced, PreConn, InSession, Control, TypeSockets,
         DisconnectServer
<1>9. Control'
  BY <1>2 DEF Control, InSession, DisconnectServer
<1>10. JniContract'
  BY DEF JniContract
<1>11. QED
  BY <1>3, <1>4, <1>5, <1>6, <1>8, <1>9, <1>10

LEMMA JniReturnInv == IInv /\ JniReturn => IInv'
<1> SUFFICES ASSUME IInv, JniReturn PROVE IInv'
  OBVIOUS
<1> USE CodesAreErrors
<1> USE DEF IInv, TypeOK, config, locals, sockets, network, JniReturn,
            NFCREADCARD_SUCCESS
<1>1. TypeFlags' /\ TypeStart' /\ TypeCard'
  BY DEF TypeFlags, TypeStart, TypeCard, card
<1>2. TypeReader'
  BY DEF TypeReader, TypeLocals, PreConn
<1>3. TypeLocals' /\ TypeSockets' /\ TypeNetwork'
  BY DEF TypeLocals, TypeSockets, TypeNetwork
<1>4. SocketsBalanced'
  BY DEF SocketsBalanced, PreConn, InSession
<1>5. Control'
  BY DEF Control, InSession
<1>6. JniContract'
  BY DEF JniContract, Control
<1>7. QED
  BY <1>1, <1>2, <1>3, <1>4, <1>5, <1>6

LEMMA OutsideInv == IInv /\ (Server \/ Around) => IInv'
<1> SUFFICES ASSUME IInv, Server \/ Around PROVE IInv'
  OBVIOUS
<1>1. TypeNetwork /\ sid \in Nat
  BY DEF IInv, TypeOK, TypeSockets
<1>2. /\ UNCHANGED others
      /\ SvrGreet \/ SvrHandle \/ StrangerSends \/ NetDrop
  BY DEF Server, Around
<1>3. QED
  BY <1>1, <1>2, FarSideTypes, NetworkStepInv

-----------------------------------------------------------------------------
(* The theorems                                                            *)

LEMMA ReaderInv == IInv /\ Reader => IInv'
BY VerifyConnectInv, VerifyReplyInv, SearchCardInv, ConnectInv, RecvBannerInv,
   SendSerialInv, ReadDNInv, SendStartInv, RecvFailInv, HandleIncertInv,
   HandleOutcertInv, HandleMsgAckInv, HandleAck1Inv, HandlePhotoAck2Inv,
   HandleFingerAck2Inv, HandleOtherCmdInv, HandleDataInv, HandleBadTypeInv,
   FinishInv, JniReturnInv
   DEF Reader, HandlePhotoAck1, HandleFingerAck1, CltCmds

LEMMA StutterInv == IInv /\ UNCHANGED vars => IInv'
<1> SUFFICES ASSUME IInv, UNCHANGED vars PROVE IInv'
  OBVIOUS
<1>1. UNCHANGED others /\ UNCHANGED nearSide
  BY DEF vars, others, nearSide
<1>2. TypeNetwork'
  BY DEF vars, network, IInv, TypeOK, TypeNetwork
<1>3. QED
  BY <1>1, <1>2, NetworkStepInv

LEMMA NextInv == IInv /\ [Next]_vars => IInv'
BY ConfigureInv, StartReadInv, ReaderInv, OutsideInv, StutterInv DEF Next

\* IInv is an invariant, for every number of attempts and reads and every
\* set of faults.
LEMMA Invariance == Spec => []IInv
BY InitInv, NextInv, PTL DEF Spec

\* Every variable keeps its type; retry never falls below zero.
THEOREM TypeCorrect == Spec => []TypeOK
<1>1. IInv => TypeOK
  BY DEF IInv
<1>2. QED
  BY <1>1, Invariance, PTL

\* Every path through a read closes each socket it opened exactly once.
THEOREM SocketsStayBalanced == Spec => []SocketsBalanced
<1>1. IInv => SocketsBalanced
  BY DEF IInv
<1>2. QED
  BY <1>1, Invariance, PTL

\* The JNI entry answers 0 exactly when it filled the caller's array, and an
\* error code otherwise.
THEOREM JniContractHolds == Spec => []JniContract
<1>1. IInv => JniContract
  BY DEF IInv
<1>2. QED
  BY <1>1, Invariance, PTL

-----------------------------------------------------------------------------
(* The reader implements CardReadSpec: each of its steps is a step of the  *)
(* service or leaves what the service sees alone                           *)

Stutter == UNCHANGED CardRead!vars

\* A step that stays inside the read and keeps its connection is invisible.
LEMMA Invisible ==
  ASSUME pc \notin {"idle", "done"}, pc' \notin {"idle", "done"},
         CardHeld' = CardHeld, UNCHANGED <<retry, jret, nfc_data>>
  PROVE  Stutter
BY DEF Stutter, CardRead!vars, CardPhase

\* An error path, from inside a session or before it, gives up.
LEMMA Failing ==
  ASSUME pc \notin {"idle", "done"}, pc' = "done", ret' = -1,
         CardHeld' = FALSE, retry' \in {retry, retry - 1},
         UNCHANGED <<jret, nfc_data>>
  PROVE  CardRead!GiveUp
BY DEF CardRead!GiveUp, CardPhase

LEMMA AbortGivesUp ==
  ASSUME pc \in InSession, NEW code, Abort(code)
  PROVE  CardRead!GiveUp
<1>1. /\ pc' = "done" /\ ret' = -1 /\ UNCHANGED <<jret, nfc_data, retry>>
      /\ open' = open \ {m_iSock} /\ m_iSock' = m_iSock
  BY DEF Abort, Fail, DisconnectServer, jniVars
<1>2. CardHeld' = FALSE
  BY <1>1 DEF CardHeld
<1>3. QED
  BY <1>1, <1>2, Failing DEF InSession

\* A step of the session that neither leaves it nor closes its socket.
LEMMA SessionInvisible ==
  ASSUME pc \in InSession, pc' \in InSession,
         UNCHANGED <<m_iSock, jniVars, retry, sockets>>
  PROVE  Stutter
BY Invisible DEF InSession, jniVars, sockets, CardHeld

LEMMA LoopStep ==
  ASSUME pc = "loop", LoopAgain
  PROVE  Stutter
BY SessionInvisible DEF LoopAgain, Goto, InSession

LEMMA HandlersRefine ==
  ASSUME \/ HandleIncert \/ HandleMsgAck \/ HandlePhotoAck1
         \/ HandlePhotoAck2 \/ HandleFingerAck1 \/ HandleFingerAck2
         \/ HandleOtherCmd \/ HandleData \/ HandleBadType \/ RecvFail
         \/ RecvBanner \/ SendSerial \/ ReadDN \/ SendStart
  PROVE  CardRead!GiveUp \/ Stutter
<1>1. CASE HandleIncert \/ HandleMsgAck \/ HandlePhotoAck2
  BY <1>1, AbortGivesUp, LoopStep
     DEF HandleIncert, HandleMsgAck, HandlePhotoAck2, Handle, InSession
<1>2. CASE HandlePhotoAck1 \/ HandleFingerAck1 \/ HandleFingerAck2 \/ HandleOtherCmd
  BY <1>2, LoopStep
     DEF HandlePhotoAck1, HandleFingerAck1, HandleAck1, HandleFingerAck2,
         HandleOtherCmd, Handle
<1>3. CASE HandleData
  BY <1>3, SessionInvisible DEF HandleData, Goto, InSession
<1>4. CASE HandleBadType \/ RecvFail
  BY <1>4, AbortGivesUp DEF HandleBadType, RecvFail, InSession
<1>5. CASE RecvBanner \/ SendSerial
  BY <1>5, AbortGivesUp, SessionInvisible
     DEF RecvBanner, SendSerial, Goto, InSession
<1>6. CASE ReadDN \/ SendStart
  BY <1>6, AbortGivesUp, SessionInvisible
     DEF ReadDN, SendStart, Goto, InSession
<1>7. QED
  BY <1>1, <1>2, <1>3, <1>4, <1>5, <1>6

\* A rejected authentication tries again or, with no attempt left, gives up.
LEMMA OutcertRefines ==
  ASSUME IInv, HandleOutcert
  PROVE  CardRead!GiveUp \/ CardRead!TryAgain \/ Stutter
<1>1. pc = "loop"
  BY DEF HandleOutcert, Handle
<1>2. CASE LoopAgain
  BY <1>1, <1>2, LoopStep
<1>3. CASE \E code : Abort(code)
  BY <1>1, <1>3, AbortGivesUp DEF InSession
<1>4. CASE OutcertRejected
  <2>1. /\ retry' = retry - 1 /\ UNCHANGED <<jret, nfc_data>>
        /\ open' = open \ {m_iSock} /\ m_iSock' = m_iSock
        /\ IF retry' > 0 THEN pc' = "search" ELSE pc' = "done" /\ ret' = -1
    BY <1>4 DEF OutcertRejected, DisconnectServer, RetriesLeft, NoRetryLeft,
                Fail, Goto, jniVars
  <2>2. CardHeld' = FALSE
    BY <2>1 DEF CardHeld
  <2>3. retry \in Nat
    BY RetryAssumption DEF IInv, TypeOK, TypeReader
  <2>4. CASE retry' > 0
    <3>1. CardHeld
      BY <1>1 DEF CardHeld, IInv, SocketsBalanced, InSession
    <3>2. CardPhase = "reading" /\ CardPhase' = "reading"
      BY <1>1, <2>1, <2>4 DEF CardPhase
    <3>3. retry > 1
      BY <2>1, <2>3, <2>4
    <3>4. CardRead!TryAgain
      BY <2>1, <2>2, <3>1, <3>2, <3>3 DEF CardRead!TryAgain
    <3>5. QED
      BY <3>4
  <2>5. CASE ~(retry' > 0)
    BY <1>1, <2>1, <2>2, <2>5, Failing
  <2>6. QED
    BY <2>4, <2>5
<1>5. QED
  BY <1>2, <1>3, <1>4 DEF HandleOutcert, OutcertAccepted

LEMMA ConnectRefines ==
  ASSUME IInv, Connect
  PROVE  CardRead!Attempt \/ CardRead!GiveUp \/ Stutter
<1>1. pc \in {"connect", "reconnect"} /\ UNCHANGED <<jret, nfc_data, retry>>
  BY DEF Connect, jniVars
<1>2. open = {} /\ CardHeld = FALSE
  BY <1>1 DEF IInv, SocketsBalanced, PreConn, CardHeld
<1>3. CASE ConnectServer
  <2>1. pc' = "banner"
    BY <1>3 DEF Connect, Goto, ConnectServer, ConnectFails, sockets, IInv,
                TypeOK, TypeSockets
  <2>2. CardHeld' = TRUE
    BY <1>3 DEF CardHeld, ConnectServer
  <2>3. CardPhase = "reading" /\ CardPhase' = "reading"
    BY <1>1, <2>1 DEF CardPhase
  <2>4. retry > 0
    BY <1>1 DEF IInv, Control
  <2>5. CardRead!Attempt
    BY <1>1, <1>2, <2>2, <2>3, <2>4 DEF CardRead!Attempt
  <2>6. QED
    BY <2>5
<1>4. CASE ConnectFails
  <2>1. CardHeld' = FALSE
    BY <1>2, <1>4 DEF ConnectFails, CardHeld, sockets
  <2>2. pc' \in {"banner", "reconnect"} \/ (pc' = "done" /\ ret' = -1)
    BY DEF Connect, Goto, Fail
  <2>3. QED
    BY <1>1, <1>2, <2>1, <2>2, Invisible, Failing
<1>5. QED
  BY <1>3, <1>4 DEF Connect

\* Before a connection the read continues or gives up.
LEMMA PreludeRefines ==
  ASSUME IInv, VerifyConnect \/ VerifyReply \/ SearchCard
  PROVE  CardRead!GiveUp \/ Stutter
<1>1. pc \in {"verify", "verifyrecv", "search"}
  BY DEF VerifyConnect, VerifyReply, SearchCard
<1>2. UNCHANGED <<m_iSock, jret, nfc_data, retry>>
  BY DEF VerifyConnect, VerifyReply, SearchCard, jniVars
<1>3. \/ pc' \in {"verifyrecv", "search", "connect"}
      \/ pc' = "done" /\ ret' = -1
  BY DEF VerifyConnect, VerifyReply, SearchCard, Goto, Fail
<1>4. CardHeld = FALSE
  BY <1>1 DEF IInv, SocketsBalanced, Control, PreConn, CardHeld
<1>5. CardHeld' = FALSE
  <2>1. m_iSock \notin open /\ m_iSock # sid + 1
    BY <1>4 DEF CardHeld, IInv, TypeOK, TypeSockets
  <2>2. open' \in {open, open \cup {sid + 1}, open \ {authSock}}
    BY DEF VerifyConnect, VerifyReply, SearchCard, AuthConnect,
           AuthDisconnect, sockets
  <2>3. QED
    BY <1>2, <2>1, <2>2 DEF CardHeld
<1>6. QED
  BY <1>1, <1>2, <1>3, <1>4, <1>5, Invisible, Failing

LEMMA StartRefines ==
  ASSUME IInv, StartRead
  PROVE  CardRead!Begin
<1>1. /\ pc = "idle" /\ retry' = RETRY_TIME /\ nfc_data' = NoMsg
      /\ UNCHANGED <<m_iSock, jret, sockets>>
  BY DEF StartRead
<1>2. \/ pc' \in {"search", "verify"}
      \/ pc' = "done" /\ ret' = -1
  BY DEF StartRead, Fail
<1>3. CardPhase = "idle" /\ CardPhase' \in {"reading", "failed"}
  BY <1>1, <1>2 DEF CardPhase
<1>4. CardHeld' = CardHeld
  BY <1>1 DEF CardHeld, sockets
<1>5. QED
  BY <1>1, <1>3, <1>4 DEF CardRead!Begin

LEMMA FinishRefines ==
  ASSUME IInv, Finish
  PROVE  CardRead!Succeed
<1>1. /\ pc = "decode" /\ pc' = "done" /\ ret' = 0
      /\ open' = open \ {m_iSock} /\ m_iSock' = m_iSock
      /\ UNCHANGED <<retry, jret, nfc_data>>
  BY DEF Finish, DisconnectServer, jniVars, NFCREADCARD_SUCCESS
<1>2. CardHeld = TRUE /\ CardHeld' = FALSE
  BY <1>1 DEF CardHeld, IInv, SocketsBalanced, InSession
<1>3. CardPhase = "reading" /\ CardPhase' = "ok"
  BY <1>1 DEF CardPhase
<1>4. QED
  BY <1>1, <1>2, <1>3 DEF CardRead!Succeed

LEMMA ReturnRefines ==
  ASSUME IInv, JniReturn
  PROVE  CardRead!Return
<1>1. /\ pc = "done" /\ pc' = "idle"
      /\ UNCHANGED <<retry, m_iSock, sockets>>
      /\ IF ret = 0 THEN jret' = ret /\ nfc_data' = pCardMsg
                    ELSE jret' = lastErr /\ nfc_data' = nfc_data
  BY DEF JniReturn, NFCREADCARD_SUCCESS
<1>2. CardHeld' = CardHeld
  BY <1>1 DEF CardHeld, sockets
<1>3. CardPhase' = "idle" /\ CardPhase = IF ret = 0 THEN "ok" ELSE "failed"
  BY <1>1 DEF CardPhase
<1>4. nfc_data = NoMsg
  BY <1>1 DEF IInv, Control
<1>5. CASE ret = 0
  <2>1. pCardMsg # NoMsg
    BY <1>1, <1>5 DEF IInv, Control
  <2>2. QED
    BY <1>1, <1>2, <1>3, <1>5, <2>1 DEF CardRead!Return
<1>6. CASE ret # 0
  <2>1. lastErr \in ErrorCodes
    BY <1>1, <1>6 DEF IInv, Control
  <2>2. QED
    BY <1>1, <1>2, <1>3, <1>4, <1>6, <2>1 DEF CardRead!Return
<1>7. QED
  BY <1>5, <1>6

\* Neither the server, the network, a stranger nor the configuration touches
\* what the service sees.
LEMMA OutsideInvisible ==
  ASSUME Configure \/ Server \/ Around \/ UNCHANGED vars
  PROVE  Stutter
<1>1. UNCHANGED <<pc, ret, retry, m_iSock, jret, nfc_data, open>>
  <2>1. CASE Configure
    BY <2>1 DEF Configure, jniVars, sockets
  <2>2. CASE UNCHANGED others /\ UNCHANGED nearSide
    BY <2>2 DEF others, nearSide, jniVars, sockets
  <2>3. CASE UNCHANGED vars
    BY <2>3 DEF vars, jniVars, sockets
  <2>4. QED
    BY <2>1, <2>2, <2>3 DEF Server, Around, SvrGreet, SvrHandle,
                            StrangerSends, NetDrop, nearSide
<1>2. QED
  BY <1>1 DEF Stutter, CardRead!vars, CardPhase, CardHeld

LEMMA StepRefines == IInv /\ [Next]_vars => [CardRead!Next]_(CardRead!vars)
<1> SUFFICES ASSUME IInv, [Next]_vars PROVE CardRead!Next \/ Stutter
  BY DEF Stutter
<1>1. CASE StartRead
  BY <1>1, StartRefines DEF CardRead!Next
<1>2. CASE Reader
  BY <1>2, PreludeRefines, ConnectRefines, HandlersRefine, OutcertRefines,
     FinishRefines, ReturnRefines DEF Reader, CardRead!Next
<1>3. CASE Configure \/ Server \/ Around \/ UNCHANGED vars
  BY <1>3, OutsideInvisible
<1>4. QED
  BY <1>1, <1>2, <1>3 DEF Next

LEMMA InitRefines == Init => CardRead!Init
BY DEF Init, SurroundingsInit, CardRead!Init, CardPhase, CardHeld

\* The reader implements the service of CardReadSpec.
THEOREM ImplementsCardRead == Spec => ReadService
BY Invariance, InitRefines, StepRefines, PTL DEF Spec, ReadService, CardRead!Spec

-----------------------------------------------------------------------------
(* The conversation with the server: every step of the reader keeps the    *)
(* invariant of CardAndServerProofs                                        *)

\* An error path leaves the session.
LEMMA AbortConv ==
  ASSUME NEW code, Abort(code)
  PROVE  Conversation'
<1>1. pc' = "done" /\ DisconnectServer
  BY DEF Abort, Fail
<1>2. QED
  BY <1>1, LeaveConv DEF InSession

LEMMA PreludeConv ==
  ASSUME IInv, Conversation,
         \/ Configure \/ StartRead \/ VerifyConnect \/ VerifyReply
         \/ SearchCard \/ JniReturn
  PROVE  Conversation'
<1>1. pc \notin InSession /\ pc' \notin InSession /\ UNCHANGED network
  <2>1. CASE Configure \/ StartRead \/ JniReturn
    BY <2>1 DEF Configure, SetNFCLocal, SetPhoneSerial, StartRead, JniReturn, Fail, InSession
  <2>2. CASE VerifyConnect \/ VerifyReply \/ SearchCard
    BY <2>2 DEF VerifyConnect, VerifyReply, SearchCard, Goto, Fail, InSession
  <2>3. QED
    BY <2>1, <2>2
<1>2. pc' \notin {"idle", "done"} => Fresh'
  <2>1. CASE Configure \/ StartRead \/ JniReturn
    BY <2>1 DEF Configure, SetNFCLocal, SetPhoneSerial, StartRead, JniReturn, Fail, Fresh
  <2>2. CASE VerifyConnect \/ VerifyReply \/ SearchCard
    <3>1. /\ pc \notin InSession \cup {"idle", "done"}
          /\ UNCHANGED <<start_svrdata, piclen>>
      BY <2>2 DEF VerifyConnect, VerifyReply, SearchCard, locals, InSession
    <3>2. QED
      BY <3>1, FreshOutside DEF Fresh
  <2>3. QED
    BY <2>1, <2>2
<1>3. QED
  BY <1>1, <1>2, OutsideConv

LEMMA ConnectStepConv ==
  ASSUME IInv, Conversation, Connect, SameWorld
  PROVE  Conversation'
<1>1. /\ pc \notin InSession \cup {"idle", "done"}
      /\ UNCHANGED <<start_svrdata, piclen, Faults>>
  BY DEF Connect, locals, InSession, SameWorld
<1>2. CASE ConnectServer /\ Goto("banner")
  BY <1>1, <1>2, ConnectConv DEF Goto
<1>3. CASE ~(ConnectServer /\ Goto("banner"))
  <2>1. pc' \notin InSession /\ UNCHANGED network
    BY <1>3 DEF Connect, ConnectFails, Goto, Fail, InSession
  <2>2. Fresh'
    BY <1>1, FreshOutside DEF Fresh
  <2>3. QED
    BY <1>1, <2>1, <2>2, OutsideConv
<1>4. QED
  BY <1>2, <1>3

\* From the greeting to the start message.
LEMMA OpeningConv ==
  ASSUME IInv, Conversation, SameWorld,
         RecvBanner \/ SendSerial \/ ReadDN \/ SendStart
  PROVE  Conversation'
<1>1. CASE \E code : Abort(code)
  BY <1>1, AbortConv
<1>2. CASE ~ \E code : Abort(code)
  <2>1. CASE RecvBanner
    <3>1. /\ pc = "banner" /\ toClt # <<>> /\ pc' = "serial" /\ toClt' = Tail(toClt)
          /\ UNCHANGED <<m_iSock, sid, conn, svr, upl, toSvr, start_svrdata, piclen>>
      BY <1>2, <2>1 DEF RecvBanner, Goto, locals, sockets
    <3>2. QED
      BY <3>1, BannerConv DEF Stays, SameWorld
  <2>2. CASE SendSerial
    <3>1. /\ pc = "serial" /\ pc' = "dn" /\ SendData(Msg("VERIFY_SERIAL", NoBody))
          /\ UNCHANGED <<m_iSock, sid, conn, svr, upl, toClt, start_svrdata, piclen>>
      BY <1>2, <2>2 DEF SendSerial, Goto, locals, sockets
    <3>2. QED
      BY <3>1, SerialConv DEF Stays, SameWorld
  <2>3. CASE ReadDN
    <3>1. /\ pc = "dn" /\ pc' = "start"
          /\ \E f \in Answers("f6002") :
               buff' = Blob(f, m_iSock) /\ DN' = buff' /\ dnbuff' = buff'
          /\ UNCHANGED <<m_iSock, sid, conn, svr, upl, toSvr, toClt,
                         start_svrdata, piclen>>
      BY <1>2, <2>3 DEF ReadDN, TakeDN, Goto, sockets, network
    <3>2. QED
      BY <3>1, DNConv DEF Stays, SameWorld
  <2>4. CASE SendStart
    <3>1. /\ pc = "start" /\ pc' = "loop"
          /\ SendData(Msg("STARTRDCARD_ACK", Whole(dnbuff)))
          /\ UNCHANGED <<m_iSock, sid, conn, svr, upl, toClt, buff, DN, dnbuff,
                         start_svrdata, piclen>>
      BY <1>2, <2>4 DEF SendStart, Goto, locals, sockets
    <3>2. QED
      BY <3>1, StartConv DEF Stays, SameWorld
  <2>5. QED
    BY <2>1, <2>2, <2>3, <2>4
<1>3. QED
  BY <1>1, <1>2

\* The frame of a handler that goes round the loop again.
LEMMA LoopFrame ==
  ASSUME pc = "loop", LoopAgain, KeepData, SameWorld
  PROVE  LoopStays
BY DEF LoopStays, Stays, LoopAgain, Goto, KeepData, SameWorld, sockets

LEMMA HandlersConv ==
  ASSUME IInv, Conversation, SameWorld,
         \/ HandleIncert \/ HandleMsgAck \/ HandlePhotoAck1 \/ HandleFingerAck1
         \/ HandlePhotoAck2 \/ HandleFingerAck2 \/ HandleOtherCmd
  PROVE  Conversation'
<1>1. CASE \E code : Abort(code)
  BY <1>1, AbortConv
<1>2. CASE ~ \E code : Abort(code)
  <2>1. LoopStays
    BY <1>2, LoopFrame DEF HandleIncert, HandleMsgAck, HandlePhotoAck1,
       HandleFingerAck1, HandleAck1, HandlePhotoAck2, HandleFingerAck2,
       HandleOtherCmd, Handle
  <2>2. CASE HandleIncert
    <3>1. /\ RecvCmd("INCERT") /\ Head(toClt).ok /\ UNCHANGED start_svrdata
          /\ \E f \in Answers("rand") :
               /\ buff' = Blob(f, m_iSock)
               /\ SendData(Msg("INAUTH_ACK", Whole(Blob(f, m_iSock))))
      BY <1>2, <2>2 DEF HandleIncert, Handle
    <3>2. QED
      BY <2>1, <3>1, IncertConv
  <2>3. CASE HandleMsgAck
    <3>1. /\ RecvCmd("MSG_ACK") /\ UNCHANGED start_svrdata
          /\ \E f \in Selects("f6013", sel) :
               /\ buff' = Blob(f, m_iSock)
               /\ SendData(Msg("SENDPHOTO1", Half(1, Blob(f, m_iSock))))
      BY <1>2, <2>3 DEF HandleMsgAck, Handle
    <3>2. TypeCard
      BY DEF IInv, TypeOK
    <3>3. QED
      BY <2>1, <3>1, <3>2, MsgAckConv
  <2>4. CASE HandlePhotoAck1 \/ HandleFingerAck1
    BY <2>1, <2>4, Ack1Conv
       DEF HandlePhotoAck1, HandleFingerAck1, HandleAck1, Handle
  <2>5. CASE HandlePhotoAck2
    <3>1. PICK f \in Selects("f6021", sel) :
            LET b == Blob(IF f = "f6021" /\ ~finger THEN "zero" ELSE f, m_iSock)
            IN  /\ buff' = b
                /\ \/ SendSecond
                   \/ SendData(Msg("SENDFINGERPRINT1", Half(1, b))) /\ UNCHANGED start_svrdata
      BY <1>2, <2>5 DEF HandlePhotoAck2
    <3>2. RecvCmd("RDPHOTO_ACK2")
      BY <2>5 DEF HandlePhotoAck2, Handle
    <3>3. NewBuff
      <4>1. m_iSock = sid
        BY <2>1 DEF LoopStays, Conversation, Connected, InSession
      <4>2. TypeCard
        BY DEF IInv, TypeOK
      <4>3. QED
        <5>1. f \in Files \ {"none"} /\ (f # "f6021" => CardFails)
          BY <3>1, <4>2, SelectsBytes DEF TypeCard
        <5>2. QED
          BY <3>1, <4>1, <5>1 DEF NewBuff, Blob, Files
    <3>4. CASE SendSecond
      BY <2>1, <3>2, <3>3, <3>4, SecondConv DEF SendSecond
    <3>5. CASE SendData(Msg("SENDFINGERPRINT1", Half(1, buff'))) /\ UNCHANGED start_svrdata
      BY <2>1, <3>2, <3>3, <3>5, FingerConv
    <3>6. QED
      BY <3>1, <3>4, <3>5
  <2>6. CASE HandleFingerAck2
    <3>1. NewBuff
      BY <2>1, <2>6, SameBuff DEF HandleFingerAck2, LoopStays
    <3>2. QED
      BY <2>1, <2>6, <3>1, SecondConv DEF HandleFingerAck2, Handle, SendSecond
  <2>7. CASE HandleOtherCmd
    BY <2>1, <2>7, IgnoreConv DEF HandleOtherCmd, Handle, RecvCmd
  <2>8. QED
    BY <2>2, <2>3, <2>4, <2>5, <2>6, <2>7
<1>3. QED
  BY <1>1, <1>2

\* External authentication: accepted, swallowed, or rejected, when the next
\* attempt finds the variables of the function as the first one did.
LEMMA OutcertStepConv ==
  ASSUME IInv, Conversation, SameWorld, HandleOutcert
  PROVE  Conversation'
<1>1. pc = "loop" /\ RecvCmd("OUTCERT")
  BY DEF HandleOutcert, Handle
<1>2. CASE \E code : Abort(code)
  BY <1>2, AbortConv
<1>3. CASE LoopAgain /\ KeepData /\ AwaitingData /\ Head(toClt).ok
           /\ UNCHANGED <<buff, start_svrdata, toSvr>>
  BY <1>1, <1>3, LoopFrame, SwallowConv DEF AwaitingData
<1>4. CASE OutcertAccepted /\ ~AwaitingData /\ Head(toClt).ok
           /\ ~ \E code : Abort(code)
  <2>1. LoopStays /\ UNCHANGED start_svrdata
    BY <1>1, <1>4, LoopFrame DEF OutcertAccepted
  <2>2. \E k \in {"f6011_12", "mixed"} :
          /\ buff' = Blob(k, m_iSock)
          /\ SendData(Msg("OUTAUTH_ACK", Whole(Blob(k, m_iSock))))
    BY <1>4 DEF OutcertAccepted
  <2>3. QED
    BY <1>1, <1>4, <2>1, <2>2, OutcertConv DEF AwaitingData
<1>5. CASE OutcertRejected /\ ~AwaitingData /\ Head(toClt).ok
  <2>1. Fresh
    BY <1>1, <1>5, CommandFrom, FewBytes DEF AwaitingData, Fresh
  <2>2. DisconnectServer /\ pc' \in {"search", "done"} /\ Fresh'
    BY <1>5, <2>1 DEF OutcertRejected, NoRetryLeft, Fail, Goto, KeepData, Fresh
  <2>3. QED
    BY <2>2, LeaveConv DEF InSession
<1>6. QED
  BY <1>2, <1>3, <1>4, <1>5 DEF HandleOutcert

LEMMA DataStepConv ==
  ASSUME IInv, Conversation, SameWorld, HandleData
  PROVE  Conversation'
<1> DEFINE f == Head(toClt)
<1>1. /\ pc = "loop" /\ toClt # <<>> /\ f.kind = "data" /\ toClt' = Tail(toClt)
      /\ Stays /\ UNCHANGED <<buff, DN, dnbuff, start_svrdata>>
  BY DEF HandleData, Stays, SameWorld, sockets
<1>2. CASE f.ok
  <2>1. f.no \in 1..3
    BY <1>1, <1>2, DataFrame DEF IInv, TypeOK
  <2>2. /\ cardInfo' = IF f.no = 1 THEN f.sess ELSE cardInfo
        /\ piclen' = IF f.no = 1 THEN piclen ELSE piclen + PackLen(f.no)
        /\ SendData(Msg(DataAck[f.no], NoBody))
        /\ pc' = IF f.no = 3 THEN "decode" ELSE "loop"
    BY <1>2 DEF HandleData, Goto
  <2>3. /\ pic'[1] = IF f.no = 2 THEN f.sess ELSE pic[1]
        /\ pic'[2] = IF f.no = 3 THEN f.sess ELSE pic[2]
    <3>1. pic' = CASE f.no = 1 -> pic
                   [] f.no = 2 -> <<f.sess, pic[2]>>
                   [] f.no = 3 -> <<pic[1], f.sess>>
      BY <1>2 DEF HandleData
    <3>2. CASE f.no = 1
      BY <3>1, <3>2
    <3>3. CASE f.no = 2
      BY <3>1, <3>3
    <3>4. CASE f.no = 3
      BY <3>1, <3>4
    <3>5. QED
      BY <2>1, <3>2, <3>3, <3>4
  <2>4. QED
    BY <1>1, <1>2, <2>2, <2>3, DataConv
<1>3. CASE ~f.ok
  <2>1. LoopStays /\ UNCHANGED toSvr
    BY <1>1, <1>3 DEF HandleData, LoopStays, KeepData, Goto
  <2>2. QED
    BY <1>1, <1>3, <2>1, IgnoreConv
<1>4. QED
  BY <1>2, <1>3

LEMMA ReaderConv ==
  ASSUME IInv, Conversation, Reader, SameWorld
  PROVE  Conversation'
<1>1. CASE RecvFail \/ HandleBadType
  BY <1>1, AbortConv DEF RecvFail, HandleBadType
<1>2. CASE Finish
  BY <1>2, LeaveConv DEF Finish, InSession
<1>3. QED
  BY <1>1, <1>2, PreludeConv, ConnectStepConv, OpeningConv, HandlersConv,
     OutcertStepConv, DataStepConv DEF Reader

LEMMA NextConv ==
  ASSUME IInv, Conversation, [Next]_vars
  PROVE  Conversation'
<1>1. CASE UNCHANGED vars
  BY <1>1, SameConv DEF vars, locals, ReaderSame, nearSide
<1>2. CASE Configure \/ StartRead
  BY <1>2, PreludeConv
<1>3. CASE Reader /\ SameWorld
  BY <1>3, ReaderConv
<1>4. CASE (Server \/ Around) /\ SameWorld
  <2>1. TypeNetwork /\ sid \in Nat
    BY DEF IInv, TypeOK, TypeSockets
  <2>2. SvrGreet \/ SvrHandle \/ StrangerSends \/ NetDrop
    BY <1>4 DEF Server, Around
  <2>3. UNCHANGED others
    BY <1>4 DEF Server, Around
  <2>4. ReaderSame
    BY <1>4, <2>1, <2>2, <2>3, FarSideTypes DEF ReaderSame, SameWorld, others, locals
  <2>5. QED
    BY <2>1, <2>2, <2>4, FarSideConv
<1>5. QED
  BY <1>1, <1>2, <1>3, <1>4 DEF Next

LEMMA InitConv ==
  ASSUME Init
  PROVE  Conversation
BY DEF Init, SurroundingsInit, Conversation, BuffersOwn, NothingYet, Uploads,
       NetworkQuiet, InSession, Started, Photo, Finger, Late

-----------------------------------------------------------------------------
(* What is delivered, and what a failure is blamed on                      *)

\* Nothing, or all of one session of this process.
OfOneSession(m) ==
  m # NoMsg =>
    \E s \in 1..sid :
      m = [dn |-> Blob("f6002", s), info |-> s, photo |-> <<s, s>>]

Delivered == OfOneSession(pCardMsg) /\ OfOneSession(nfc_data)

SessionInv == IInv /\ Conversation /\ Delivered /\ CodeNamesCause

\* The number of the last socket only grows.
LEMMA SocketsNumbered ==
  ASSUME IInv, [Next]_vars
  PROVE  sid \in Nat /\ sid' \in {sid, sid + 1} /\ 1..sid \subseteq 1..sid'
<1>1. sid \in Nat
  BY DEF IInv, TypeOK, TypeSockets
<1>2. sid' \in {sid, sid + 1}
  <2>1. CASE Configure \/ StartRead \/ JniReturn \/ UNCHANGED vars
    BY <2>1 DEF Configure, StartRead, JniReturn, vars, sockets
  <2>2. CASE VerifyConnect \/ VerifyReply \/ SearchCard \/ Connect
    BY <2>2 DEF VerifyConnect, VerifyReply, SearchCard, Connect, AuthConnect,
                AuthDisconnect, ConnectServer, ConnectFails, sockets
  <2>3. CASE UNCHANGED sid
    BY <2>3
  <2>4. ASSUME \/ RecvBanner \/ SendSerial \/ ReadDN \/ SendStart \/ RecvFail
               \/ HandleIncert \/ HandleOutcert \/ HandleMsgAck \/ HandlePhotoAck1
               \/ HandlePhotoAck2 \/ HandleFingerAck1 \/ HandleFingerAck2
               \/ HandleOtherCmd \/ HandleData \/ HandleBadType \/ Finish
        PROVE  UNCHANGED sid
    <3>1. (\E code : Abort(code)) \/ LoopAgain \/ OutcertRejected => UNCHANGED sid
      BY DEF Abort, LoopAgain, OutcertRejected, DisconnectServer, sockets
    <3>2. RecvBanner \/ SendSerial \/ ReadDN \/ SendStart \/ RecvFail => UNCHANGED sid
      BY <3>1 DEF RecvBanner, SendSerial, ReadDN, SendStart, RecvFail, sockets
    <3>3. HandleData \/ HandleBadType \/ Finish => UNCHANGED sid
      BY <3>1 DEF HandleData, HandleBadType, Finish, DisconnectServer, sockets
    <3>4. QED
      BY <2>4, <3>1, <3>2, <3>3
         DEF HandleIncert, HandleOutcert, OutcertAccepted, HandleMsgAck,
             HandlePhotoAck1, HandleAck1, HandlePhotoAck2, HandleFingerAck1,
             HandleFingerAck2, HandleOtherCmd
  <2>5. CASE Server \/ Around
    BY <2>5 DEF Server, Around, SvrGreet, SvrHandle, StrangerSends, NetDrop,
                nearSide, sockets
  <2>6. QED
    BY <2>1, <2>2, <2>4, <2>5 DEF Next, Reader
<1>3. QED
  BY <1>1, <1>2

\* What a read delivers is made where all of it is of one session, and never
\* touched again.
LEMMA DeliveredStep ==
  ASSUME SessionInv, [Next]_vars
  PROVE  Delivered'
<1>1. 1..sid \subseteq 1..sid'
  BY SocketsNumbered DEF SessionInv
<1>3. pCardMsg' \in {pCardMsg, NoMsg} => OfOneSession(pCardMsg)'
  BY <1>1 DEF SessionInv, Delivered, OfOneSession
<1>4. nfc_data' \in {nfc_data, NoMsg, pCardMsg} => OfOneSession(nfc_data)'
  BY <1>1 DEF SessionInv, Delivered, OfOneSession
<1>5. CASE Finish
  <2>1. /\ DN = Blob("f6002", sid) /\ m_iSock = sid
        /\ cardInfo = sid /\ pic[1] = sid /\ pic[2] = sid
        /\ piclen = CARD_PHOTO_LEN
    BY <1>5, ReaderSide DEF SessionInv, Finish
  <2>2. pic = <<sid, sid>>
    BY <2>1 DEF SessionInv, IInv, TypeOK, TypeLocals
  <2>3. pCardMsg' = [dn |-> Blob("f6002", sid), info |-> sid, photo |-> <<sid, sid>>]
    BY <1>5, <2>1, <2>2 DEF Finish
  <2>4. sid' = sid /\ sid \in 1..sid /\ nfc_data' = nfc_data
    BY <1>5, <2>1 DEF Finish, DisconnectServer, jniVars, SessionInv, IInv,
                      Control, InSession
  <2>5. OfOneSession(pCardMsg)'
    BY <2>3, <2>4 DEF OfOneSession
  <2>6. QED
    BY <1>4, <2>4, <2>5 DEF Delivered
<1>6. CASE StartRead \/ JniReturn
  BY <1>3, <1>4, <1>6 DEF StartRead, JniReturn, Delivered
<1>7. CASE UNCHANGED <<pCardMsg, nfc_data>>
  BY <1>3, <1>4, <1>7 DEF Delivered
<1>8. ASSUME [Next]_vars, ~Finish, ~StartRead, ~JniReturn
      PROVE  UNCHANGED <<pCardMsg, nfc_data>>
  <2>1. (\E code : Abort(code)) \/ LoopAgain \/ OutcertRejected =>
          UNCHANGED <<pCardMsg, nfc_data>>
    BY DEF Abort, LoopAgain, OutcertRejected, jniVars
  <2>2. CASE Configure \/ Server \/ Around \/ UNCHANGED vars
    BY <2>2 DEF Configure, Server, Around, others, vars, jniVars
  <2>3. CASE VerifyConnect \/ VerifyReply \/ SearchCard \/ Connect
    BY <2>3 DEF VerifyConnect, VerifyReply, SearchCard, Connect, jniVars
  <2>4. CASE RecvBanner \/ SendSerial \/ ReadDN \/ SendStart \/ RecvFail
    BY <2>1, <2>4 DEF RecvBanner, SendSerial, ReadDN, SendStart, RecvFail, jniVars
  <2>5. CASE HandleData \/ HandleBadType
    BY <2>1, <2>5 DEF HandleData, HandleBadType, jniVars
  <2>6. CASE \/ HandleIncert \/ HandleOutcert \/ HandleMsgAck
             \/ HandlePhotoAck1 \/ HandlePhotoAck2 \/ HandleFingerAck1
             \/ HandleFingerAck2 \/ HandleOtherCmd
    BY <2>1, <2>6
       DEF HandleIncert, HandleOutcert, OutcertAccepted, HandleMsgAck,
           HandlePhotoAck1, HandleAck1, HandlePhotoAck2, HandleFingerAck1,
           HandleFingerAck2, HandleOtherCmd, LoopAgain, jniVars
  <2>7. QED
    BY <1>8, <2>2, <2>3, <2>4, <2>5, <2>6 DEF Next, Reader
<1>9. QED
  BY <1>5, <1>6, <1>7, <1>8

\* A read that gives up with a code whose cause may happen in this world.
LEMMA Blamed ==
  ASSUME NEW code, code \notin {JAVA_TYPE_ERR, GETSERIAL_FAIL},
         Causes(code) \cap Faults # {}, lastErr' = code, SameWorld
  PROVE  CodeNamesCause'
BY DEF CodeNamesCause, SameWorld, Causes

LEMMA NotDone ==
  ASSUME pc' # "done" \/ ret' = 0
  PROVE  CodeNamesCause'
BY DEF CodeNamesCause

\* The codes of the receive loop and of its errors.
LEMMA OtherCodes ==
  {NETCONNECT_ERROR, NETRECV_ERROR, NETSEND_ERROR, NFCREADCARD_ERROR,
   SEARCHCARD_FAIL, INVALIDNETCMD, AUTHOR_FAIL}
     \cap {JAVA_TYPE_ERR, GETSERIAL_FAIL} = {}
BY DEF NETCONNECT_ERROR, NETRECV_ERROR, NETSEND_ERROR, NFCREADCARD_ERROR,
       SEARCHCARD_FAIL, INVALIDNETCMD, AUTHOR_FAIL, JAVA_TYPE_ERR, GETSERIAL_FAIL

\* Before the connection: the configuration, the authorisation, the card.
LEMMA PreludeBlames ==
  ASSUME SessionInv, SameWorld,
         StartRead \/ VerifyConnect \/ VerifyReply \/ SearchCard \/ Connect
  PROVE  CodeNamesCause'
<1>1. CASE StartRead
  <2>1. CASE nfcType # NFC_LOCAL_ANDROID_DEV /\ Fail(JAVA_TYPE_ERR)
    <3>1. lastErr' = JAVA_TYPE_ERR /\ nfcType' # NFC_LOCAL_ANDROID_DEV
      BY <1>1, <2>1 DEF StartRead, Fail, config
    <3>2. GETSERIAL_FAIL # JAVA_TYPE_ERR
      BY DEF GETSERIAL_FAIL, JAVA_TYPE_ERR
    <3>3. QED
      BY <3>1, <3>2 DEF CodeNamesCause
  <2>2. CASE /\ serialLen > MAX_SERIAL \/ serialLen < 2
             /\ Fail(GETSERIAL_FAIL)
    <3>1. serialLen < 2 /\ serialLen' = serialLen /\ lastErr' = GETSERIAL_FAIL
      BY <1>1, <2>2 DEF StartRead, Fail, config, SessionInv, IInv, TypeOK,
                        TypeReader, MAX_SERIAL
    <3>2. GETSERIAL_FAIL # JAVA_TYPE_ERR
      BY DEF GETSERIAL_FAIL, JAVA_TYPE_ERR
    <3>3. QED
      BY <3>1, <3>2 DEF CodeNamesCause
  <2>3. CASE pc' = "verify"
    BY <2>3, NotDone
  <2>4. QED
    BY <1>1, <2>1, <2>2, <2>3 DEF StartRead
<1>2. CASE VerifyConnect \/ VerifyReply
  <2>1. pc' # "done" \/ ("auth" \in Faults /\ lastErr' = AUTHOR_FAIL)
    BY <1>2 DEF VerifyConnect, VerifyReply, Goto, Fail
  <2>2. QED
    BY <2>1, CausesAre, NotDone, Blamed, OtherCodes
<1>3. CASE SearchCard
  <2>1. pc' # "done" \/ ("card" \in Faults /\ lastErr' = SEARCHCARD_FAIL)
    BY <1>3 DEF SearchCard, Goto, Fail, CardFails
  <2>2. QED
    BY <2>1, CausesAre, NotDone, Blamed, OtherCodes
<1>4. CASE Connect
  <2>1. pc' # "done" \/ ("connect" \in Faults /\ lastErr' = NETCONNECT_ERROR)
    BY <1>4 DEF Connect, ConnectFails, Goto, Fail
  <2>2. QED
    BY <2>1, CausesAre, NotDone, Blamed, OtherCodes
<1>5. QED
  BY <1>1, <1>2, <1>3, <1>4

\* An error path of the session with the card, or the network, to blame.
LEMMA AbortBlames ==
  ASSUME SameWorld, NEW code, Abort(code),
         code \in {NETRECV_ERROR, NETSEND_ERROR, NFCREADCARD_ERROR, INVALIDNETCMD},
         code = NFCREADCARD_ERROR \/ Causes(code) \cap Faults # {},
         code = NFCREADCARD_ERROR => CardFails
  PROVE  CodeNamesCause'
<1>1. lastErr' = code
  BY DEF Abort, Fail
<1>2. Causes(code) \cap Faults # {}
  BY CausesAre DEF CardFails
<1>3. QED
  BY <1>1, <1>2, Blamed, OtherCodes

LEMMA OpeningBlames ==
  ASSUME SessionInv, SameWorld,
         RecvBanner \/ SendSerial \/ ReadDN \/ SendStart \/ RecvFail
  PROVE  CodeNamesCause'
<1>1. CASE RecvBanner
  <2>1. pc' = "serial"
    BY <1>1 DEF RecvBanner, BannerRejected, Goto
  <2>2. QED
    BY <2>1, NotDone
<1>2. CASE SendSerial \/ SendStart
  <2>1. pc \in InSession
    BY <1>2 DEF SendSerial, SendStart, InSession
  <2>2. CASE SendFails /\ Abort(NETSEND_ERROR)
    <3>1. Causes(NETSEND_ERROR) \cap Faults # {}
      BY <2>1, <2>2, SendFailsFrom DEF SessionInv
    <3>2. lastErr' = NETSEND_ERROR
      BY <2>2 DEF Abort, Fail
    <3>3. QED
      BY <3>1, <3>2, Blamed, OtherCodes
  <2>3. CASE pc' # "done"
    BY <2>3, NotDone
  <2>4. QED
    BY <1>2, <2>2, <2>3 DEF SendSerial, SendStart, Goto
<1>3. CASE ReadDN
  <2>1. pc' # "done" \/ (CardFails /\ Abort(NFCREADCARD_ERROR))
    BY <1>3 DEF ReadDN, Goto
  <2>2. QED
    BY <2>1, NotDone, AbortBlames
<1>4. CASE RecvFail
  <2>1. Causes(NETRECV_ERROR) \cap Faults # {}
    BY <1>4, RecvFailsFrom DEF RecvFail, SessionInv
  <2>2. lastErr' = NETRECV_ERROR
    BY <1>4 DEF RecvFail, Abort, Fail
  <2>3. QED
    BY <2>1, <2>2, Blamed, OtherCodes
<1>5. QED
  BY <1>1, <1>2, <1>3, <1>4

\* The handlers: a malformed command comes from a stranger, a failed card
\* command from the card, a rejected authentication from the card too.
LEMMA HandlersBlame ==
  ASSUME SessionInv, SameWorld,
         \/ HandleIncert \/ HandleOutcert \/ HandleMsgAck \/ HandlePhotoAck1
         \/ HandlePhotoAck2 \/ HandleFingerAck1 \/ HandleFingerAck2
         \/ HandleOtherCmd \/ HandleData \/ HandleBadType
  PROVE  CodeNamesCause'
<1>1. pc = "loop" /\ toClt # <<>>
  BY DEF HandleIncert, HandleOutcert, HandleMsgAck, HandlePhotoAck1, HandleAck1,
         HandlePhotoAck2, HandleFingerAck1, HandleFingerAck2, HandleOtherCmd,
         HandleData, HandleBadType, Handle, RecvCmd
<1>2. CASE /\ ~Head(toClt).ok \/ Head(toClt).kind = "bad"
           /\ Abort(INVALIDNETCMD)
  <2>1. Causes(INVALIDNETCMD) \cap Faults # {}
    BY <1>1, <1>2, InvalidFrom DEF SessionInv
  <2>2. lastErr' = INVALIDNETCMD
    BY <1>2 DEF Abort, Fail
  <2>3. QED
    BY <2>1, <2>2, Blamed, OtherCodes
<1>3. CASE CardFails /\ Abort(NFCREADCARD_ERROR)
  BY <1>3, AbortBlames
<1>4. CASE SendFails /\ Abort(NETSEND_ERROR)
  <2>1. Causes(NETSEND_ERROR) \cap Faults # {}
    BY <1>1, <1>4, SendFailsFrom DEF SessionInv, InSession
  <2>2. lastErr' = NETSEND_ERROR
    BY <1>4 DEF Abort, Fail
  <2>3. QED
    BY <2>1, <2>2, Blamed, OtherCodes
<1>5. CASE OutcertRejected
  <2>1. "outcert" \in Faults /\ (pc' # "done" \/ lastErr' = NFCREADCARD_ERROR)
    BY <1>5 DEF OutcertRejected, NoRetryLeft, Fail, Goto
  <2>2. QED
    BY <2>1, CausesAre, NotDone, Blamed, OtherCodes
<1>6. CASE pc' # "done"
  BY <1>6, NotDone
<1>7. LoopAgain => pc' # "done"
  BY DEF LoopAgain, Goto
<1>8. CASE HandleIncert \/ HandleMsgAck \/ HandlePhotoAck2
  BY <1>2, <1>3, <1>4, <1>6, <1>7, <1>8 DEF HandleIncert, HandleMsgAck, HandlePhotoAck2
<1>9. CASE HandleOutcert
  BY <1>2, <1>3, <1>5, <1>6, <1>7, <1>9 DEF HandleOutcert, OutcertAccepted
<1>10. CASE HandlePhotoAck1 \/ HandleFingerAck1 \/ HandleFingerAck2 \/ HandleOtherCmd
  BY <1>6, <1>7, <1>10 DEF HandlePhotoAck1, HandleFingerAck1, HandleAck1,
                           HandleFingerAck2, HandleOtherCmd
<1>11. CASE HandleData \/ HandleBadType
  BY <1>2, <1>6, <1>11 DEF HandleData, HandleBadType, Goto
<1>12. QED
  BY <1>8, <1>9, <1>10, <1>11

LEMMA BlameStep ==
  ASSUME SessionInv, [Next]_vars
  PROVE  CodeNamesCause'
<1>1. CASE (StartRead \/ Reader) /\ SameWorld
  <2>1. CASE Finish \/ JniReturn
    BY <2>1, NotDone DEF Finish, JniReturn, NFCREADCARD_SUCCESS
  <2>2. QED
    BY <1>1, <2>1, PreludeBlames, OpeningBlames, HandlersBlame DEF Reader
<1>2. CASE Configure
  BY <1>2, NotDone DEF Configure, SetNFCLocal, SetPhoneSerial
<1>3. CASE Server \/ Around \/ UNCHANGED vars
  <2>1. UNCHANGED <<pc, ret, lastErr, nfcType, serialLen, Faults>>
    BY <1>3 DEF Next, SameWorld, Server, Around, others, vars, config
  <2>2. QED
    BY <2>1 DEF SessionInv, CodeNamesCause, Causes
<1>4. QED
  BY <1>1, <1>2, <1>3 DEF Next

\* The invariant of the conversation, with what it delivers and blames.
LEMMA SessionInvariance == Spec => []SessionInv
<1>1. Init => SessionInv
  BY InitInv, InitConv
     DEF SessionInv, Delivered, OfOneSession, CodeNamesCause, Init
<1>2. SessionInv /\ [Next]_vars => SessionInv'
  BY NextInv, NextConv, DeliveredStep, BlameStep DEF SessionInv
<1>3. QED
  BY <1>1, <1>2, PTL DEF Spec

\* What the server decodes, and what the caller gets for it, are each of one
\* session, for every set of faults and every number of attempts.
THEOREM OneSessionHolds == Spec => []OneSession
<1>1. SessionInv => OneSession
  BY ServerSide DEF SessionInv, Delivered, OfOneSession, OneSession, DeliveredWhole
<1>2. QED
  BY <1>1, SessionInvariance, PTL

\* The server never gets a message it does not expect, but for one that the
\* card refused to give an answer for.
THEOREM StaysInStep == Spec => []InStep
<1>1. SessionInv => InStep
  BY ServerSide DEF SessionInv
<1>2. QED
  BY <1>1, SessionInvariance, PTL

\* A read that fails names the cause.
THEOREM CodesNameCauses == Spec => []CodeNamesCause
<1>1. SessionInv => CodeNamesCause
  BY DEF SessionInv
<1>2. QED
  BY <1>1, SessionInvariance, PTL

-----------------------------------------------------------------------------
(* A read gets shorter with every step                                     *)

\* How far the reader's thread is from the end of its attempt.
Place ==
  CASE pc = "verify"  -> 12 [] pc = "verifyrecv" -> 11 [] pc = "search"    -> 10
    [] pc = "connect" -> 9  [] pc = "reconnect"  -> 8  [] pc = "banner"    -> 7
    [] pc = "serial"  -> 6  [] pc = "dn"         -> 5  [] pc = "start"     -> 4
    [] pc = "loop"    -> 3  [] pc = "decode"     -> 2  [] pc = "done"      -> 1
    [] OTHER -> 0

\* What is left of a read: its attempts, then the steps of this one, then
\* what the far end can still say in it.
Remaining == 20000 * retry + 1000 * Place + NetworkLeft

Shortens ==
  pc # "idle" => pc' = "idle" \/ Remaining' \in 0..(Remaining - 1)

\* Three ways to come nearer the end: another attempt is used up, the thread
\* moves on, or it stays where it is and the conversation gets shorter.
NextAttempt == retry' = retry - 1 /\ NetworkLeft' = 0
MovesOn     == retry' = retry /\ Place' < Place /\ NetworkLeft' <= NetworkLeft + 181
TalksOn     == retry' = retry /\ Place' = Place /\ NetworkLeft' < NetworkLeft

LEMMA PlaceType == Place \in 0..12
BY DEF Place

LEMMA PlaceNext == (Place \in 0..12)'
BY PlaceType, PTL

LEMMA NearerEnd ==
  ASSUME TypeOK, TypeOK', NextAttempt \/ MovesOn \/ TalksOn
  PROVE  Remaining' \in 0..(Remaining - 1)
<1>1. /\ retry \in Nat /\ NetworkLeft \in Nat /\ retry' \in Nat /\ NetworkLeft' \in Nat
      /\ Place \in 0..12 /\ Place' \in 0..12
  BY MeasuredFacts, MeasuredNext, PlaceType, PlaceNext, RetryAssumption
     DEF TypeOK, TypeReader
<1>2. PICK r \in Nat, p \in 0..12, n \in Nat : r = retry /\ p = Place /\ n = NetworkLeft
  BY <1>1
<1>3. PICK r2 \in Nat, p2 \in 0..12, n2 \in Nat :
        r2 = retry' /\ p2 = Place' /\ n2 = NetworkLeft'
  BY <1>1
<1>4. Remaining = 20000 * r + 1000 * p + n
  BY <1>2 DEF Remaining
<1>5. Remaining' = 20000 * r2 + 1000 * p2 + n2
  BY <1>3 DEF Remaining
<1>6. \/ r2 = r - 1 /\ n2 = 0
      \/ r2 = r /\ p2 < p /\ n2 <= n + 181
      \/ r2 = r /\ p2 = p /\ n2 < n
  BY <1>2, <1>3 DEF NextAttempt, MovesOn, TalksOn
<1>7. 20000 * r2 + 1000 * p2 + n2 \in 0..(20000 * r + 1000 * p + n - 1)
  BY <1>6
<1>8. QED
  BY <1>4, <1>5, <1>7

\* A conversation that ended, one that just began and an untouched one.
LEMMA LeavingMoves ==
  ASSUME TypeOK, DisconnectServer, retry' = retry, Place' < Place
  PROVE  MovesOn
<1>1. NetworkLeft \in Nat
  BY MeasuredFacts DEF TypeOK
<1>2. NetworkLeft' = 0
  BY DisconnectingLeft
<1>3. PICK n \in Nat : n = NetworkLeft
  BY <1>1
<1>4. QED
  BY <1>2, <1>3 DEF MovesOn

LEMMA QuietMoves ==
  ASSUME TypeOK, UNCHANGED network, retry' = retry, Place' < Place
  PROVE  MovesOn
<1>1. NetworkLeft \in Nat
  BY MeasuredFacts DEF TypeOK
<1>2. PICK n \in Nat : n = NetworkLeft
  BY <1>1
<1>3. NetworkLeft' = n
  BY <1>2 DEF network, NetworkLeft, UpLeft, Incoming
<1>4. QED
  BY <1>2, <1>3 DEF MovesOn

LEMMA AbortMoves ==
  ASSUME TypeOK, NEW code, Abort(code), pc \notin {"idle", "done"}
  PROVE  MovesOn
<1>1. pc' = "done" /\ DisconnectServer /\ retry' = retry
  BY DEF Abort, Fail
<1>2. pc \in InSession \cup {"verify", "verifyrecv", "search", "connect", "reconnect"}
  BY DEF TypeOK, TypeReader, PreConn
<1>3. Place' < Place
  BY <1>1, <1>2 DEF Place, InSession
<1>4. QED
  BY <1>1, <1>3, LeavingMoves

\* Up to the connection.
LEMMA PreludeMoves ==
  ASSUME TypeOK, VerifyConnect \/ VerifyReply \/ SearchCard
  PROVE  MovesOn
<1>1. retry' = retry /\ UNCHANGED network
  BY DEF VerifyConnect, VerifyReply, SearchCard
<1>2. \/ pc = "verify" /\ pc' \in {"verifyrecv", "done"}
      \/ pc = "verifyrecv" /\ pc' \in {"search", "done"}
      \/ pc = "search" /\ pc' \in {"connect", "done"}
  BY DEF VerifyConnect, VerifyReply, SearchCard, Goto, Fail
<1>3. Place' < Place
  BY <1>2 DEF Place
<1>4. QED
  BY <1>1, <1>3, QuietMoves

LEMMA ConnectMoves ==
  ASSUME TypeOK, TypeOK', Connect
  PROVE  MovesOn
<1>1. retry' = retry /\ pc \in {"connect", "reconnect"}
  BY DEF Connect
<1>2. CASE ConnectServer /\ Goto("banner")
  <2>1. Place' < Place
    BY <1>1, <1>2 DEF Goto, Place
  <2>2. PICK n \in Nat, n2 \in Nat : n = NetworkLeft /\ n2 = NetworkLeft'
    BY MeasuredFacts, MeasuredNext DEF TypeOK
  <2>3. n2 <= n + 181
    BY <1>2, <2>2, ConnectingLeft
  <2>4. QED
    BY <1>1, <2>1, <2>2, <2>3 DEF MovesOn
<1>3. CASE ConnectFails /\ ((pc = "connect" /\ pc' = "reconnect") \/ pc' = "done")
  <2>1. Place' < Place /\ UNCHANGED network
    BY <1>1, <1>3 DEF ConnectFails, Place
  <2>2. QED
    BY <1>1, <2>1, QuietMoves
<1>4. QED
  BY <1>2, <1>3 DEF Connect, Goto, Fail

\* From the greeting to the start message.
LEMMA OpeningMoves ==
  ASSUME TypeOK, TypeOK', RecvBanner \/ SendSerial \/ ReadDN \/ SendStart
  PROVE  MovesOn
<1>1. pc \in {"banner", "serial", "dn", "start"}
  BY DEF RecvBanner, SendSerial, ReadDN, SendStart
<1>2. CASE \E code : Abort(code)
  BY <1>1, <1>2, AbortMoves
<1>3. CASE ~ \E code : Abort(code)
  <2>1. PICK n \in Nat, n2 \in Nat : n = NetworkLeft /\ n2 = NetworkLeft'
    BY MeasuredFacts, MeasuredNext DEF TypeOK
  <2>2. CASE RecvBanner
    <3>1. /\ pc = "banner" /\ pc' = "serial" /\ retry' = retry
          /\ toClt # <<>> /\ toClt' = Tail(toClt) /\ UNCHANGED <<conn, svr, toSvr>>
      BY <1>3, <2>2 DEF RecvBanner, Goto
    <3>2. n2 < n
      BY <2>1, <3>1, TakingLess DEF TypeOK
    <3>3. Place' < Place
      BY <3>1 DEF Place
    <3>4. QED
      BY <2>1, <3>1, <3>2, <3>3 DEF MovesOn
  <2>3. CASE SendSerial \/ SendStart
    <3>1. /\ \/ pc = "serial" /\ pc' = "dn"
             \/ pc = "start" /\ pc' = "loop"
          /\ retry' = retry /\ UNCHANGED <<conn, svr, toClt>>
          /\ \E m : SendData(m)
      BY <1>3, <2>3 DEF SendSerial, SendStart, Goto
    <3>2. n2 <= n + 3
      BY <2>1, <3>1, SendingAdds DEF TypeOK
    <3>3. Place' < Place
      BY <3>1 DEF Place
    <3>4. QED
      BY <2>1, <3>1, <3>2, <3>3 DEF MovesOn
  <2>4. CASE ReadDN
    <3>1. pc = "dn" /\ pc' = "start" /\ retry' = retry /\ UNCHANGED network
      BY <1>3, <2>4 DEF ReadDN, Goto
    <3>2. Place' < Place
      BY <3>1 DEF Place
    <3>3. QED
      BY <3>1, <3>2, QuietMoves
  <2>5. QED
    BY <2>2, <2>3, <2>4
<1>4. QED
  BY <1>2, <1>3

\* A frame of the receive loop is gone for good, and calls for one message at
\* most, which a stranger does not get.
LEMMA FrameTaken ==
  ASSUME TypeOK, TypeOK', pc = "loop", toClt # <<>>, toClt' = Tail(toClt),
         UNCHANGED <<conn, svr, retry>>, pc' \in {"loop", "decode"},
         toSvr' = toSvr \/ (svr # "noisy" /\ \E m : SendData(m))
  PROVE  MovesOn \/ TalksOn
<1>1. PICK n \in Nat, n2 \in Nat : n = NetworkLeft /\ n2 = NetworkLeft'
  BY MeasuredFacts, MeasuredNext DEF TypeOK
<1>2. n2 < n
  BY <1>1, TakingLess DEF TypeOK
<1>3. Place' = Place \/ Place' < Place
  <2>1. Place = 3
    BY DEF Place
  <2>2. CASE pc' = "loop"
    <3>1. Place' = 3
      BY <2>2 DEF Place
    <3>2. QED
      BY <2>1, <3>1
  <2>3. CASE pc' = "decode"
    <3>1. Place' = 2
      BY <2>3 DEF Place
    <3>2. QED
      BY <2>1, <3>1
  <2>4. QED
    BY <2>2, <2>3
<1>4. retry' = retry /\ n2 <= n + 181
  BY <1>2
<1>5. CASE Place' = Place
  BY <1>1, <1>2, <1>4, <1>5, Zenon DEF TalksOn
<1>6. CASE Place' < Place
  BY <1>1, <1>4, <1>6, Zenon DEF MovesOn
<1>7. QED
  BY <1>3, <1>5, <1>6

LEMMA HandlersMove ==
  ASSUME TypeOK, TypeOK', Conversation,
         \/ HandleIncert \/ HandleMsgAck \/ HandlePhotoAck1 \/ HandleFingerAck1
         \/ HandlePhotoAck2 \/ HandleFingerAck2 \/ HandleOtherCmd
  PROVE  MovesOn \/ TalksOn
<1>1. pc = "loop" /\ toClt # <<>>
  BY DEF HandleIncert, HandleMsgAck, HandlePhotoAck1, HandleFingerAck1, HandleAck1,
         HandlePhotoAck2, HandleFingerAck2, HandleOtherCmd, Handle, RecvCmd
<1>2. CASE \E code : Abort(code)
  BY <1>1, <1>2, AbortMoves
<1>3. CASE ~ \E code : Abort(code)
  <2>1. LoopAgain
    BY <1>3 DEF HandleIncert, HandleMsgAck, HandlePhotoAck1, HandleFingerAck1,
       HandleAck1, HandlePhotoAck2, HandleFingerAck2, HandleOtherCmd
  <2>2. CASE HandleOtherCmd
    BY <1>1, <2>1, <2>2, FrameTaken DEF HandleOtherCmd, LoopAgain, Goto
  <2>3. CASE ~HandleOtherCmd
    <3>1. \E m : SendData(m)
      BY <1>3, <2>3 DEF HandleIncert, HandleMsgAck, HandlePhotoAck1, HandleFingerAck1,
         HandleAck1, HandlePhotoAck2, HandleFingerAck2, SendSecond
    <3>2. CASE HandleIncert
      <4>1. Head(toClt).ok /\ RecvCmd("INCERT")
        BY <1>3, <3>2 DEF HandleIncert, Handle
      <4>2. svr # "noisy"
        BY <1>1, <4>1, StrangeCalls DEF RecvCmd
      <4>3. QED
        BY <1>1, <2>1, <3>1, <4>2, FrameTaken DEF LoopAgain, Goto
    <3>3. CASE ~HandleIncert
      <4>1. \E c \in {"MSG_ACK", "RDPHOTO_ACK1", "RDFINGERPRINT_ACK1", "RDPHOTO_ACK2",
                      "RDFINGERPRINT_ACK2"} : RecvCmd(c)
        BY <2>3, <3>3 DEF HandleMsgAck, HandlePhotoAck1, HandleFingerAck1, HandleAck1,
           HandlePhotoAck2, HandleFingerAck2, Handle
      <4>2. svr # "noisy"
        BY <1>1, <4>1, StrangeCmds
      <4>3. QED
        BY <1>1, <2>1, <3>1, <4>2, FrameTaken DEF LoopAgain, Goto
    <3>4. QED
      BY <3>2, <3>3
  <2>4. QED
    BY <2>2, <2>3
<1>4. QED
  BY <1>2, <1>3

LEMMA OutcertMoves ==
  ASSUME TypeOK, TypeOK', Conversation, HandleOutcert
  PROVE  NextAttempt \/ MovesOn \/ TalksOn
<1>1. pc = "loop" /\ toClt # <<>> /\ RecvCmd("OUTCERT")
  BY DEF HandleOutcert, Handle, RecvCmd
<1>2. CASE \E code : Abort(code)
  BY <1>1, <1>2, AbortMoves
<1>3. CASE LoopAgain /\ UNCHANGED toSvr
  BY <1>1, <1>3, FrameTaken DEF LoopAgain, Goto
<1>4. CASE Head(toClt).ok /\ OutcertAccepted /\ ~ \E code : Abort(code)
  <2>1. LoopAgain /\ \E m : SendData(m)
    BY <1>4 DEF OutcertAccepted
  <2>2. svr # "noisy"
    BY <1>1, <1>4, StrangeCalls DEF RecvCmd
  <2>3. QED
    BY <1>1, <2>1, <2>2, FrameTaken DEF LoopAgain, Goto
<1>5. CASE OutcertRejected
  BY <1>5, DisconnectingLeft DEF OutcertRejected, NextAttempt
<1>6. QED
  BY <1>2, <1>3, <1>4, <1>5 DEF HandleOutcert

LEMMA DataMoves ==
  ASSUME TypeOK, TypeOK', Conversation, HandleData
  PROVE  MovesOn \/ TalksOn
<1>1. /\ pc = "loop" /\ toClt # <<>> /\ Head(toClt).kind = "data"
      /\ toClt' = Tail(toClt) /\ UNCHANGED <<conn, svr, retry>>
  BY DEF HandleData
<1>2. CASE Head(toClt).ok
  <2>1. (\E m : SendData(m)) /\ pc' \in {"loop", "decode"}
    BY <1>2 DEF HandleData, Goto
  <2>2. svr # "noisy"
    BY <1>1, <1>2, StrangeCalls
  <2>3. QED
    BY <1>1, <2>1, <2>2, FrameTaken
<1>3. CASE ~Head(toClt).ok
  <2>1. toSvr' = toSvr /\ pc' = "loop"
    BY <1>3 DEF HandleData, Goto
  <2>2. QED
    BY <1>1, <2>1, FrameTaken
<1>4. QED
  BY <1>2, <1>3

LEMMA ReaderMoves ==
  ASSUME TypeOK, TypeOK', Conversation, Reader, ~JniReturn
  PROVE  NextAttempt \/ MovesOn \/ TalksOn
<1>1. CASE RecvFail \/ HandleBadType
  <2>1. pc \in {"banner", "loop"} /\ \E code : Abort(code)
    BY <1>1 DEF RecvFail, HandleBadType
  <2>2. QED
    BY <2>1, AbortMoves
<1>2. CASE Finish
  <2>1. pc = "decode" /\ pc' = "done" /\ DisconnectServer /\ retry' = retry
    BY <1>2 DEF Finish
  <2>2. Place' < Place
    BY <2>1 DEF Place
  <2>3. QED
    BY <2>1, <2>2, LeavingMoves
<1>3. CASE VerifyConnect \/ VerifyReply \/ SearchCard
  BY <1>3, PreludeMoves
<1>4. CASE Connect
  BY <1>4, ConnectMoves
<1>5. CASE RecvBanner \/ SendSerial \/ ReadDN \/ SendStart
  BY <1>5, OpeningMoves
<1>6. CASE HandleOutcert
  BY <1>6, OutcertMoves
<1>7. CASE HandleData
  BY <1>7, DataMoves
<1>8. CASE \/ HandleIncert \/ HandleMsgAck \/ HandlePhotoAck1 \/ HandleFingerAck1
           \/ HandlePhotoAck2 \/ HandleFingerAck2 \/ HandleOtherCmd
  BY <1>8, HandlersMove
<1>9. QED
  BY <1>1, <1>2, <1>3, <1>4, <1>5, <1>6, <1>7, <1>8 DEF Reader

LEMMA OutsideTalks ==
  ASSUME TypeOK, TypeOK', Server \/ Around
  PROVE  TalksOn
<1>1. UNCHANGED <<pc, retry>> /\ (SvrGreet \/ SvrHandle \/ StrangerSends \/ NetDrop)
  BY DEF Server, Around, others
<1>2. NetworkLeft' < NetworkLeft
  BY <1>1, FarSideLess DEF TypeOK, TypeSockets
<1>3. Place' = Place
  BY <1>1 DEF Place
<1>4. QED
  BY <1>1, <1>2, <1>3 DEF TalksOn

\* Every step of a read, of whichever process, ends the read or leaves less
\* of it: its attempts are numbered, each attempt moves from one place of
\* NFCCardReader to a later one, and the receive loop goes round only for a
\* frame of a conversation that gets shorter.
THEOREM EveryStepShortens == Spec => [][Shortens]_vars
<1>1. SessionInv /\ SessionInv' /\ [Next]_vars => [Shortens]_vars
  <2> SUFFICES ASSUME SessionInv, SessionInv', Next, pc # "idle", pc' # "idle"
               PROVE  Remaining' \in 0..(Remaining - 1)
    BY DEF Shortens
  <2>1. TypeOK /\ TypeOK' /\ Conversation
    BY DEF SessionInv, IInv
  <2>2. ~(Configure \/ StartRead \/ JniReturn)
    BY DEF Configure, SetNFCLocal, SetPhoneSerial, StartRead, JniReturn
  <2>3. (Reader /\ ~JniReturn) \/ Server \/ Around
    BY <2>2 DEF Next
  <2>4. NextAttempt \/ MovesOn \/ TalksOn
    BY <2>1, <2>3, ReaderMoves, OutsideTalks
  <2>5. QED
    BY <2>1, <2>4, NearerEnd
<1>2. QED
  BY <1>1, SessionInvariance, PTL DEF Spec

=============================================================================
