--------------------------- MODULE NfcDeviceProofs ---------------------------
(***************************************************************************)
(* Proofs about NfcDevice, for every set of device types and of faults and *)
(* any number of calls: what is opened is closed, a device in use finds    *)
(* its own globals and its own speed, a search finds the board, every call *)
(* gets shorter with every step, and what it loses is bounded.             *)
(***************************************************************************)
EXTENDS NfcDevice, TLAPS

Searching == {"check", "probe", "probing"}
Using     == {"serialopen", "serial", "cardopen", "card"}

\* The parameters are those of some SetNFCLocal; a live descriptor among them
\* still belongs to the application, and only a named board has no speed.
Params ==
  /\ m_nfcParam \in [product : Boards, speed : {0, NFC_READCARD_SPEED},
                     fd : 0..nfd, probed : BOOLEAN]
  /\ m_nfcParam.fd \in live => m_nfcParam.fd \in appfds
  /\ pc \in Using => m_iNFCType # UNKNOWN_NFC
  /\ m_iNFCType = UNKNOWN_NFC => m_nfcParam = NoParam
  /\ m_iNFCType # UNKNOWN_NFC =>
       m_nfcParam.speed = IF NamedBoard THEN 0 ELSE NFC_READCARD_SPEED

Counters ==
  /\ nfd \in Nat /\ watches \in Nat /\ calls \in Nat /\ plugs \in Nat
  /\ line \in Nat /\ g_otg_seep \in Nat

\* A descriptor is in the set of the function that opened it.
Kinds ==
  /\ m_iNFCType = SER_NFC => usbfds = {}
  /\ m_iNFCType # SER_NFC => ttys = {}
  /\ pc \in InUse /\ m_iNFCType \in {OTG_NFC, SER_NFC} => handle \notin appfds
  /\ pc \in InUse => m_iNFCType # UNKNOWN_NFC

\* Where a search stands: the products before the one it is at have not
\* answered, and if nothing was unplugged and no board was silent, a board
\* that was found is the one looked for, during the search and ever after.
Search ==
  /\ pc \in Searching =>
       /\ m_iNFCType = OTG_NFC /\ m_nfcParam.probed
       /\ \/ trying = 1 /\ m_nfcParam.product = "ch340"
          \/ trying = 2 /\ m_nfcParam.product = "ch341" /\ (steady => board # "ch340")
       /\ m_nfcParam.speed = NFC_READCARD_SPEED
       /\ steady /\ pc \in {"probe", "probing"} => board = m_nfcParam.product
  /\ pc \notin Searching /\ m_nfcParam.probed /\ steady /\ board # "none" =>
       m_nfcParam.product = board

IInv == /\ TypeOK /\ Params /\ Counters /\ Kinds /\ Search
        /\ GivenBack /\ OwnGlobals /\ OwnSpeed

-----------------------------------------------------------------------------
(* The numbers behind the names                                            *)

LEMMA Kinds4 ==
  /\ OTG_NFC = 1 /\ SER_NFC = 2 /\ OTG_NFC_ANDROID = 3 /\ UNKNOWN_NFC = 255
  /\ NFC_READCARD_SPEED = 115200 /\ NFC_READEEPROM_SPEED = 300
BY DEF OTG_NFC, SER_NFC, OTG_NFC_ANDROID, UNKNOWN_NFC, NFC_READCARD_SPEED,
       NFC_READEEPROM_SPEED

LEMMA Products ==
  /\ Len(NFC_PRODUCT_ID) = 2
  /\ NFC_PRODUCT_ID[1] = "ch340" /\ NFC_PRODUCT_ID[2] = "ch341"
  /\ Boards = {"none", "ch340", "ch341"}
BY DEF NFC_PRODUCT_ID, Boards

LEMMA InitInv == Init => IInv
<1> SUFFICES ASSUME Init PROVE IInv
  OBVIOUS
<1>a. g_otg_android_mode = FALSE /\ reading = FALSE /\ steady = FALSE
  BY DEF Init
<1>0. TypeFlags
  BY <1>a DEF TypeFlags
<1> USE Kinds4, Products
<1> USE DEF Init, NoParam, Param, InUse, Using, Searching
<1>1. TypeOK
  BY <1>0 DEF TypeOK
<1>2. Params /\ Counters
  BY DEF Params, NamedBoard, Counters
<1>3. Kinds /\ Search
  BY DEF Kinds, Search
<1>4. GivenBack /\ OwnGlobals /\ OwnSpeed
  BY DEF GivenBack, OwnGlobals, OwnSpeed, NamedBoard
<1>5. QED
  BY <1>1, <1>2, <1>3, <1>4 DEF IInv

-----------------------------------------------------------------------------
(* Opening and closing                                                     *)

\* Between uses nothing is open, and whatever OpenNFC does leaves the device
\* opened as its kind asks, or nothing open.
LEMMA Opens ==
  ASSUME IInv, pc \notin InUse, m_iNFCType # UNKNOWN_NFC,
         NEW s \in {0, NFC_READCARD_SPEED, NFC_READEEPROM_SPEED},
         OpenNFC(m_iNFCType, m_nfcParam, s)
  PROVE  /\ nfd' \in Nat /\ handle' \in 0..nfd' /\ nfd <= nfd'
         /\ usbfds' \cup ttys' \cup chkfds' \cup appfds' \cup live' \subseteq 1..nfd'
         /\ g_nfctype' = m_iNFCType
         /\ watches' \in Nat /\ line' \in Nat /\ g_otg_seep' \in Nat
         /\ m_nfcParam.fd \in live' => m_nfcParam.fd \in appfds'
         /\ usbfds' \cup ttys' = IF handle' # 0 THEN {handle'} \ appfds' ELSE {}
         /\ m_iNFCType = SER_NFC => usbfds' = {}
         /\ m_iNFCType # SER_NFC => ttys' = {}
         /\ handle' # 0 =>
              /\ m_iNFCType \in {OTG_NFC, SER_NFC} => handle' \notin appfds'
              /\ line' = Baud(s)
              /\ m_iNFCType # SER_NFC => g_otg_seep' = s
         /\ m_iNFCType = OTG_NFC => (handle' # 0 <=> board = m_nfcParam.product)
<1> USE Kinds4
<1>0. /\ handle = 0 /\ usbfds = {} /\ ttys = {} /\ nfd \in Nat /\ watches \in Nat
      /\ line \in Nat /\ g_otg_seep \in Nat
      /\ chkfds \cup appfds \cup live \subseteq 1..nfd
      /\ m_nfcParam.fd \in 0..nfd
      /\ m_nfcParam.fd \in live => m_nfcParam.fd \in appfds
  BY DEF IInv, TypeOK, Params, NamedBoard, Counters, GivenBack
<1>1. Baud(s) \in Nat /\ s \in Nat
  BY DEF Baud
<1>2. CASE m_iNFCType = OTG_NFC
  <2>1. g_nfctype' = OTG_NFC /\ OpenOTG(m_nfcParam.product, s)
    BY <1>2 DEF OpenNFC
  <2>2. CASE Found(m_nfcParam.product)
    BY <1>0, <1>1, <1>2, <2>1, <2>2 DEF OpenOTG, UsbOpen, SettingOTG, Found
  <2>3. CASE ~Found(m_nfcParam.product)
    BY <1>0, <1>1, <1>2, <2>1, <2>3 DEF OpenOTG, Found
  <2>4. QED
    BY <2>2, <2>3
<1>3. CASE m_iNFCType = OTG_NFC_ANDROID
  <2>1. g_nfctype' = OTG_NFC_ANDROID /\ OpenOTG_Android(m_nfcParam.fd, s)
    BY <1>3 DEF OpenNFC
  <2>2. CASE m_nfcParam.fd \in live
    BY <1>0, <1>1, <1>3, <2>1, <2>2 DEF OpenOTG_Android, SettingOTG
  <2>3. CASE m_nfcParam.fd \notin live
    BY <1>0, <1>1, <1>3, <2>1, <2>3 DEF OpenOTG_Android
  <2>4. QED
    BY <2>2, <2>3
<1>4. CASE m_iNFCType = SER_NFC
  <2>1. g_nfctype' = SER_NFC /\ OpenPort(s)
    BY <1>4 DEF OpenNFC
  <2>2. CASE board # "none"
    BY <1>0, <1>1, <1>4, <2>1, <2>2 DEF OpenPort, UsbOpen, SettingPort
  <2>3. CASE board = "none"
    BY <1>0, <1>1, <1>4, <2>1, <2>3 DEF OpenPort
  <2>4. QED
    BY <2>2, <2>3
<1>5. QED
  BY <1>2, <1>3, <1>4 DEF IInv, TypeOK

\* After an open of an OTG board the mode says whose the descriptor is.
LEMMA OpensMode ==
  ASSUME IInv, pc \notin InUse, m_iNFCType # UNKNOWN_NFC, NEW s \in Nat,
         OpenNFC(m_iNFCType, m_nfcParam, s), UNCHANGED <<reading, steady>>
  PROVE  /\ TypeFlags'
         /\ handle' # 0 /\ m_iNFCType # SER_NFC =>
              (g_otg_android_mode' <=> handle' \in appfds')
<1>0. /\ handle = 0 /\ nfd \in Nat /\ nfd + 1 \notin appfds
      /\ m_nfcParam.fd \in live => m_nfcParam.fd \in appfds
  BY DEF IInv, TypeOK, Params, NamedBoard, Counters
<1>1. TypeFlags
  BY DEF IInv, TypeOK
<1>2. CASE m_iNFCType = OTG_NFC
  <2>1. OpenOTG(m_nfcParam.product, s)
    BY <1>2, Kinds4 DEF OpenNFC
  <2>2. g_otg_android_mode' = FALSE
    BY <2>1 DEF OpenOTG
  <2>3. handle' # 0 => handle' \notin appfds'
    BY <1>0, <2>1 DEF OpenOTG, UsbOpen
  <2>4. TypeFlags'
    BY <1>1, <2>2 DEF TypeFlags
  <2>5. QED
    BY <2>2, <2>3, <2>4
<1>3. CASE m_iNFCType = OTG_NFC_ANDROID
  <2>1. OpenOTG_Android(m_nfcParam.fd, s)
    BY <1>3, Kinds4 DEF OpenNFC
  <2>2. g_otg_android_mode' = TRUE
    BY <2>1 DEF OpenOTG_Android
  <2>3. handle' # 0 => handle' \in appfds'
    BY <1>0, <2>1 DEF OpenOTG_Android
  <2>4. TypeFlags'
    BY <1>1, <2>2 DEF TypeFlags
  <2>5. QED
    BY <2>2, <2>3, <2>4
<1>4. CASE m_iNFCType = SER_NFC
  <2>1. OpenPort(s)
    BY <1>4, Kinds4 DEF OpenNFC
  <2>2. g_otg_android_mode' = g_otg_android_mode
    BY <2>1 DEF OpenPort
  <2>3. TypeFlags'
    BY <1>1, <2>2 DEF TypeFlags
  <2>4. QED
    BY <1>4, <2>3
<1>5. QED
  BY <1>2, <1>3, <1>4 DEF IInv, TypeOK

\* CloseNFC leaves nothing open: it takes the path by which the device in
\* use was opened.
LEMMA Closes ==
  ASSUME IInv, pc \in InUse, CloseNFC
  PROVE  /\ usbfds' = {} /\ ttys' = {} /\ handle' = 0
         /\ UNCHANGED <<globals, line, chkfds, watches, appfds, live, nfd>>
<1>1. /\ g_nfctype = m_iNFCType
      /\ usbfds \cup ttys = {handle} \ appfds
      /\ m_iNFCType = SER_NFC => usbfds = {} /\ handle \notin appfds
      /\ m_iNFCType # SER_NFC => ttys = {}
  BY Kinds4 DEF IInv, OwnGlobals, GivenBack, Kinds
<1>2. handle' = 0 /\ UNCHANGED <<globals, line, chkfds, watches, appfds, live, nfd>>
  BY DEF CloseNFC
<1>3. CASE m_iNFCType = SER_NFC
  BY <1>1, <1>2, <1>3, Kinds4 DEF CloseNFC, ClosePort
<1>4. CASE m_iNFCType # SER_NFC
  <2>1. g_otg_android_mode <=> handle \in appfds
    BY <1>4 DEF IInv, OwnGlobals
  <2>2. m_iNFCType \in {OTG_NFC, OTG_NFC_ANDROID}
    BY <1>4 DEF IInv, TypeOK, Kinds
  <2>3. CloseOTG(handle)
    BY <1>1, <2>2, Kinds4 DEF CloseNFC
  <2>4. usbfds' = (IF g_otg_android_mode THEN usbfds ELSE usbfds \ {handle})
        /\ ttys' = ttys
    BY <2>3 DEF CloseOTG
  <2>5. CASE handle \in appfds
    <3>1. usbfds' = usbfds
      BY <2>1, <2>4, <2>5
    <3>2. QED
      BY <1>1, <1>2, <1>4, <2>4, <2>5, <3>1
  <2>6. CASE handle \notin appfds
    <3>1. usbfds' = usbfds \ {handle}
      BY <2>1, <2>4, <2>6
    <3>2. QED
      BY <1>1, <1>2, <1>4, <2>4, <2>6, <3>1
  <2>7. QED
    BY <2>5, <2>6
<1>5. QED
  BY <1>2, <1>3, <1>4

-----------------------------------------------------------------------------
(* SetNFCLocal                                                             *)

\* A call that configures keeps the invariant if it sets parameters of their
\* type, whose descriptor, if alive, is the application's, and if what it
\* says about a search is so.
LEMMA Configured ==
  ASSUME IInv, pc = "idle", pc' \in {"idle", "check"},
         UNCHANGED <<globals, reading, handle, line, usbfds, ttys, chkfds, watches>>,
         UNCHANGED <<board, plugs>>, calls' \in Nat, TypeFlags',
         m_iNFCType' \in {OTG_NFC, SER_NFC, OTG_NFC_ANDROID, UNKNOWN_NFC},
         trying' \in 0..2, nfd' \in Nat, nfd <= nfd',
         appfds' \cup live' \subseteq 1..nfd', Params', Search'
  PROVE  IInv'
<1>0. TypeOK /\ nfd \in Nat
  BY DEF IInv, Counters
<1>1. TypeOK'
  <2>1. usbfds' \cup ttys' \cup chkfds' \cup appfds' \cup live' \subseteq 1..nfd'
    BY <1>0 DEF TypeOK
  <2>2. handle' \in 0..nfd' /\ (handle' # 0 <=> pc' \in InUse)
    BY <1>0 DEF TypeOK, InUse
  <2>3. g_nfctype' \in {OTG_NFC, SER_NFC, OTG_NFC_ANDROID, UNKNOWN_NFC}
    BY <1>0 DEF TypeOK, globals
  <2>4. pc' \in InUse \cup {"idle", "check", "probe", "serialopen", "cardopen"}
    OBVIOUS
  <2>5. trying' \in 0..Len(NFC_PRODUCT_ID) /\ board' \in Boards
    BY <1>0, Products DEF TypeOK
  <2>6. QED
    BY <2>1, <2>2, <2>3, <2>4, <2>5 DEF TypeOK
<1>2. Counters'
  BY DEF IInv, Counters, globals
<1>3. usbfds' = {} /\ ttys' = {} /\ pc' \notin InUse
  BY DEF IInv, GivenBack, InUse
<1>4. Kinds' /\ GivenBack' /\ OwnGlobals' /\ OwnSpeed'
  BY <1>3 DEF Kinds, GivenBack, OwnGlobals, OwnSpeed, NamedBoard, InUse
<1>5. QED
  BY <1>1, <1>2, <1>4 DEF IInv

LEMMA SetNFCLocalInv == IInv /\ SetNFCLocal => IInv'
<1> SUFFICES ASSUME IInv, SetNFCLocal PROVE IInv'
  OBVIOUS
<1>1. /\ pc = "idle" /\ calls' \in Nat
      /\ UNCHANGED <<globals, reading, handle, line, board, plugs>>
  BY DEF SetNFCLocal, Call, IInv, Counters
<1>2. /\ nfd \in Nat /\ nfd + 1 \in Nat /\ nfd <= nfd + 1 /\ 0 \notin live
      /\ appfds \cup live \subseteq 1..nfd
      /\ trying \in 0..2
  BY Products DEF IInv, TypeOK, Counters
<1>3. TypeFlags
  BY DEF IInv, TypeOK
<1>4. CASE ProbeFirst
  <2>1. /\ m_iNFCType' = OTG_NFC /\ pc' = "check" /\ trying' = 1
        /\ m_nfcParam' = Param("ch340", NFC_READCARD_SPEED, 0, TRUE)
        /\ UNCHANGED <<usbfds, ttys, chkfds, watches, appfds, live, nfd>>
    BY <1>4, Products DEF ProbeFirst, fds
  <2>2. steady' = TRUE /\ g_otg_android_mode' = g_otg_android_mode /\ reading' = reading
    BY <1>1, <1>4 DEF ProbeFirst, globals
  <2>3. TypeFlags'
    BY <1>3, <2>2 DEF TypeFlags
  <2>4. Params'
    BY <1>2, <2>1, Products, Kinds4 DEF Params, NamedBoard, Param, Using
  <2>5. Search'
    BY <2>1 DEF Search, Param, Searching
  <2>6. QED
    BY <1>1, <1>2, <2>1, <2>3, <2>4, <2>5, Configured
<1>5. ASSUME pc' = pc, trying' = trying, steady' = steady,
             UNCHANGED <<usbfds, ttys, chkfds, watches>>,
             m_iNFCType' \in {OTG_NFC, SER_NFC, OTG_NFC_ANDROID, UNKNOWN_NFC},
             nfd' \in Nat, nfd <= nfd',
             appfds' \cup live' \subseteq 1..nfd', Params', ~m_nfcParam'.probed
      PROVE  IInv'
  <2>1. g_otg_android_mode' = g_otg_android_mode /\ reading' = reading
    BY <1>1 DEF globals
  <2>2. TypeFlags'
    BY <1>3, <1>5, <2>1 DEF TypeFlags
  <2>3. Search'
    BY <1>1, <1>5 DEF Search, Searching
  <2>4. QED
    BY <1>1, <1>2, <1>5, <2>2, <2>3, Configured
<1>6. CASE SetNamed
  <2>1. PICK p \in Boards \ {"none"} : m_nfcParam' = Param(p, 0, 0, FALSE)
    BY <1>6 DEF SetNamed
  <2>2. /\ m_iNFCType' = OTG_NFC /\ UNCHANGED <<trying, pc, steady>>
        /\ UNCHANGED <<usbfds, ttys, chkfds, watches, appfds, live, nfd>>
    BY <1>6 DEF SetNamed, fds
  <2>3. Params' /\ ~m_nfcParam'.probed
    BY <1>1, <1>2, <2>1, <2>2, Products, Kinds4 DEF Params, NamedBoard, Param, Using
  <2>4. QED
    BY <1>2, <1>5, <2>2, <2>3
<1>7. CASE SetAndroid
  <2>1. /\ m_iNFCType' = OTG_NFC_ANDROID /\ UNCHANGED <<trying, pc, steady>>
        /\ m_nfcParam' = Param("none", NFC_READCARD_SPEED, nfd + 1, FALSE)
        /\ UNCHANGED <<usbfds, ttys, chkfds, watches>>
        /\ nfd' = nfd + 1
        /\ appfds' = appfds \cup {nfd + 1} /\ live' = live \cup {nfd + 1}
    BY <1>7 DEF SetAndroid
  <2>2. appfds' \cup live' \subseteq 1..nfd'
    BY <1>2, <2>1
  <2>3. Params' /\ ~m_nfcParam'.probed
    BY <1>1, <1>2, <2>1, Products, Kinds4 DEF Params, NamedBoard, Param, Using
  <2>4. QED
    BY <1>2, <1>5, <2>1, <2>2, <2>3
<1>8. CASE SetSerial
  <2>1. /\ m_iNFCType' = SER_NFC /\ UNCHANGED <<trying, pc, steady>>
        /\ m_nfcParam' = Param("none", NFC_READCARD_SPEED, 0, FALSE)
        /\ UNCHANGED <<usbfds, ttys, chkfds, watches, appfds, live, nfd>>
    BY <1>8 DEF SetSerial, fds
  <2>2. Params' /\ ~m_nfcParam'.probed
    BY <1>1, <1>2, <2>1, Products, Kinds4 DEF Params, NamedBoard, Param, Using
  <2>3. /\ m_iNFCType' \in {OTG_NFC, SER_NFC, OTG_NFC_ANDROID, UNKNOWN_NFC}
        /\ pc' = pc /\ trying' = trying /\ steady' = steady
        /\ nfd' \in Nat /\ nfd <= nfd' /\ appfds' \cup live' \subseteq 1..nfd'
    BY <1>2, <2>1
  <2>4. QED
    BY <1>5, <2>1, <2>2, <2>3
<1>9. CASE SetUnknown
  <2>1. /\ m_iNFCType' = UNKNOWN_NFC /\ UNCHANGED <<trying, pc, steady>>
        /\ m_nfcParam' = NoParam
        /\ UNCHANGED <<usbfds, ttys, chkfds, watches, appfds, live, nfd>>
    BY <1>9 DEF SetUnknown, fds
  <2>2. Params' /\ ~m_nfcParam'.probed
    BY <1>1, <1>2, <2>1, Products, Kinds4 DEF Params, NamedBoard, Param, NoParam, Using
  <2>3. QED
    BY <1>2, <1>5, <2>1, <2>2
<1>10. QED
  BY <1>4, <1>6, <1>7, <1>8, <1>9 DEF SetNFCLocal
-----------------------------------------------------------------------------
(* Steps that open or close a device                                       *)

Steps == InUse \cup {"idle", "check", "probe", "serialopen", "cardopen"}

LEMMA OpenedInv ==
  ASSUME IInv, pc \notin InUse, m_iNFCType # UNKNOWN_NFC,
         NEW s \in {0, NFC_READCARD_SPEED, NFC_READEEPROM_SPEED},
         OpenNFC(m_iNFCType, m_nfcParam, s),
         UNCHANGED <<m_iNFCType, reading, board, steady, calls, plugs>>,
         pc' \in Steps, handle' # 0 <=> pc' \in InUse, trying' \in 0..2,
         Params', Search', OwnSpeed'
  PROVE  IInv'
<1>0. TypeOK /\ s \in Nat /\ calls \in Nat /\ plugs \in Nat
  BY Kinds4 DEF IInv, Counters
<1>1. TypeFlags'
  BY <1>0, OpensMode
<1>2. TypeOK'
  <2>1. g_nfctype' \in {OTG_NFC, SER_NFC, OTG_NFC_ANDROID, UNKNOWN_NFC}
        /\ m_iNFCType' \in {OTG_NFC, SER_NFC, OTG_NFC_ANDROID, UNKNOWN_NFC}
    BY <1>0, Opens DEF TypeOK
  <2>2. usbfds' \cup ttys' \cup chkfds' \cup appfds' \cup live' \subseteq 1..nfd'
        /\ handle' \in 0..nfd'
    BY Opens
  <2>3. trying' \in 0..Len(NFC_PRODUCT_ID) /\ board' \in Boards
    BY <1>0, Products DEF TypeOK
  <2>4. QED
    BY <1>1, <2>1, <2>2, <2>3 DEF TypeOK, Steps
<1>3. Counters'
  BY <1>0, Opens DEF Counters
<1>4. Kinds'
  BY Opens DEF Kinds
<1>5. GivenBack'
  BY Opens DEF GivenBack
<1>6. OwnGlobals'
  BY <1>0, Opens, OpensMode DEF OwnGlobals
<1>7. QED
  BY <1>2, <1>3, <1>4, <1>5, <1>6 DEF IInv

LEMMA ClosedInv ==
  ASSUME IInv, pc \in InUse, CloseNFC,
         UNCHANGED <<m_iNFCType, reading, board, calls, plugs>>, steady' \in BOOLEAN,
         pc' \in Steps \ InUse, trying' \in 0..2, Params', Search'
  PROVE  IInv'
<1>0. TypeOK /\ TypeFlags
  BY DEF IInv, TypeOK
<1>1. TypeFlags'
  <2>1. g_otg_android_mode' = g_otg_android_mode /\ reading' = reading
    BY Closes DEF globals
  <2>2. QED
    BY <1>0, <2>1 DEF TypeFlags
<1>2. TypeOK'
  <2>1. g_nfctype' \in {OTG_NFC, SER_NFC, OTG_NFC_ANDROID, UNKNOWN_NFC}
        /\ m_iNFCType' \in {OTG_NFC, SER_NFC, OTG_NFC_ANDROID, UNKNOWN_NFC}
    BY <1>0, Closes DEF TypeOK, globals
  <2>2. usbfds' \cup ttys' \cup chkfds' \cup appfds' \cup live' \subseteq 1..nfd'
        /\ handle' \in 0..nfd' /\ handle' = 0
    BY <1>0, Closes DEF TypeOK, IInv, Counters
  <2>3. trying' \in 0..Len(NFC_PRODUCT_ID) /\ board' \in Boards
    BY <1>0, Products DEF TypeOK
  <2>4. QED
    BY <1>1, <2>1, <2>2, <2>3 DEF TypeOK, Steps
<1>3. Counters'
  BY Closes DEF Counters, globals, IInv
<1>4. Kinds' /\ GivenBack' /\ OwnGlobals' /\ OwnSpeed'
  BY Closes DEF Kinds, GivenBack, OwnGlobals, OwnSpeed, NamedBoard, InUse
<1>5. QED
  BY <1>2, <1>3, <1>4 DEF IInv
-----------------------------------------------------------------------------
(* The search                                                              *)

\* Going on to the next product keeps what is known of those before, and
\* stopping at the one that answered makes it the product.
LEMMA Advances ==
  ASSUME IInv, pc \in Searching, NEW found \in BOOLEAN, NextProduct(found),
         UNCHANGED <<m_iNFCType, board>>, steady' => steady,
         found => (steady' => board = m_nfcParam.product),
         ~found => (steady' => board # m_nfcParam.product),
         nfd' \in Nat, nfd <= nfd',
         m_nfcParam.fd \in live' => m_nfcParam.fd \in appfds'
  PROVE  /\ trying' \in 0..2 /\ pc' \in {"check", "idle"}
         /\ Params' /\ Search'
<1>0. /\ m_nfcParam \in [product : Boards, speed : {0, NFC_READCARD_SPEED},
                          fd : 0..nfd, probed : BOOLEAN]
      /\ m_iNFCType = OTG_NFC /\ m_nfcParam.probed
      /\ \/ trying = 1 /\ m_nfcParam.product = "ch340"
         \/ trying = 2 /\ m_nfcParam.product = "ch341" /\ (steady => board # "ch340")
      /\ m_nfcParam.speed = NFC_READCARD_SPEED
      /\ board \in Boards /\ nfd \in Nat
  BY DEF IInv, Params, NamedBoard, Search, TypeOK, Counters
<1>1. CASE ~found /\ trying = 1
  <2>1. /\ trying' = 2 /\ pc' = "check"
        /\ m_nfcParam' = [m_nfcParam EXCEPT !.product = "ch341"]
    BY <1>1, Products DEF NextProduct
  <2>2. Params'
    BY <1>0, <2>1, Products, Kinds4 DEF Params, NamedBoard, Using
  <2>3. Search'
    BY <1>0, <1>1, <2>1, Products DEF Search, Searching
  <2>4. QED
    BY <2>1, <2>2, <2>3
<1>2. CASE found \/ trying = 2
  <2>1. trying' = 0 /\ pc' = "idle" /\ m_nfcParam' = m_nfcParam
    BY <1>2, Products DEF NextProduct
  <2>2. Params'
    BY <1>0, <2>1, Kinds4 DEF Params, NamedBoard, Using
  <2>3. Search'
    BY <1>0, <1>2, <2>1, Products DEF Search, Searching
  <2>4. QED
    BY <2>1, <2>2, <2>3
<1>3. QED
  BY <1>0, <1>1, <1>2

LEMMA CheckOTGInv == IInv /\ CheckOTG => IInv'
<1> SUFFICES ASSUME IInv, CheckOTG PROVE IInv'
  OBVIOUS
<1>0. /\ pc = "check" /\ watches' = watches + 1
      /\ UNCHANGED <<m_iNFCType, globals, reading, handle, line, board, steady>>
      /\ UNCHANGED <<usbfds, ttys, appfds, live, calls, plugs>>
  BY DEF CheckOTG
<1>1. TypeOK /\ TypeFlags /\ nfd \in Nat /\ handle = 0 /\ usbfds = {} /\ ttys = {}
  BY <1>0 DEF IInv, TypeOK, Counters, GivenBack, InUse
<1>2. TypeFlags'
  <2>1. /\ g_otg_android_mode' = g_otg_android_mode
        /\ reading' = reading /\ steady' = steady
    BY <1>0 DEF globals
  <2>2. QED
    BY <1>1, <2>1 DEF TypeFlags
<1>3. ASSUME nfd' \in Nat, nfd <= nfd', chkfds' \subseteq 1..nfd',
             pc' \in Steps \ InUse, trying' \in 0..2, Params', Search'
      PROVE  IInv'
  <2>1. TypeOK'
    <3>1. g_nfctype' \in {OTG_NFC, SER_NFC, OTG_NFC_ANDROID, UNKNOWN_NFC}
          /\ m_iNFCType' \in {OTG_NFC, SER_NFC, OTG_NFC_ANDROID, UNKNOWN_NFC}
      BY <1>0, <1>1 DEF TypeOK, globals
    <3>2. usbfds' \cup ttys' \cup chkfds' \cup appfds' \cup live' \subseteq 1..nfd'
          /\ handle' \in 0..nfd' /\ handle' = 0
      <4>1. usbfds \cup ttys \cup chkfds \cup appfds \cup live \subseteq 1..nfd
        BY <1>1 DEF TypeOK
      <4>2. /\ usbfds' = usbfds /\ ttys' = ttys /\ appfds' = appfds /\ live' = live
            /\ handle' = handle
        BY <1>0
      <4>3. nfd \in Nat /\ nfd' \in Nat /\ nfd <= nfd' /\ chkfds' \subseteq 1..nfd'
        BY <1>1, <1>3
      <4>4. handle = 0
        BY <1>1
      <4>5. 1..nfd \subseteq 1..nfd' /\ 0 \in 0..nfd'
        BY <4>3
      <4>6. handle' \in 0..nfd' /\ handle' = 0
        BY <4>2, <4>4, <4>5
      <4>7. usbfds' \cup ttys' \cup chkfds' \cup appfds' \cup live' \subseteq 1..nfd'
        BY <4>1, <4>2, <4>3, <4>5
      <4>8. QED
        BY <4>6, <4>7
    <3>3. trying' \in 0..Len(NFC_PRODUCT_ID) /\ board' \in Boards
      BY <1>0, <1>1, <1>3, Products DEF TypeOK
    <3>4. QED
      BY <1>2, <1>3, <3>1, <3>2, <3>3 DEF TypeOK, Steps
  <2>2. Counters'
    BY <1>0, <1>3 DEF Counters, globals, IInv
  <2>3. Kinds' /\ GivenBack' /\ OwnGlobals' /\ OwnSpeed'
    BY <1>0, <1>1, <1>3 DEF Kinds, GivenBack, OwnGlobals, OwnSpeed, NamedBoard, InUse
  <2>4. QED
    BY <1>3, <2>1, <2>2, <2>3 DEF IInv
<1>4. CASE Found(m_nfcParam.product)
  <2>1. /\ nfd' = nfd + 1 /\ pc' = "probe" /\ UNCHANGED <<trying, m_nfcParam>>
        /\ chkfds' \subseteq chkfds \cup {nfd + 1}
    BY <1>4 DEF CheckOTG
  <2>2. chkfds' \subseteq 1..nfd' /\ trying' \in 0..2
    BY <1>1, <2>1, Products DEF TypeOK
  <2>3. Params'
    BY <1>0, <1>1, <2>1 DEF IInv, Params, NamedBoard, Using
  <2>4. Search'
    BY <1>0, <1>4, <2>1 DEF IInv, Search, Searching, Found
  <2>5. QED
    BY <1>1, <1>3, <2>1, <2>2, <2>3, <2>4 DEF Steps, InUse
<1>5. CASE ~Found(m_nfcParam.product)
  <2>1. NextProduct(FALSE) /\ nfd' = nfd /\ chkfds' = chkfds
    BY <1>5 DEF CheckOTG
  <2>2. m_nfcParam.fd \in live' => m_nfcParam.fd \in appfds'
    BY <1>0 DEF IInv, Params, NamedBoard
  <2>3. steady' = steady /\ board # m_nfcParam.product
    <3>1. steady' = steady
      BY <1>0
    <3>2. board # m_nfcParam.product
      BY <1>5 DEF Found
    <3>3. QED
      BY <3>1, <3>2
  <2>4. steady' => steady
    BY <2>3
  <2>5. m_iNFCType' = m_iNFCType /\ board' = board /\ pc \in Searching
    BY <1>0 DEF Searching
  <2>6. nfd' \in Nat /\ nfd <= nfd'
    BY <1>1, <2>1
  <2>7. trying' \in 0..2 /\ pc' \in {"check", "idle"} /\ Params' /\ Search'
    BY <2>1, <2>2, <2>3, <2>4, <2>5, <2>6, Advances
  <2>8. QED
    BY <1>1, <1>3, <2>1, <2>7 DEF TypeOK, Steps, InUse
<1>6. QED
  BY <1>4, <1>5

LEMMA ProbeOpenInv == IInv /\ ProbeOpen => IInv'
<1> SUFFICES ASSUME IInv, ProbeOpen PROVE IInv'
  OBVIOUS
<1>0. /\ pc = "probe" /\ pc \notin InUse /\ m_iNFCType = OTG_NFC
      /\ m_nfcParam.speed = NFC_READCARD_SPEED
      /\ OpenNFC(m_iNFCType, m_nfcParam, m_nfcParam.speed)
      /\ UNCHANGED <<m_iNFCType, reading, board, steady, calls, plugs>>
      /\ m_iNFCType # UNKNOWN_NFC
      /\ nfd \in Nat /\ trying \in 0..2
  BY Products, Kinds4 DEF IInv, ProbeOpen, Search, Searching, InUse, Counters, TypeOK
<1>1. /\ nfd' \in Nat /\ nfd <= nfd'
      /\ m_nfcParam.fd \in live' => m_nfcParam.fd \in appfds'
      /\ handle' # 0 <=> board = m_nfcParam.product
      /\ handle' # 0 => g_otg_seep' = NFC_READCARD_SPEED
  BY <1>0, Opens, Kinds4
<1>2. CASE handle' # 0
  <2>1. pc' = "probing" /\ UNCHANGED <<trying, m_nfcParam>>
    BY <1>2 DEF ProbeOpen
  <2>2. Params'
    BY <1>0, <1>1, <2>1 DEF IInv, Params, NamedBoard, Using
  <2>3. Search'
    BY <1>0, <1>1, <1>2, <2>1 DEF IInv, Search, Searching
  <2>4. OwnSpeed'
    BY <1>0, <1>1, <1>2, <2>1, Kinds4 DEF OwnSpeed, NamedBoard, InUse
  <2>5. QED
    BY <1>0, <1>2, <2>1, <2>2, <2>3, <2>4, OpenedInv DEF Steps, InUse
<1>3. CASE handle' = 0
  <2>1. NextProduct(FALSE)
    BY <1>3 DEF ProbeOpen
  <2>2. trying' \in 0..2 /\ pc' \in {"check", "idle"} /\ Params' /\ Search'
    BY <1>0, <1>1, <1>3, <2>1, Advances DEF Searching
  <2>3. OwnSpeed'
    BY <2>2 DEF OwnSpeed, NamedBoard, InUse
  <2>4. QED
    BY <1>0, <1>3, <2>2, <2>3, OpenedInv DEF Steps, InUse
<1>4. QED
  BY <1>2, <1>3

LEMMA ProbeInv == IInv /\ Probe => IInv'
<1> SUFFICES ASSUME IInv, Probe PROVE IInv'
  OBVIOUS
<1>0. /\ pc = "probing" /\ pc \in InUse /\ CloseNFC
      /\ UNCHANGED <<m_iNFCType, reading, board, calls, plugs>>
      /\ steady \in BOOLEAN /\ nfd \in Nat
  BY DEF IInv, Probe, InUse, TypeOK, TypeFlags, Counters
<1>1. /\ nfd' = nfd /\ live' = live /\ appfds' = appfds
      /\ m_nfcParam.fd \in live' => m_nfcParam.fd \in appfds'
  BY <1>0, Closes DEF IInv, Params, NamedBoard
<1>2. ASSUME NEW found \in BOOLEAN, NextProduct(found), steady' \in BOOLEAN,
             steady' => steady /\ found
      PROVE  IInv'
  <2>1. steady => board = m_nfcParam.product
    BY <1>0 DEF IInv, Search, Searching
  <2>2. trying' \in 0..2 /\ pc' \in {"check", "idle"} /\ Params' /\ Search'
    BY <1>0, <1>1, <1>2, <2>1, Advances DEF Searching
  <2>3. QED
    BY <1>0, <1>2, <2>2, ClosedInv DEF Steps, InUse
<1>3. CASE NextProduct(TRUE) /\ steady' = steady
  BY <1>0, <1>2, <1>3
<1>4. CASE NextProduct(FALSE) /\ steady' = FALSE
  BY <1>2, <1>4
<1>5. QED
  BY <1>3, <1>4 DEF Probe

-----------------------------------------------------------------------------
(* Reading the serial and the card                                         *)

LEMMA BeginInv == IInv /\ Begin => IInv'
<1> SUFFICES ASSUME IInv, Begin PROVE IInv'
  OBVIOUS
<1>0. /\ pc = "idle" /\ pc' = "serialopen" /\ calls' \in Nat
      /\ m_nfcParam # NoParam
      /\ UNCHANGED <<m_iNFCType, m_nfcParam, trying, handle, line, board, plugs>>
      /\ UNCHANGED <<usbfds, ttys, chkfds, watches, appfds, live, nfd>>
      /\ g_nfctype' = g_nfctype /\ g_otg_seep' = g_otg_seep
  BY DEF Begin, Call, config, globals, fds, IInv, Counters
<1>1. TypeOK /\ TypeFlags
  BY DEF IInv, TypeOK
<1>2. TypeFlags'
  <2>1. /\ g_otg_android_mode' = g_otg_android_mode /\ steady' = steady
        /\ reading' \in BOOLEAN
    BY DEF Begin, globals
  <2>2. QED
    BY <1>1, <2>1 DEF TypeFlags
<1>3. TypeOK'
  <2>1. handle' # 0 <=> pc' \in InUse
    BY <1>0, <1>1 DEF TypeOK, InUse
  <2>2. QED
    BY <1>0, <1>1, <1>2, <2>1 DEF TypeOK
<1>4. Params' /\ Counters'
  BY <1>0 DEF IInv, Params, NamedBoard, Counters, Using
<1>5. Search'
  BY <1>0 DEF IInv, Search, Searching, Begin
<1>6. usbfds' = {} /\ ttys' = {} /\ pc' \notin InUse
  BY <1>0 DEF IInv, GivenBack, InUse
<1>7. Kinds' /\ GivenBack' /\ OwnGlobals' /\ OwnSpeed'
  BY <1>0, <1>6 DEF Kinds, GivenBack, OwnGlobals, OwnSpeed, NamedBoard, InUse
<1>8. QED
  BY <1>3, <1>4, <1>5, <1>7 DEF IInv

\* Reading keeps the parameters, and what is known of an earlier search.
LEMMA UsingKeeps ==
  ASSUME IInv, pc \in Using, UNCHANGED <<m_iNFCType, m_nfcParam, trying, board>>,
         steady' = steady, pc' \in Using \cup {"idle"},
         nfd' \in Nat, nfd <= nfd',
         m_nfcParam.fd \in live' => m_nfcParam.fd \in appfds'
  PROVE  trying' \in 0..2 /\ Params' /\ Search'
<1>1. trying' \in 0..2
  BY Products DEF IInv, TypeOK
<1>2. Params'
  <2>1. /\ m_nfcParam \in [product : Boards, speed : {0, NFC_READCARD_SPEED},
                           fd : 0..nfd, probed : BOOLEAN]
        /\ m_iNFCType # UNKNOWN_NFC /\ nfd \in Nat
        /\ m_nfcParam.speed = IF NamedBoard THEN 0 ELSE NFC_READCARD_SPEED
    BY DEF IInv, Params, Counters
  <2>2. 0..nfd \subseteq 0..nfd'
    BY <2>1
  <2>3. m_nfcParam' \in [product : Boards, speed : {0, NFC_READCARD_SPEED},
                         fd : 0..nfd', probed : BOOLEAN]
    BY <2>1, <2>2
  <2>4. NamedBoard' <=> NamedBoard
    BY DEF NamedBoard
  <2>5. QED
    BY <2>1, <2>3, <2>4 DEF Params
<1>3. Search'
  BY DEF IInv, Search, Searching, Using
<1>4. QED
  BY <1>1, <1>2, <1>3

LEMMA SerialOpenInv == IInv /\ SerialOpen => IInv'
<1> SUFFICES ASSUME IInv, SerialOpen PROVE IInv'
  OBVIOUS
<1>0. /\ pc = "serialopen" /\ pc \notin InUse /\ pc \in Using
      /\ OpenNFC(m_iNFCType, m_nfcParam, NFC_READEEPROM_SPEED)
      /\ pc' = IF handle' # 0 THEN "serial" ELSE "idle"
      /\ UNCHANGED <<m_iNFCType, reading, board, steady, calls, plugs>>
      /\ UNCHANGED <<m_nfcParam, trying>>
  BY DEF SerialOpen, SerialSpeed, config, Using, InUse
<1>1. /\ m_iNFCType # UNKNOWN_NFC /\ nfd \in Nat
  BY <1>0 DEF IInv, Params, NamedBoard, Counters
<1>2. /\ nfd' \in Nat /\ nfd <= nfd'
      /\ m_nfcParam.fd \in live' => m_nfcParam.fd \in appfds'
      /\ handle' # 0 => /\ line' = Baud(NFC_READEEPROM_SPEED)
                        /\ m_iNFCType # SER_NFC => g_otg_seep' = NFC_READEEPROM_SPEED
  BY <1>0, <1>1, Opens
<1>3. pc' \in Using \cup {"idle"} /\ pc' \in Steps /\ (handle' # 0 <=> pc' \in InUse)
  BY <1>0 DEF Using, Steps, InUse
<1>4. steady' = steady
  BY DEF SerialOpen
<1>5. trying' \in 0..2 /\ Params' /\ Search'
  BY <1>0, <1>2, <1>3, <1>4, UsingKeeps
<1>6. OwnSpeed'
  BY <1>0, <1>2, Kinds4 DEF OwnSpeed, NamedBoard, InUse, Baud
<1>7. QED
  BY <1>0, <1>1, <1>3, <1>5, <1>6, OpenedInv

LEMMA CardOpenInv == IInv /\ CardOpen => IInv'
<1> SUFFICES ASSUME IInv, CardOpen PROVE IInv'
  OBVIOUS
<1>0. /\ pc = "cardopen" /\ pc \notin InUse /\ pc \in Using
      /\ OpenNFC(m_iNFCType, m_nfcParam, m_nfcParam.speed)
      /\ pc' = IF handle' # 0 THEN "card" ELSE "idle"
      /\ UNCHANGED <<m_iNFCType, reading, board, steady, calls, plugs>>
      /\ UNCHANGED <<m_nfcParam, trying>>
  BY DEF CardOpen, config, Using, InUse
<1>1. /\ m_iNFCType # UNKNOWN_NFC /\ nfd \in Nat
      /\ m_nfcParam.speed = IF NamedBoard THEN 0 ELSE NFC_READCARD_SPEED
      /\ m_nfcParam.speed \in {0, NFC_READCARD_SPEED}
  BY <1>0 DEF IInv, Params, Counters
<1>2. /\ nfd' \in Nat /\ nfd <= nfd'
      /\ m_nfcParam.fd \in live' => m_nfcParam.fd \in appfds'
      /\ handle' # 0 => /\ line' = Baud(m_nfcParam.speed)
                        /\ m_iNFCType # SER_NFC => g_otg_seep' = m_nfcParam.speed
  BY <1>0, <1>1, Opens
<1>3. pc' \in Using \cup {"idle"} /\ pc' \in Steps /\ (handle' # 0 <=> pc' \in InUse)
  BY <1>0 DEF Using, Steps, InUse
<1>4. steady' = steady
  BY DEF CardOpen
<1>5. trying' \in 0..2 /\ Params' /\ Search'
  BY <1>0, <1>2, <1>3, <1>4, UsingKeeps
<1>6. OwnSpeed'
  <2>1. NamedBoard' <=> NamedBoard
    BY <1>0 DEF NamedBoard
  <2>2. Baud(m_nfcParam.speed) = IF NamedBoard THEN 9600 ELSE NFC_READCARD_SPEED
    BY <1>1, Kinds4 DEF Baud
  <2>3. pc' = "card" => handle' # 0
    BY <1>0
  <2>4. pc' = "card" => line' = IF NamedBoard' THEN 9600 ELSE NFC_READCARD_SPEED
    BY <1>2, <2>1, <2>2, <2>3
  <2>5. pc' # "serial" /\ (handle' # 0 => g_otg_seep' # NFC_READEEPROM_SPEED \/ m_iNFCType = SER_NFC)
    BY <1>0, <1>1, <1>2, Kinds4
  <2>6. QED
    BY <1>0, <2>3, <2>4, <2>5 DEF OwnSpeed, InUse
<1>7. QED
  BY <1>0, <1>1, <1>3, <1>5, <1>6, OpenedInv

\* However the serial or the card session ends, the device is closed.
LEMMA UsedInv ==
  ASSUME IInv, pc \in {"serial", "card"}, CloseNFC,
         UNCHANGED <<config, trying, reading, board, steady, calls, plugs>>,
         pc' \in {"idle", "cardopen"}
  PROVE  IInv'
<1>0. pc \in InUse /\ pc \in Using /\ nfd \in Nat /\ steady \in BOOLEAN
  BY DEF InUse, Using, IInv, Counters, TypeOK, TypeFlags
<1>1. m_iNFCType' = m_iNFCType /\ m_nfcParam' = m_nfcParam
  BY DEF config
<1>2. /\ nfd' = nfd /\ live' = live /\ appfds' = appfds
      /\ m_nfcParam.fd \in live' => m_nfcParam.fd \in appfds'
  BY <1>0, Closes DEF IInv, Params, NamedBoard
<1>3. pc' \in Using \cup {"idle"} /\ pc' \in Steps \ InUse
  BY DEF Using, Steps, InUse
<1>4. steady' = steady
  OBVIOUS
<1>5. trying' \in 0..2 /\ Params' /\ Search'
  BY <1>0, <1>1, <1>2, <1>3, <1>4, UsingKeeps
<1>6. steady' \in BOOLEAN
  BY <1>0, <1>4
<1>7. QED
  BY <1>0, <1>1, <1>3, <1>5, <1>6, ClosedInv

LEMMA SerialReadInv == IInv /\ SerialRead => IInv'
<1> SUFFICES ASSUME IInv, SerialRead PROVE IInv'
  OBVIOUS
<1>1. /\ pc = "serial" /\ CloseNFC
      /\ UNCHANGED <<config, trying, reading, board, steady, calls, plugs>>
  BY DEF SerialRead, SerialClose
<1>2. pc' \in {"idle", "cardopen"}
  BY DEF SerialRead
<1>3. QED
  BY <1>1, <1>2, UsedInv

LEMMA CardCloseInv == IInv /\ CardClose => IInv'
BY UsedInv DEF CardClose

-----------------------------------------------------------------------------
(* The world outside                                                       *)

\* After the board is plugged in or out no descriptor is alive.
LEMMA PlugInv == IInv /\ Plug => IInv'
<1> SUFFICES ASSUME IInv, Plug PROVE IInv'
  OBVIOUS
<1>0. /\ plugs' = plugs + 1 /\ board' \in Boards /\ live' = {}
      /\ UNCHANGED <<m_iNFCType, m_nfcParam, pc, trying, handle, line, calls>>
      /\ UNCHANGED <<usbfds, ttys, chkfds, watches, appfds, nfd>>
      /\ g_nfctype' = g_nfctype /\ g_otg_seep' = g_otg_seep
  BY DEF Plug, config, globals
<1>1. TypeOK /\ TypeFlags
  BY DEF IInv, TypeOK
<1>2. /\ g_otg_android_mode' = g_otg_android_mode
      /\ reading' = reading /\ steady' = FALSE
  BY DEF Plug, globals
<1>3. TypeFlags'
  BY <1>1, <1>2 DEF TypeFlags
<1>4. TypeOK'
  BY <1>0, <1>1, <1>3 DEF TypeOK
<1>5. Params' /\ Counters' /\ Kinds' /\ GivenBack' /\ OwnSpeed'
  BY <1>0 DEF IInv, Params, NamedBoard, Counters, Kinds, GivenBack, OwnSpeed
<1>6. ~steady'
  BY <1>2
<1>7. Search'
  BY <1>0, <1>6 DEF IInv, Search, Searching
<1>8. OwnGlobals'
  <2>1. OwnGlobals
    BY DEF IInv
  <2>2. QED
    BY <1>0, <1>2, <2>1 DEF OwnGlobals
<1>9. QED
  BY <1>4, <1>5, <1>7, <1>8 DEF IInv

\* Nothing is in use when the application closes a descriptor of its own.
LEMMA AppClosesInv == IInv /\ AppCloses => IInv'
<1> SUFFICES ASSUME IInv, AppCloses PROVE IInv'
  OBVIOUS
<1>0. /\ pc = "idle" /\ pc' = pc
      /\ UNCHANGED <<m_iNFCType, m_nfcParam, trying, handle, line, board, calls, plugs>>
      /\ UNCHANGED <<usbfds, ttys, chkfds, watches, nfd>>
      /\ g_nfctype' = g_nfctype /\ g_otg_seep' = g_otg_seep
  BY DEF AppCloses, config, globals
<1>1. PICK fd \in appfds : appfds' = appfds \ {fd} /\ live' = live \ {fd}
  BY DEF AppCloses
<1>2. TypeOK /\ TypeFlags
  BY DEF IInv, TypeOK
<1>3. /\ g_otg_android_mode' = g_otg_android_mode
      /\ reading' = reading /\ steady' = steady
  BY DEF AppCloses, globals
<1>4. TypeFlags'
  BY <1>2, <1>3 DEF TypeFlags
<1>5. TypeOK'
  BY <1>0, <1>1, <1>2, <1>4 DEF TypeOK
<1>6. Params' /\ Counters'
  BY <1>0, <1>1 DEF IInv, Params, NamedBoard, Counters
<1>7. Search'
  BY <1>0, <1>3 DEF IInv, Search, Searching
<1>8. usbfds' = {} /\ ttys' = {} /\ pc' \notin InUse
  BY <1>0 DEF IInv, GivenBack, InUse
<1>9. Kinds' /\ GivenBack' /\ OwnGlobals' /\ OwnSpeed'
  BY <1>0, <1>8 DEF Kinds, GivenBack, OwnGlobals, OwnSpeed, NamedBoard, InUse
<1>10. QED
  BY <1>5, <1>6, <1>7, <1>9 DEF IInv

LEMMA StutterInv == IInv /\ UNCHANGED vars => IInv'
BY DEF IInv, TypeOK, TypeFlags, Params, NamedBoard, Counters, Kinds, Search, GivenBack,
       OwnGlobals, OwnSpeed, vars, config, globals, fds

LEMMA NextInv == IInv /\ [Next]_vars => IInv'
BY SetNFCLocalInv, CheckOTGInv, ProbeOpenInv, ProbeInv, BeginInv, SerialOpenInv,
   SerialReadInv, CardOpenInv, CardCloseInv, PlugInv, AppClosesInv, StutterInv
   DEF Next

LEMMA Invariance == Spec => []IInv
BY InitInv, NextInv, PTL DEF Spec

-----------------------------------------------------------------------------
(* The theorems                                                            *)

\* The variables of the device layer have their types, and a device is open
\* exactly in the steps that use one.
THEOREM DeviceTypes == Spec => []TypeOK
<1>1. IInv => TypeOK
  BY DEF IInv
<1>2. QED
  BY <1>1, Invariance, PTL

\* What OpenNFC opens is closed by CloseNFC, whatever kinds of device were
\* configured before and whenever the board goes silent or is pulled out.
THEOREM DevicesGivenBack == Spec => []GivenBack
<1>1. IInv => GivenBack
  BY DEF IInv
<1>2. QED
  BY <1>1, Invariance, PTL

\* A device in use finds its own kind and mode in the globals of the process.
THEOREM GlobalsOwned == Spec => []OwnGlobals
<1>1. IInv => OwnGlobals
  BY DEF IInv
<1>2. QED
  BY <1>1, Invariance, PTL

\* The EEPROM is read in the EEPROM mode and the card is not, each at its own
\* speed; save that the card on a board the caller named is met at 9600.
THEOREM SpeedOwned == Spec => []OwnSpeed
<1>1. IInv => OwnSpeed
  BY DEF IInv
<1>2. QED
  BY <1>1, Invariance, PTL

\* A search that no unplugging and no silence disturbed ends with the product
\* that is there.
THEOREM SearchFindsBoard == Spec => []ProductFound
<1>1. IInv => ProductFound
  BY DEF IInv, Search, Searching, ProductFound
<1>2. QED
  BY <1>1, Invariance, PTL


-----------------------------------------------------------------------------
(* A call gets shorter with every step, and what it costs                  *)

\* The steps of the search for one product, and those of the two sessions.
Stage == CASE pc = "serialopen" -> 4
           [] pc \in {"check", "serial"}    -> 3
           [] pc \in {"probe", "cardopen"}  -> 2
           [] pc \in {"probing", "card"}    -> 1
           [] OTHER -> 0

\* What is left of a call: the products not tried yet, then the steps.
Remaining == 4 * (Len(NFC_PRODUCT_ID) - trying) + Stage

\* A board that is plugged in or out starts nothing anew.
Shortens ==
  pc # "idle" =>
    \/ pc' = "idle"
    \/ Remaining' \in 0..(Remaining - 1)
    \/ plugs' = plugs + 1 /\ Remaining' = Remaining

LEMMA StageType == Stage \in 0..4
BY DEF Stage

LEMMA StageNext == (Stage \in 0..4)'
BY StageType, PTL

\* The loop over the products ends, or goes on with the next one.
LEMMA SearchGoesOn ==
  ASSUME TypeOK, NEW found, NextProduct(found), pc' # "idle"
  PROVE  pc' = "check" /\ trying' = trying + 1 /\ trying \in 0..1
BY Products DEF NextProduct, TypeOK

\* Each step of a call leads to a later one, or to the next product.
LEMMA StepsOn ==
  ASSUME TypeOK, Next, pc # "idle", pc' # "idle", ~Plug
  PROVE  \/ pc' = "check" /\ trying' = trying + 1 /\ pc \in Searching
         \/ trying' = trying /\ \/ pc = "check" /\ pc' = "probe"
                                \/ pc = "probe" /\ pc' = "probing"
                                \/ pc = "serialopen" /\ pc' = "serial"
                                \/ pc = "serial" /\ pc' = "cardopen"
                                \/ pc = "cardopen" /\ pc' = "card"
<1>1. ~(SetNFCLocal \/ Begin \/ AppCloses \/ CardClose)
  BY DEF SetNFCLocal, Begin, AppCloses, CardClose, Call
<1>2. CASE CheckOTG
  BY <1>2, SearchGoesOn DEF CheckOTG, Searching
<1>3. CASE ProbeOpen
  BY <1>3, SearchGoesOn DEF ProbeOpen, Searching
<1>4. CASE Probe
  BY <1>4, SearchGoesOn DEF Probe, Searching
<1>5. CASE SerialOpen \/ SerialRead \/ CardOpen
  BY <1>5 DEF SerialOpen, SerialRead, CardOpen
<1>6. QED
  BY <1>1, <1>2, <1>3, <1>4, <1>5 DEF Next

\* Every step of SetNFCLocal, GetDevSerialNo and NFCCardReader ends the call
\* or leaves less of it, whatever boards are plugged in or out meanwhile and
\* whichever are silent: no product is searched for twice.
THEOREM EveryStepShortens == Spec => [][Shortens]_vars
<1>1. TypeOK /\ TypeOK' /\ [Next]_vars => [Shortens]_vars
  <2> SUFFICES ASSUME TypeOK, TypeOK', Next, pc # "idle", pc' # "idle"
               PROVE  \/ Remaining' \in 0..(Remaining - 1)
                      \/ plugs' = plugs + 1 /\ Remaining' = Remaining
    BY DEF Shortens
  <2>1. CASE Plug
    <3>1. UNCHANGED <<pc, trying>> /\ plugs' = plugs + 1
      BY <2>1 DEF Plug
    <3>2. Remaining' = Remaining
      BY <3>1 DEF Remaining, Stage
    <3>3. QED
      BY <3>1, <3>2
  <2>2. CASE ~Plug
    <3>1. PICK t \in 0..2, t2 \in 0..2 : t = trying /\ t2 = trying'
      BY Products DEF TypeOK
    <3>2. Stage \in 0..4 /\ Stage' \in 0..4
      BY StageType, StageNext
    <3>3. PICK s \in 0..4, s2 \in 0..4 : s = Stage /\ s2 = Stage'
      BY <3>2
    <3>4. (t2 = t + 1 /\ s2 = 3) \/ (t2 = t /\ s2 < s)
      <4>1. CASE pc' = "check" /\ trying' = trying + 1 /\ pc \in Searching
        <5>1. Stage' = 3
          BY <4>1 DEF Stage
        <5>2. QED
          BY <3>1, <3>3, <4>1, <5>1
      <4>2. CASE trying' = trying /\ \/ pc = "check" /\ pc' = "probe"
                                     \/ pc = "probe" /\ pc' = "probing"
                                     \/ pc = "serialopen" /\ pc' = "serial"
                                     \/ pc = "serial" /\ pc' = "cardopen"
                                     \/ pc = "cardopen" /\ pc' = "card"
        BY <3>1, <3>3, <4>2 DEF Stage
      <4>3. QED
        BY <2>2, <4>1, <4>2, StepsOn
    <3>5. CASE s >= 1
      <4>1. Remaining = 4 * (2 - t) + s /\ Remaining' = 4 * (2 - t2) + s2
        BY <3>1, <3>3, Products DEF Remaining
      <4>2. 4 * (2 - t2) + s2 \in 0..(4 * (2 - t) + s - 1)
        BY <3>4, <3>5
      <4>3. QED
        BY <4>1, <4>2
    <3>6. s >= 1
      BY <2>2, <3>3, StepsOn DEF Stage, Searching
    <3>7. QED
      BY <3>5, <3>6
  <2>3. QED
    BY <2>1, <2>2
<1>2. Spec => []TypeOK
  BY DeviceTypes
<1>3. QED
  BY <1>1, <1>2, PTL DEF Spec


\* The inotify descriptors that the rest of a call may still lose: one with
\* each check and each open.
Due == CASE pc = "check"      -> 6 - 2 * trying
         [] pc = "probe"      -> 5 - 2 * trying
         [] pc = "probing"    -> 4 - 2 * trying
         [] pc = "serialopen" -> 2
         [] pc \in {"serial", "cardopen"} -> 1
         [] OTHER -> 0

LossInv == watches + Due <= 4 * calls

\* What a call loses: nothing comes back, and a step loses one at most.
WatchesBounded == watches <= 4 * calls

LEMMA DueInSearch ==
  ASSUME IInv, pc \in Searching
  PROVE  /\ trying \in 1..2
         /\ pc = "check"   => Due = 6 - 2 * trying
         /\ pc = "probe"   => Due = 5 - 2 * trying
         /\ pc = "probing" => Due = 4 - 2 * trying
<1>1. trying \in 1..2
  BY DEF IInv, Search
<1>2. QED
  BY <1>1 DEF Due

LEMMA DueType ==
  ASSUME IInv
  PROVE  Due \in Nat
<1>1. CASE pc \in Searching
  <2>1. PICK t \in 1..2 : t = trying
    BY <1>1, DueInSearch
  <2>2. Due = 6 - 2 * t \/ Due = 5 - 2 * t \/ Due = 4 - 2 * t
    BY <1>1, <2>1, DueInSearch DEF Searching
  <2>3. QED
    BY <2>2
<1>2. CASE pc \notin Searching
  BY <1>2 DEF Due, Searching
<1>3. QED
  BY <1>1, <1>2

LEMMA DueNext == IInv' => (Due \in Nat)'
BY DueType, PTL

\* The loop over the products owes two for each that is left.
LEMMA NextDue ==
  ASSUME IInv, IInv', NEW found, NextProduct(found), pc \in Searching
  PROVE  Due' \in Nat /\ Due' <= 4 - 2 * trying
<1>1. PICK t \in 1..2 : t = trying
  BY DueInSearch
<1>2. CASE pc' = "check" /\ trying' = trying + 1 /\ trying = 1
  <2>1. Due' = 6 - 2 * trying'
    BY <1>2 DEF Due
  <2>2. trying' = 2
    BY <1>2
  <2>3. QED
    BY <1>2, <2>1, <2>2
<1>3. CASE pc' = "idle"
  <2>1. Due' = 0
    BY <1>3 DEF Due
  <2>2. QED
    BY <1>1, <2>1
<1>4. QED
  BY <1>1, <1>2, <1>3, Products DEF NextProduct

\* The sum of what is lost and what is due, as numbers.
LEMMA Sums ==
  ASSUME IInv, IInv'
  PROVE  \E w, w2, d, d2 \in Nat : w = watches /\ w2 = watches' /\ d = Due /\ d2 = Due'
BY DueType, DueNext DEF IInv, Counters

NoLoss == watches' + Due' <= watches + Due

\* A step of the search, and one of a session.
LEMMA SearchLoses ==
  ASSUME IInv, IInv', CheckOTG \/ ProbeOpen \/ Probe
  PROVE  NoLoss
<1>1. PICK w, w2, d, d2 \in Nat : w = watches /\ w2 = watches' /\ d = Due /\ d2 = Due'
  BY Sums
<1>2. SUFFICES w2 + d2 <= w + d
  BY <1>1, Zenon DEF NoLoss
<1>3. PICK t \in 1..2 : t = trying
  BY DueInSearch DEF CheckOTG, ProbeOpen, Probe, Searching
<1>4. ASSUME NEW found, NextProduct(found), pc \in Searching
      PROVE  d2 <= 4 - 2 * t
  BY <1>1, <1>3, <1>4, NextDue
<1>5. CASE CheckOTG
  <2>1. pc = "check" /\ w2 = w + 1 /\ d = 6 - 2 * t
    BY <1>1, <1>3, <1>5, DueInSearch DEF CheckOTG, Searching
  <2>2. CASE pc' = "probe" /\ trying' = trying
    <3>1. d2 = 5 - 2 * t
      BY <1>1, <1>3, <2>2 DEF Due
    <3>2. QED
      BY <2>1, <3>1
  <2>3. CASE NextProduct(FALSE)
    <3>1. d2 <= 4 - 2 * t
      BY <1>4, <2>1, <2>3 DEF Searching
    <3>2. QED
      BY <2>1, <3>1
  <2>4. QED
    BY <1>5, <2>2, <2>3 DEF CheckOTG
<1>6. CASE ProbeOpen
  <2>1. pc = "probe" /\ d = 5 - 2 * t
    BY <1>1, <1>3, <1>6, DueInSearch DEF ProbeOpen, Searching
  <2>2. w2 = w + 1
    BY <1>1, <1>6, Kinds4 DEF ProbeOpen, OpenNFC, OpenOTG
  <2>3. CASE pc' = "probing" /\ trying' = trying
    <3>1. d2 = 4 - 2 * t
      BY <1>1, <1>3, <2>3 DEF Due
    <3>2. QED
      BY <2>1, <2>2, <3>1
  <2>4. CASE NextProduct(FALSE)
    <3>1. d2 <= 4 - 2 * t
      BY <1>4, <2>1, <2>4 DEF Searching
    <3>2. QED
      BY <2>1, <2>2, <3>1
  <2>5. QED
    BY <1>6, <2>3, <2>4 DEF ProbeOpen
<1>7. CASE Probe
  <2>1. pc = "probing" /\ w2 = w /\ d = 4 - 2 * t
    BY <1>1, <1>3, <1>7, DueInSearch DEF Probe, Searching, CloseNFC
  <2>2. d2 <= 4 - 2 * t
    BY <1>4, <1>7, <2>1 DEF Probe, Searching
  <2>3. QED
    BY <2>1, <2>2
<1>8. QED
  BY <1>5, <1>6, <1>7

LEMMA OpeningLoses ==
  ASSUME IInv, NEW type, NEW par, NEW s, OpenNFC(type, par, s)
  PROVE  watches' \in {watches, watches + 1}
BY DEF OpenNFC, OpenOTG, OpenOTG_Android, OpenPort

LEMMA SessionLoses ==
  ASSUME IInv, IInv', SerialOpen \/ SerialRead \/ CardOpen \/ CardClose
  PROVE  NoLoss
<1>1. PICK w, w2, d, d2 \in Nat : w = watches /\ w2 = watches' /\ d = Due /\ d2 = Due'
  BY Sums
<1>2. SUFFICES w2 + d2 <= w + d
  BY <1>1, Zenon DEF NoLoss
<1>3. CASE SerialOpen
  <2>1. w2 \in {w, w + 1} /\ pc = "serialopen" /\ pc' \in {"serial", "idle"}
    BY <1>1, <1>3, OpeningLoses DEF SerialOpen
  <2>2. d = 2 /\ d2 \in {0, 1}
    BY <1>1, <2>1 DEF Due
  <2>3. QED
    BY <2>1, <2>2
<1>4. CASE SerialRead
  <2>1. w2 = w /\ pc = "serial" /\ pc' \in {"cardopen", "idle"}
    BY <1>1, <1>4 DEF SerialRead, SerialClose, CloseNFC
  <2>2. d = 1 /\ d2 \in {0, 1}
    BY <1>1, <2>1 DEF Due
  <2>3. QED
    BY <2>1, <2>2
<1>5. CASE CardOpen
  <2>1. w2 \in {w, w + 1} /\ pc = "cardopen" /\ pc' \in {"card", "idle"}
    BY <1>1, <1>5, OpeningLoses DEF CardOpen
  <2>2. d = 1 /\ d2 = 0
    BY <1>1, <2>1 DEF Due
  <2>3. QED
    BY <2>1, <2>2
<1>6. CASE CardClose
  <2>1. w2 = w /\ pc = "card" /\ pc' = "idle"
    BY <1>1, <1>6 DEF CardClose, CloseNFC
  <2>2. d2 = 0
    BY <1>1, <2>1 DEF Due
  <2>3. QED
    BY <2>1, <2>2
<1>7. QED
  BY <1>3, <1>4, <1>5, <1>6

LEMMA LossStep == IInv /\ IInv' /\ LossInv /\ [Next]_vars => LossInv'
<1> SUFFICES ASSUME IInv, IInv', LossInv, [Next]_vars PROVE LossInv'
  OBVIOUS
<1>1. PICK w, w2, d, d2 \in Nat : w = watches /\ w2 = watches' /\ d = Due /\ d2 = Due'
  BY Sums
<1>2. PICK c, c2 \in Nat : c = calls /\ c2 = calls'
  BY DEF IInv, Counters
<1>3. w + d <= 4 * c
  BY <1>1, <1>2, Zenon DEF LossInv
<1>4. SUFFICES w2 + d2 <= 4 * c2
  BY <1>1, <1>2, Zenon DEF LossInv
<1>5. CASE SetNFCLocal \/ Begin
  <2>1. pc = "idle" /\ c2 = c + 1 /\ w2 = w
    BY <1>1, <1>2, <1>5 DEF SetNFCLocal, ProbeFirst, SetNamed, SetAndroid,
       SetSerial, SetUnknown, Begin, Call, fds
  <2>2. d = 0
    BY <1>1, <2>1 DEF Due
  <2>3. \/ pc' = "check" /\ trying' = 1
        \/ pc' = "idle" \/ pc' = "serialopen"
    BY <1>5, <2>1 DEF SetNFCLocal, ProbeFirst, SetNamed, SetAndroid, SetSerial,
       SetUnknown, Begin
  <2>4. d2 \in {0, 2, 4}
    <3>1. CASE pc' = "check" /\ trying' = 1
      <4>1. d2 = 6 - 2 * trying'
        BY <1>1, <3>1 DEF Due
      <4>2. QED
        BY <3>1, <4>1
    <3>2. CASE pc' = "idle" \/ pc' = "serialopen"
      BY <1>1, <3>2 DEF Due
    <3>3. QED
      BY <2>3, <3>1, <3>2
  <2>5. QED
    BY <1>3, <2>1, <2>2, <2>4
<1>6. CASE CheckOTG \/ ProbeOpen \/ Probe \/ SerialOpen \/ SerialRead \/ CardOpen \/ CardClose
  <2>1. c2 = c
    BY <1>2, <1>6 DEF CheckOTG, ProbeOpen, Probe, SerialOpen, SerialRead, CardOpen,
       CardClose
  <2>2. NoLoss
    BY <1>6, SearchLoses, SessionLoses
  <2>3. w2 + d2 <= w + d
    BY <1>1, <2>2, Zenon DEF NoLoss
  <2>4. QED
    BY <1>3, <2>1, <2>3
<1>7. CASE Plug \/ AppCloses \/ UNCHANGED vars
  <2>1. UNCHANGED <<pc, trying, watches, calls>>
    BY <1>7 DEF Plug, AppCloses, vars, fds
  <2>2. w2 = w /\ d2 = d /\ c2 = c
    BY <1>1, <1>2, <2>1 DEF Due
  <2>3. QED
    BY <1>3, <2>2
<1>8. QED
  BY <1>5, <1>6, <1>7 DEF Next

\* usb_host_init opens an inotify descriptor that nothing closes.  However
\* calls, unplugging and silence follow each other, a call loses four at most:
\* two for each product that is searched for, two for a read.
THEOREM WatchesLost == Spec => []WatchesBounded
<1>1. Init => LossInv
  BY DEF Init, LossInv, Due
<1>2. IInv /\ LossInv => WatchesBounded
  <2> SUFFICES ASSUME IInv, LossInv PROVE WatchesBounded
    OBVIOUS
  <2>1. PICK w \in Nat, d \in Nat, c \in Nat : w = watches /\ d = Due /\ c = calls
    BY DueType DEF IInv, Counters
  <2>2. w + d <= 4 * c
    BY <2>1 DEF LossInv
  <2>3. QED
    BY <2>1, <2>2 DEF WatchesBounded
<1>3. QED
  BY <1>1, <1>2, LossStep, Invariance, PTL DEF Spec
=============================================================================
