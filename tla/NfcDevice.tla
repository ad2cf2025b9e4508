------------------------------ MODULE NfcDevice ------------------------------
(***************************************************************************)
(* The device layer libnfc below CReadCard: how a PN532 board is found,    *)
(* opened, set up, used and closed, on an OTG cable (by the library itself *)
(* or through a descriptor that Android gives the application) or as a     *)
(* serial port.                                                            *)
(*                                                                         *)
(* Everything that open, read, write and close have to know about a device *)
(* beside its handle are globals of the process: the kind of the device    *)
(* opened last (g_nfctype), whether its descriptor belongs to Android      *)
(* (g_otg_android_mode), and the speed, which doubles as the mode in which *)
(* the EEPROM is read (g_otg_seep).  One thread calls the layer; between   *)
(* its steps the board may be plugged in and out.                          *)
(***************************************************************************)
EXTENDS Integers, Sequences

CONSTANTS
  Types,     \* the device types that the caller configures
  Named,     \* may a type be set with a DevName (TRUE), without (FALSE)?
  Faults,    \* what goes wrong: "plug" in and out, "silent" board
  MaxCalls,  \* bound: calls of the caller in a behaviour
  MaxPlugs   \* bound: times the board is plugged in or out

OTG_NFC          == 1
SER_NFC          == 2
OTG_NFC_ANDROID  == 3
NFC_AUTO_DEV     == 99
UNKNOWN_NFC      == 255

ASSUME TypesAssumption ==
  Types \subseteq {OTG_NFC, SER_NFC, OTG_NFC_ANDROID, NFC_AUTO_DEV, UNKNOWN_NFC}

NFC_READCARD_SPEED   == 115200
NFC_READEEPROM_SPEED == 300
NFC_PRODUCT_ID       == <<"ch340", "ch341">>
Boards               == {"none", "ch340", "ch341"}

VARIABLES
  m_iNFCType, m_nfcParam,                   \* CReadCard's configuration
  g_nfctype, g_otg_android_mode, g_otg_seep,
  pc, trying, reading,  \* step; product being probed; is a card read running?
  handle,               \* descriptor below the open device, 0 if none is open
  line,                 \* the speed that the board's line was last set to
  board,                \* what is plugged in
  live,                 \* descriptors whose board is still plugged in
  usbfds, ttys, chkfds,  \* descriptors opened by OpenOTG, OpenPort, CheckOTG
  watches,              \* inotify descriptors of usb_host_init
  steady,               \* has the board been there and answered since the search?
  appfds,               \* descriptors of the application
  nfd, calls, plugs

globals == <<g_nfctype, g_otg_android_mode, g_otg_seep>>
config  == <<m_iNFCType, m_nfcParam>>
fds     == <<usbfds, ttys, chkfds, watches, appfds, live, nfd>>
vars == <<config, globals, pc, trying, reading, handle, line, board, steady,
          fds, calls, plugs>>

\* probed says that the product was found by asking the board.
Param(p, s, f, b) == [product |-> p, speed |-> s, fd |-> f, probed |-> b]
NoParam == Param("none", 0, 0, FALSE)

Init ==
  /\ m_iNFCType = UNKNOWN_NFC /\ m_nfcParam = NoParam
  /\ g_nfctype = UNKNOWN_NFC /\ g_otg_android_mode = FALSE /\ g_otg_seep = 0
  /\ pc = "idle" /\ trying = 0 /\ reading = FALSE
  /\ handle = 0 /\ line = 0
  /\ board \in Boards /\ live = {} /\ steady = FALSE
  /\ usbfds = {} /\ ttys = {} /\ chkfds = {} /\ watches = 0 /\ appfds = {}
  /\ nfd = 0 /\ calls = 0 /\ plugs = 0

-----------------------------------------------------------------------------
(* libnfc                                                                  *)

\* The speeds that SettingOTG and SettingPort both know; others become 9600.
Baud(s) == IF s \in {NFC_READCARD_SPEED, NFC_READEEPROM_SPEED} THEN s ELSE 9600

\* Mutation: leaving the EEPROM mode is forgotten.
SettingOTG_KeepsMode(s) ==
  /\ line' = Baud(s)
  /\ g_otg_seep' = IF g_otg_seep = NFC_READEEPROM_SPEED THEN g_otg_seep ELSE s

SettingOTG(s) ==
  /\ line' = Baud(s)
  /\ g_otg_seep' = s

SettingPort(s) ==
  /\ line' = Baud(s)
  /\ UNCHANGED g_otg_seep

\* usb_host_init and usb_host_run look through the bus for the product: each
\* time with an inotify descriptor of their own, which nothing closes.
Found(p) == board = p
UsbOpen ==
  /\ nfd' = nfd + 1
  /\ handle' = nfd + 1
  /\ live' = live \cup {nfd + 1}

\* Mutation: the mode of an earlier open stays.
OpenOTG_KeepsMode(p, s) ==
  /\ UNCHANGED g_otg_android_mode
  /\ watches' = watches + 1
  /\ UNCHANGED <<ttys, chkfds, appfds>>
  /\ \/ /\ Found(p)
        /\ UsbOpen
        /\ usbfds' = usbfds \cup {nfd + 1}
        /\ SettingOTG(s)
     \/ ~Found(p) /\ UNCHANGED <<handle, usbfds, live, nfd, line, g_otg_seep>>

OpenOTG(p, s) ==
  /\ g_otg_android_mode' = FALSE
  /\ watches' = watches + 1
  /\ UNCHANGED <<ttys, chkfds, appfds>>
  /\ \/ /\ Found(p)
        /\ UsbOpen
        /\ usbfds' = usbfds \cup {nfd + 1}
        /\ SettingOTG(s)
     \/ ~Found(p) /\ UNCHANGED <<handle, usbfds, live, nfd, line, g_otg_seep>>

\* usb_device_new closes the descriptor it was given when it cannot use it.
OpenOTG_Android(fd, s) ==
  /\ g_otg_android_mode' = TRUE
  /\ UNCHANGED <<usbfds, ttys, chkfds, watches, nfd>>
  /\ \/ /\ fd \in live
        /\ handle' = fd
        /\ SettingOTG(s)
        /\ UNCHANGED <<appfds, live>>
     \/ /\ fd \notin live
        /\ appfds' = appfds \ {fd}
        /\ UNCHANGED <<handle, live, line, g_otg_seep>>

OpenPort(s) ==
  /\ UNCHANGED <<g_otg_android_mode, usbfds, chkfds, watches, appfds>>
  /\ \/ /\ board # "none"
        /\ UsbOpen
        /\ ttys' = ttys \cup {nfd + 1}
        /\ SettingPort(s)
     \/ board = "none" /\ UNCHANGED <<handle, ttys, live, nfd, line, g_otg_seep>>

\* handle' # 0 tells whether the device was opened.
OpenNFC(type, par, s) ==
  /\ g_nfctype' = type
  /\ \/ type = OTG_NFC /\ OpenOTG(par.product, s)
     \/ type = OTG_NFC_ANDROID /\ OpenOTG_Android(par.fd, s)
     \/ type = SER_NFC /\ OpenPort(s)

CloseOTG(fd) ==
  /\ usbfds' = IF g_otg_android_mode THEN usbfds ELSE usbfds \ {fd}
  /\ UNCHANGED ttys

ClosePort(fd) == ttys' = ttys \ {fd} /\ UNCHANGED usbfds

CloseNFC ==
  /\ \/ g_nfctype \in {OTG_NFC, OTG_NFC_ANDROID} /\ CloseOTG(handle)
     \/ g_nfctype = SER_NFC /\ ClosePort(handle)
  /\ handle' = 0
  /\ UNCHANGED <<globals, line, chkfds, watches, appfds, live, nfd>>

\* Does the open device answer?  It may not if another descriptor has the
\* board's interface claimed.
Answers   == handle \in live
Disputed  == chkfds \cup (appfds \ {handle}) # {}
MaySilent == "silent" \in Faults \/ ~Answers \/ Disputed

-----------------------------------------------------------------------------
(* SetNFCLocal, and CheckNFCDev for one product after the other            *)

Call == pc = "idle" /\ calls < MaxCalls /\ calls' = calls + 1

\* Mutation: the speed is left out, as SetNamed leaves it out.
ProbeFirst_NoSpeed ==
  /\ m_iNFCType' = OTG_NFC
  /\ m_nfcParam' = Param(NFC_PRODUCT_ID[1], 0, 0, TRUE)
  /\ trying' = 1 /\ pc' = "check"
  /\ steady' = TRUE
  /\ UNCHANGED fds

ProbeFirst ==
  /\ m_iNFCType' = OTG_NFC
  /\ m_nfcParam' = Param(NFC_PRODUCT_ID[1], NFC_READCARD_SPEED, 0, TRUE)
  /\ trying' = 1 /\ pc' = "check"
  /\ steady' = TRUE
  /\ UNCHANGED fds

\* A DevName for OTG gives the product and leaves the speed zero.
SetNamed ==
  /\ m_iNFCType' = OTG_NFC
  /\ \E p \in Boards \ {"none"} : m_nfcParam' = Param(p, 0, 0, FALSE)
  /\ UNCHANGED <<trying, pc, steady, fds>>

\* The application opens the board through Android's UsbManager.
SetAndroid ==
  /\ board # "none"
  /\ m_iNFCType' = OTG_NFC_ANDROID
  /\ nfd' = nfd + 1
  /\ appfds' = appfds \cup {nfd + 1} /\ live' = live \cup {nfd + 1}
  /\ m_nfcParam' = Param("none", NFC_READCARD_SPEED, nfd + 1, FALSE)
  /\ UNCHANGED <<trying, pc, steady, usbfds, ttys, chkfds, watches>>

SetSerial ==
  /\ m_iNFCType' = SER_NFC
  /\ m_nfcParam' = Param("none", NFC_READCARD_SPEED, 0, FALSE)
  /\ UNCHANGED <<trying, pc, steady, fds>>

SetUnknown ==
  /\ m_iNFCType' = UNKNOWN_NFC
  /\ m_nfcParam' = NoParam
  /\ UNCHANGED <<trying, pc, steady, fds>>

SetNFCLocal ==
  /\ Call
  /\ \/ NFC_AUTO_DEV \in Types /\ ProbeFirst
     \/ OTG_NFC \in Types /\ FALSE \in Named /\ ProbeFirst
     \/ OTG_NFC \in Types /\ TRUE \in Named /\ SetNamed
     \/ OTG_NFC_ANDROID \in Types /\ TRUE \in Named /\ SetAndroid
     \/ SER_NFC \in Types /\ SetSerial
     \/ UNKNOWN_NFC \in Types /\ SetUnknown
  /\ UNCHANGED <<globals, reading, handle, line, board, plugs>>

\* Mutation: the search goes on after a board has answered.
NextProduct_Always(found) ==
  IF trying < Len(NFC_PRODUCT_ID)
    THEN /\ trying' = trying + 1 /\ pc' = "check"
         /\ m_nfcParam' = [m_nfcParam EXCEPT !.product = NFC_PRODUCT_ID[trying + 1]]
    ELSE trying' = 0 /\ pc' = "idle" /\ UNCHANGED m_nfcParam

\* The loop over the products ends when one answers or none is left.
NextProduct(found) ==
  IF ~found /\ trying < Len(NFC_PRODUCT_ID)
    THEN /\ trying' = trying + 1 /\ pc' = "check"
         /\ m_nfcParam' = [m_nfcParam EXCEPT !.product = NFC_PRODUCT_ID[trying + 1]]
    ELSE trying' = 0 /\ pc' = "idle" /\ UNCHANGED m_nfcParam

\* CheckOTG opens the device only to see that it is there, and closes it with
\* CloseOTG, which goes by the mode of the last open.
CheckOTG ==
  /\ pc = "check"
  /\ watches' = watches + 1
  /\ \/ /\ Found(m_nfcParam.product)
        /\ nfd' = nfd + 1
        /\ chkfds' = IF g_otg_android_mode THEN chkfds \cup {nfd + 1} ELSE chkfds
        /\ pc' = "probe"
        /\ UNCHANGED <<trying, m_nfcParam>>
     \/ ~Found(m_nfcParam.product) /\ NextProduct(FALSE) /\ UNCHANGED <<nfd, chkfds>>
  /\ UNCHANGED <<m_iNFCType, globals, reading, handle, line, board, steady, usbfds,
                 ttys, appfds, live, calls, plugs>>

ProbeOpen ==
  /\ pc = "probe"
  /\ OpenNFC(OTG_NFC, m_nfcParam, m_nfcParam.speed)
  /\ IF handle' # 0 THEN pc' = "probing" /\ UNCHANGED <<trying, m_nfcParam>>
                    ELSE NextProduct(FALSE)
  /\ UNCHANGED <<m_iNFCType, reading, board, steady, calls, plugs>>

\* Wake the board up, read its answer and close.
Probe ==
  /\ pc = "probing"
  /\ CloseNFC
  /\ \/ Answers /\ NextProduct(TRUE) /\ steady' = steady
     \/ MaySilent /\ NextProduct(FALSE) /\ steady' = FALSE
  /\ UNCHANGED <<m_iNFCType, reading, board, calls, plugs>>

-----------------------------------------------------------------------------
(* GetDevSerialNo and NFCCardReader                                        *)

\* Without a device description the call fails before it touches anything.
Begin ==
  /\ Call
  /\ m_nfcParam # NoParam
  /\ reading' \in BOOLEAN
  /\ pc' = "serialopen"
  /\ UNCHANGED <<config, globals, trying, handle, line, board, steady, fds, plugs>>

SerialSpeed == NFC_READEEPROM_SPEED

SerialOpen ==
  /\ pc = "serialopen"
  /\ OpenNFC(m_iNFCType, m_nfcParam, SerialSpeed)
  /\ pc' = IF handle' # 0 THEN "serial" ELSE "idle"
  /\ UNCHANGED <<config, trying, reading, board, steady, calls, plugs>>

\* Mutation: only the successful read closes the device.
SerialClose_IfOk(ok) ==
  IF ok THEN CloseNFC ELSE handle' = 0 /\ UNCHANGED <<globals, line, fds>>

SerialClose(ok) == CloseNFC

\* Sixteen EEPROM bytes, or an error at one of them.
SerialRead ==
  /\ pc = "serial"
  /\ \/ Answers /\ SerialClose(TRUE) /\ pc' = IF reading THEN "cardopen" ELSE "idle"
     \/ MaySilent /\ SerialClose(FALSE) /\ pc' = "idle"
  /\ UNCHANGED <<config, trying, reading, board, steady, calls, plugs>>

CardOpen ==
  /\ pc = "cardopen"
  /\ OpenNFC(m_iNFCType, m_nfcParam, m_nfcParam.speed)
  /\ pc' = IF handle' # 0 THEN "card" ELSE "idle"
  /\ UNCHANGED <<config, trying, reading, board, steady, calls, plugs>>

\* Mutation: a path of the session ends without CloseNFCDev.
CardClose_Forgotten ==
  /\ pc = "card"
  /\ pc' = "idle"
  /\ UNCHANGED <<config, globals, trying, reading, handle, line, board,
                 steady, fds, calls, plugs>>

\* The session with the card, whatever its outcome, ends with CloseNFCDev.
CardClose ==
  /\ pc = "card"
  /\ CloseNFC
  /\ pc' = "idle"
  /\ UNCHANGED <<config, trying, reading, board, steady, calls, plugs>>

-----------------------------------------------------------------------------
\* The board is plugged in or out; descriptors of one that is gone stay dead.
Plug ==
  /\ "plug" \in Faults /\ plugs < MaxPlugs
  /\ plugs' = plugs + 1
  /\ board' \in Boards \ {board}
  /\ live' = {} /\ steady' = FALSE
  /\ UNCHANGED <<config, globals, pc, trying, reading, handle, line, usbfds,
                 ttys, chkfds, watches, appfds, nfd, calls>>

\* The application closes a descriptor of its own.
AppCloses ==
  /\ pc = "idle"
  /\ \E fd \in appfds : appfds' = appfds \ {fd} /\ live' = live \ {fd}
  /\ UNCHANGED <<config, globals, pc, trying, reading, handle, line, board,
                 steady, usbfds, ttys, chkfds, watches, nfd, calls, plugs>>

Next ==
  \/ SetNFCLocal \/ CheckOTG \/ ProbeOpen \/ Probe
  \/ Begin \/ SerialOpen \/ SerialRead \/ CardOpen \/ CardClose
  \/ Plug \/ AppCloses

Spec == Init /\ [][Next]_vars

-----------------------------------------------------------------------------
(* Properties                                                              *)

InUse == {"probing", "serial", "card"}

TypeFlags ==
  g_otg_android_mode \in BOOLEAN /\ reading \in BOOLEAN /\ steady \in BOOLEAN

\* The variables have their types; a device is open exactly in the steps that
\* use one.
TypeOK ==
  /\ m_iNFCType \in {OTG_NFC, SER_NFC, OTG_NFC_ANDROID, UNKNOWN_NFC}
  /\ g_nfctype \in {OTG_NFC, SER_NFC, OTG_NFC_ANDROID, UNKNOWN_NFC}
  /\ TypeFlags
  /\ pc \in InUse \cup {"idle", "check", "probe", "serialopen", "cardopen"}
  /\ trying \in 0..Len(NFC_PRODUCT_ID)
  /\ board \in Boards
  /\ usbfds \cup ttys \cup chkfds \cup appfds \cup live \subseteq 1..nfd
  /\ handle \in 0..nfd /\ (handle # 0 <=> pc \in InUse)

\* What OpenNFC opens is closed, by the path of the kind it was opened
\* as, whether the board answers, stays silent or is pulled out in between:
\* nothing is open between calls, and one descriptor while a device is used.
GivenBack ==
  usbfds \cup ttys = IF pc \in InUse THEN {handle} \ appfds ELSE {}

\* While a device is used the globals of the process are those of its own
\* open, whatever other kinds were opened, probed or failed to open before.
OwnGlobals ==
  pc \in InUse =>
    /\ g_nfctype = m_iNFCType
    /\ m_iNFCType # SER_NFC => (g_otg_android_mode <=> handle \in appfds)

\* A board the caller named: SetNFCLocal copies its vendor and its product and
\* no speed (readcard.cpp:130-132).
NamedBoard == m_iNFCType = OTG_NFC /\ ~m_nfcParam.probed

\* Card frames are never taken for EEPROM commands nor the other way round,
\* and the line has the speed that goes with what is sent: that of the EEPROM
\* while the serial is read, that of the board's card firmware while a card
\* is. The exception is a defect: a named board, whose speed nobody sets, is
\* talked to at 9600, so its card cannot be read.
OwnSpeed ==
  /\ pc = "serial" => line = NFC_READEEPROM_SPEED
  /\ pc = "card" => line = IF NamedBoard THEN 9600 ELSE NFC_READCARD_SPEED
  /\ pc \in InUse /\ m_iNFCType # SER_NFC =>
       (g_otg_seep = NFC_READEEPROM_SPEED <=> pc = "serial")

\* If the board stays plugged in and answers, the search ends with its
\* product.
ProductFound ==
  pc = "idle" /\ m_nfcParam.probed /\ steady /\ board # "none" =>
    m_nfcParam.product = board

\* CheckOTG, which opens the board only to see that it is there, closes it.
CheckGivesBack == chkfds = {}
=============================================================================
