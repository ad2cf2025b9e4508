# Verification of the android_id card reader

The Android application in this repository reads the chip of an identity card, relays what it
reads to a *card server*, gets the decoded text and photo back, and shows them. This directory
models its control flow in TLA+, checks the models with TLC and proves the main results about the
core with TLAPS. All source paths below are relative to `src/app/src/main/`.

## 1. Inventory

### The parts and how they interact

    MainActivity (UI thread, Handler queue)
       | intents of the NFC service             ^ messages
       v                                        |
    SelfCallbackNfc.java --JNI--> JavaReadCard --> CNetProtocol --TCP--> card server
       ^                            |    |
       |  callbacks                 |    +------> verify_client --TCP--> authorisation server
       +------ CallBackHandler <----+
       v
    IsoDep (the phone's own NFC)

    CReadCard --> CNFCProtocol --> libnfc --> OTG (usbhost) or serial port --> PN532 board
       |
       +--> CNetProtocol, verify_client as above         (libnetcardreader's C interface)

| component | source | state it keeps | operations | hard behaviour | what makes it correct |
|---|---|---|---|---|---|
| JavaReadCard | `jni/javareadcard.cpp` | device type, serial, addresses, last error; locals of one long function that survive its `goto _retry` | `SetNFCLocal`, `SetNFCServer`, `SetPhoneSerial`, `NFCCardReader`, `GetLastError` | retries, errors at every step, a conversation with the server in which one shared buffer is used by many handlers | every read returns, with a documented code; sockets are balanced; data delivered come from one session; reader and server stay in step |
| JNI entry | `jni/com_lz_nfc_jni_SelfCallbackNfc.cpp` | one static reader | setters, `NFCCardReader` | result and error code travel separately | 0 is answered exactly when the array was filled |
| CNetProtocol | `jni/libnetcardreader/netprotocol.cpp` | socket number | connect, disconnect, receive exactly n bytes, send, build frames | broken and slow connections, stale socket number | no descriptor closed twice or lost |
| verify_client | `jni/libnetcardreader/verify_client.cpp` | none | `verify_serial` | server unreachable or refusing | its socket is closed on every path |
| CallBackHandler | `jni/CallBackHandler.cpp` | cached JNI references, local references, a pending exception | `JavaCmdRequest`, `JavaSendCmd`, `JavaGetApplicationData` | a file is read in chunks, each of which may fail, be short or carry an odd byte; exceptions of Java stay pending in native code | a file is whole or an error; no call into Java while an exception is pending; local references suffice |
| CReadCard | `jni/libnetcardreader/readcard.cpp` | as JavaReadCard, and device parameters | the same, over a board | device and socket both to be given back on every error path | device and sockets balanced |
| CNFCProtocol | `jni/libnetcardreader/nfcprotocol.cpp` | device handle | `CheckNFCDev`, `OpenNFCDev`, `InitNFC`, `CmdRequest` | partial reads, timeouts, late answers, no flush between commands | an answer belongs to the command that is waiting for it |
| libnfc | `jni/libnfc/*.c` | `g_nfctype`, `g_otg_android_mode`, `g_otg_seep`, `g_sOTGDevice` of the whole process | check, open, set, read, write, close | one caller's open changes another's globals | a device is closed the way it was opened |
| the screen | `java/com/ltj/nfc/MainActivity.java`, `java/com/lz/nfc/jni/SelfCallbackNfc.java` | fields of the activity, the message queue, the views | intents, handler messages, read, decode the photo | intents overtaking results, exceptions swallowed between messages | the screen shows the card that was read last, never says "reading" for ever, and the application ends by itself only for five known reasons |
| the settings dialog | `java/com/ltj/nfc/SetOtgActivity.java` | address and port in the preferences | edit, store and return | the process may be killed while the dialog is open | a read goes to the address stored last |
| conversions | `libnetcardreader/sm4.cpp`, `verify_client.cpp`, TEA in `readcard.cpp`, `CopyNetData`, `buildCommand`, `CheckSum`, `SettingOTG`, `SettingPort`, the fields of a card in `javareadcard.cpp`, `SCardMsg`, `SelfCallbackNfc.java`, `UncodeUtils.java`, `MessageUtils.java` | the array of the serial | encode, decode, frame, cut, show | arrays without terminators, lengths at the border, offsets written down twice, a complement nobody checks | what is sent is what the other side finds; what is on the card is what is shown |
| other Java helpers, unused Java, vendored headers | see `PROJECT.json` | | | | |

The hazards of each part, at their lines, are listed under `hazards` in `PROJECT.json`, with the
properties that watch over them.

## 2. Modules

| module | what it models | uses |
|---|---|---|
| `CardReadSpec` | abstract: what a read promises its caller | |
| `CardAndServer` | what a reader stands between: card, sockets, `CNetProtocol`, the card server | |
| `JavaReadCard` | the reader for the phone's own NFC, with the JNI entry and `verify_serial` | `CardAndServer`, `CardReadSpec` |
| `ReadCard` | the reader of the C interface, over a PN532 board | `CardAndServer`, `CardReadSpec` |
| `NfcProtocol` | `CNFCProtocol`: commands, frames, timeouts, late answers, files in chunks | `FileReadSpec` |
| `FileReadSpec` | abstract: what `NFC_CMD_SELRDFILE` promises, whichever way the card is reached | |
| `CardCommand` | `CallBackHandler`: the card commands of a read through Java, with retries, exceptions and references | `FileReadSpec` |
| `NfcDevice` | libnfc and usbhost below `CReadCard`: searching, opening and closing boards | |
| `CaptureScreen` | the UI thread: `MainActivity` with its handler and `SelfCallbackNfc` | |
| `Ciphers` | SM4 and TEA, as functions on bytes and words | |
| `Frames` | the frames of the PN532 and the messages of the card server | |
| `BoardLine` | the registers and settings of a line, and the endpoints of a board | |
| `CardText` | a card's fields from its bytes to the screen | |
| `Formats` | one step per conversion, against what the other side makes of it | `Ciphers`, `Frames`, `BoardLine`, `CardText` |
| `CardAndServerProofs` | lemmas for both readers: sockets and types; the conversation with the server | `CardAndServer` |
| `JavaReadCardProofs`, `ReadCardProofs`, `CardCommandProofs`, `NfcProtocolProofs`, `NfcDeviceProofs`, `CaptureScreenProofs`, `FormatsProofs` | theorems and their proofs | the module each is named after |
| `MC*` | the instances for TLC: which sets of faults, types, addresses | |

The modules are stacked as the code is, and where one rests on another it rests on a property that is
checked there. `JavaReadCard` lets a card command give a file, a status word or an error, which is `ImplementsFileRead` of
`CardCommand` (whole files; `NearlyWhole` says what a file may lack if the phone appends bytes and the card stops early); `ReadCard` lets a board command end with an answer or an error, which is
`RequestEnds` and `ImplementsFileRead` of `NfcProtocol` in sessions that no earlier one disturbs and that do not end with the process; `CaptureScreen` lets a read end with success or a code, which is
`ReadReturns` and `JniContract` of `JavaReadCard`; `ReadCard` and `JavaReadCard` both implement
`CardReadSpec`, `NfcProtocol` and `CardCommand` both implement `FileReadSpec`. Frames are whole in `NfcProtocol`, texts and serials
opaque in the readers: that the bytes say so is the matter of `Formats`.

### How the state corresponds to the code

*JavaReadCard and ReadCard.* The variables are named after the members and locals of the code:
`nfcType`, `serialLen`, `lastErr`; `buff`, `DN`, `dnbuff`, `start_svrdata`, `cardInfo`, `pic`,
`piclen`, `pCardMsg`, `retry`. They survive a `goto _retry` in the model because they do in the code.
`pc` names the place in the function; one action is what the code does from one
blocking call to the next. Each error path is an action or a disjunct that contains the
`DisconnectServer` (and, in `ReadCard`, the `CloseNFCDev`) it really calls. A buffer is abstracted to
*which card file it holds and in which session it was read* (`Blob`); this is what the properties
tell apart. A socket or device handle is a number never given out twice, so that a double close
is seen.

*Worlds.* What may go wrong in a behaviour is drawn once, in `Init`: `Faults` is one of the sets in `Worlds`. An
error code can then be compared with what could have caused it (`CodeNamesCause`), and one run holds the world in
which nothing fails, those in which one kind of thing does, and the one in which everything may.

*CardAndServer.* The server is not in the repository. It is modelled as the partner the receive
loops are written for (`SvrRules`): it greets, takes the serial, asks for DN, start data,
authentication and files in the orders the loops support, may authenticate again after
`SECNED_ACK`, refuses with an error, and sends text and photo in three packs. It refuses a status
word in place of the DN or of an `INAUTH` answer, which is what makes the session end there. Some other
service at the address (`"peer"`) sends frames the reader does not know.

*NfcProtocol.* A frame on the line is a sequence of pieces (ACK, head, rest) that may be read
separately, and bytes nobody has read stay on the line. `off` is kept as the `int` it is,
with the `-1` that an OTG read adds to it. `n` is the length that `CmdRequest` copies, `len - 3`: it is -1 in the answer to
a command of `InitNFC`, so that one which comes late, and is read by `CmdRequest`, leads to `overrun` (`nfcprotocol.cpp:521`) and from there to
`Crash`, the end of the process; a new process may open the device again. `drained` notes whether `InitNFC` ended with nothing of its answers outstanding. The file read by `NFC_CMD_SELRDFILE` is the sequence of
its chunks with their offsets.

*CardCommand.* `Script` is the list of card requests of one attempt, with the real lengths of the files; `i` is the
request the native code is at. Each command is one step with every outcome that the phone and the card may
give it in this `world`. `left`, `at` and `data` are `len`, `off` and the part of `recvbuff` that really is the file's: `at` and
`data` come apart only when a byte that the phone appended is counted, and the file that `FileReadSpec` sees is `data`. `refs` counts the local references of the
native call, `thrown` is the request that left an exception pending, `offence` the one after which Java was called all the same.

*Formats.* A step converts one input and keeps what went in and what came out in `last`; the array of the serial alone survives, and is
set up to three times before it is sent. The other side is external and written from the format, not from the
encoder: the authorisation server decrypts with the key of `verify_client.cpp`, the card server encrypts with TEA and
reads a message by its lengths (`NetParts`), the board checks a frame by the PN532's rules (`BoardTakes`, `BoardAnswer`), and the chip on a
cable divides its clock as the registers say (`ChipLine`). `char` has no sign, as on the processors of `Application.mk`.
What the code does in a loop is a recursive function (`Total`, `Rounds`, `Remix`, `Unmix`), which TLC evaluates and a proof can unfold.

*NfcDevice.* The process globals `g_nfctype`, `g_otg_android_mode` and `g_otg_seep` are
variables; descriptors are numbers in the set of the function that opened them (`usbfds`, `ttys`,
`chkfds`, `appfds`). `live` are those whose board is still plugged in.

*CardAndServer, card files.* `FileLen` has the lengths that the reader asks for. A command whose selection was refused reads the file selected
before (`Selects`) only if that one is at least as long, as a chunk of another length is refused.

*CaptureScreen.* The message queue of the UI thread is a sequence of messages, each with the
activity it was posted for. What the Android system does is external and follows its documented
rules: `FLAG_RECEIVER_REPLACE_PENDING` as the flag of an activity's pending intent has the bit of
`FLAG_ACTIVITY_SINGLE_TOP`, so taps reach `onNewIntent`; `enableForegroundDispatch` throws unless
the activity is resumed; `connect` throws on a tag already connected; a new intent goes to the
recreated activity; a turned screen recreates it. The read is one step of the UI thread,
because it runs in the handler. `native` is the address and port inside the reader, which live as long as the process; `cause` says why the
application ended, `risks` which of the reasons that the user or the system makes could apply by then. Two more reasons are faults: what the tag throws and is no
`IOException`, from `connect` or, left pending by `callBackCommand`, when the native read returns (`"throws"`), and a decoded photo
that cannot be read back, whose `null` the handler asks for its length (`"unread"`).

## 3. Runs

| run | question | bounds | states |
|---|---|---|---|
| `java_faults` | In every world: are sockets balanced, result and error code consistent, uploads and data of one session, reader and server in step; does every read return; does a code name its cause (and so a clean world succeed); is it a `CardReadSpec`? | `RETRY_TIME` 3 (the code's), two reads | 134 236 |
| `java_stranger` | Is a service that greets differently refused? (it is not) | one read | |
| `java_select` | Is an uploaded file the one it is named as? (not if the card refuses to select the fingerprint: the photo, as long, is still selected) | one read, one attempt | |
| `read_faults` | The questions of `java_faults` for `CReadCard`, and is the board given back on every path, from both calls? | two calls | 96 534 |
| `nfc` | In a session undisturbed by earlier ones: does an answer belong to the command waiting for it, is a file whole (`FileReadSpec`), is the buffer never overrun? In every session: do reads start inside it, does every request end? | a serial port: two opens, three requests; an OTG cable: two opens, two requests, reads that leave up to three pieces (`MaxUnread`); file of 214 bytes | 716 361 |
| `card_command` | With every combination of what a phone and a card may do: are files whole (`FileReadSpec`), and what do they lack where they are not, is Java left alone while an exception is pending, do the local references suffice, does every call return? | `RETRY_TIME` 3, two native calls, all 64 worlds, the real file lengths | 433 704 |
| `device` | Boards searched, named, given by Android, serial ports, in any order, unplugged and silent: is what is opened closed, are the globals those of the open device, is each board met at the speed of what it is asked for (but for the card on a named board), does the search find the board? | four calls, two pluggings | 138 543 |
| `device_mixed` | Does `CheckOTG` close what it opens? (not after an Android board) | three calls | |
| `screen` | Cards tapped during reads, turned screen, settings, process killed: does the screen show the latest tap, does a read use the stored address, does "reading" end, does the application end by itself for the five reasons only? | three taps, two other events; two servers, a port 0, a port that is no number | 503 735 |
| `screen_photo` | Is there a photo or an error beside the text? (not always) | two taps | |
| `formats` | Does a serial arrive (SM4), are a card's data decrypted (TEA) and its fields shown, do frames and messages hold on the line, is a board set to the line asked for and are its endpoints found? | lengths at the borders, see below | 5 528 |
| `formats_nations` | Is every nation that is listed shown by its name? (number 40 is not) | as `formats` | |

### Why the bounds are enough

- `RETRY_TIME` is the value of the code. Two reads suffice because nothing but the configuration,
  `lastErr`, the stale `m_iSock` and late messages survives a read: the second starts from each of
  these.
- The file 6011 (214 bytes) is read with one full chunk of `0x70` and a partial one; each
  may be cut, late or refused. Two opens let an answer that came too late in one session meet
  the next. At a cable a read returns any part of what has arrived but the last three pieces or fewer (`MaxUnread`): one answer is three pieces, so every split of
  it occurs. The theorems hold for every value of it.
- In `card_command` the longest file needs nine full chunks and one of 16 bytes; `RETRY_TIME` 3 gives the largest
  number of commands that one native call can make, on which the count of local references depends.
- In `formats`: serials of 11, 26, 31 and 55 bytes end inside a block of the cipher, in a second block, at the last byte
  of the local array and behind the 50 bytes that are kept; three of them are set after one another. Texts are empty, one
  character, one less than the field and all of it, and end in a letter, behind an inner blank, and in the characters whose
  bytes look like one. Every sex and nation occurs, and two codes of no nation. An answer has a wrong byte at every place and is cut
  at every place. TEA runs over 2, 3, 4 and 7 words. Parts of a message have lengths around 0, 255 and 512.
  Every speed of both tables, two others, and every number of bits, stop bits and parities is set.
- In `device`, four calls allow two configurations of different kinds with a read after each, and two
  pluggings a board replaced by the other product in the middle of a search or a read.
- In `screen`, one card is read while two more are tapped; two events suffice for leaving and
  returning, or for a turn or a kill with settings open.
- The bounds end every behaviour in the `Nfc`, `CardCommand`, `Device*`, `Screen*` and `Formats*` configurations,
  and in some of them the user may also stop: these say `CHECK_DEADLOCK FALSE`. In the others a deadlock is an error:
  `idle` can always be configured again, so a reader and a server waiting on each other would be found.

### Fairness

- `JavaReadCard`, `ReadCard`: weak fairness of the reader's thread and of the server. Every
  `recv` has `SO_RCVTIMEO` and returns in the end; the server answers what it gets, unless the fault
  `"slow"` or `"drop"` happens, which fairness never prevents. Nothing is assumed of the
  network.
- `NfcProtocol`: weak fairness of the caller's thread and of the clock. Nothing is
  assumed of the board: it may owe an answer for ever, and `RequestEnds` must follow from the clock alone.
- `CaptureScreen`: weak fairness of the UI thread: the looper takes one message after another and a read ends.
  Nothing is assumed of the user or the system.
- `CardCommand`: weak fairness of the native thread; `transceive` returns or throws, which Android's time limit sees to.
- `NfcDevice` and `Formats` have no liveness property and no fairness.

### What the failing runs show

Five runs end in a counterexample that the code itself produces (details, with the lines that say
otherwise, under `findings`):

1. `java_stranger`: the length test `(iRet != LEN) && memcmp` can never be true, so the greeting is not checked.
2. `java_select`: `NFC_CMD_SELRDFILE` accepts an error status of its own selection and reads the file
   selected before it. In the trace the card refuses 6021 and the photo 6013 is uploaded as the fingerprint; the other files are too short to pass.
3. `device_mixed`: after a session with an Android board, `CheckOTG` leaves the descriptor
   of the board it finds open.
4. `screen_photo`: the message that a photo cannot be decoded is hidden by the success message that follows.
5. `formats_nations`: the code of nation 40 is written `"4-"` in `MessageUtils.java`, so it is shown as not defined.

Four more defects met while modelling are part of the models, and the properties name them as exceptions:

- An answer to `InitNFC` that `CmdRequest` reads late makes it copy -1 bytes (`nfcprotocol.cpp:519-521`); `CopyHolds` has the condition `drained`.
- A board that the caller names gets no speed (`readcard.cpp:130-132`), so its card is read at 9600 instead of 115200; `OwnSpeed` excepts `NamedBoard`.
- An exception of the tag that is no `IOException`, and a photo file that cannot be read back, end the application (`SelfCallbackNfc.java:300`,
  `MainActivity.java:245`); `EndsOnlyFor` lists both.
- With a phone that appends 00 and a card that ends a file early, a file that lacks bytes passes for a whole one (`CallBackHandler.cpp:172`); `ImplementsFileRead`
  of `CardCommand` excepts the case (`Misleads`) and `NearlyWhole` bounds it.

## 4. Proofs

The theorems hold for every value of the constants: any number of attempts and reads, every set of faults
and device types, any lengths of files, any bound. They use the assumptions named in the modules (`RetryAssumption`:
at least one attempt; `ReadsAssumption`, `CallsAssumption`, `BoundsAssumption`; `PortAssumption`, `LensAssumption`,
`FaultsAssumption`, `WorldsAssumption`; in `Formats` what a serial, a key, a block, a frame, a message and the fields of a card can hold, that a byte is
one, and that a board has its first two endpoints in one interface) and nothing else; where a theorem has a further condition it is named below. Every
inductive invariant was checked by TLC on the instance of its run before it was proved.

**CardAndServerProofs** holds the lemmas about what the two readers share: the types that
sockets, network and card keep, and what connecting and disconnecting do to the open sockets.

It also holds the *conversation*, from which `OneSession` and `InStep` follow for both readers. Neither is inductive:
that the server decodes data of one session depends on what each message on its way was made from. The invariant
says, for every place of the reader's function, in which state the server can be, which message (if any) is under way in
either direction, of which file and session the halves are that the server holds, and what the buffers hold that the next
message is made from. The server's steps, the stranger's and the network's are proved here once; of a reader's
step there remains to be said what it sends. Broken connections (`Lost`) and strangers at the other end (`Strange`) are
cases of their own.

**JavaReadCardProofs**

- `TypeCorrect`, `SocketsStayBalanced`, `JniContractHolds`: from the inductive invariant
  `IInv == TypeOK /\ SocketsBalanced /\ Control /\ JniContract`. `Control` is what the other three
  need to be inductive: what holds of `retry`, the sockets, `ret` and `lastErr` at each place of the
  function. Without it `JniContract` does not follow (that a path that ends with `ret = -1` has set a
  code since `GetLastError` last cleared it), nor the lower bound of `retry`. There is one lemma per
  action; the paths that share an exit (`Fail`, `Abort`, `Goto`) share a lemma.
- `ImplementsCardRead`: `Spec => ReadService`, the refinement of `CardReadSpec` under the mapping at the end
  of `JavaReadCard` (phase from `pc` and `ret`, budget from `retry`, *held* is
  `m_iSock \in open`). Every step is shown to be a step of the abstract
  machine or a stutter; `SocketsBalanced` is what makes *held* mean a session.
- `OneSessionHolds`, `StaysInStep`, `CodesNameCauses`: from the conversation, strengthened by what has been delivered and by
  which faults could have brought the reader to each error code.

**ReadCardProofs**: `TypeCorrect`, `BoardAndSocketGivenBack`, `ResultContractHolds`, `OneSessionHolds`, `StaysInStep` and
`ImplementsCardRead`, in the same way, for both calls of `CReadCard`. Its inductive invariant has two more parts: `GivenBack` relates the
board, the socket and the place in the function, and `CodeLeft` the last error and its causes.

**Nothing repeats for ever.** `EveryStepShortens` (`Spec => [][Shortens]_vars`, in the proofs of `JavaReadCard`, `ReadCard`, `CardCommand`,
`NfcProtocol` and `NfcDevice`) is the half of `ReadReturns`, `CallReturns` and `RequestEnds` that is a safety property: every step of a call, whoever takes
it, ends the call or makes `Remaining`, a natural number, smaller. No cycle of retries, strangers, late answers or chunks keeps a call busy for ever, whatever fails.
The other half, that some step is always enabled and is taken, needs `ENABLED` and the fairness of section 3 and is TLC's.

- The readers: `Remaining` counts the attempts left, then the places of the function behind the present one (`Place`), then what the far end
  can still say (`NetworkLeft`): the states the server has before it, the connection that may yet break, the messages and frames under way. A frame
  counts more than a message, as a handler sends at most one for it; a stranger, who has no states to go through, sends one for each
  message of the reader, so there a frame counts less, and the conversation is needed to know that it calls for no message (`StrangeCalls`, `StrangeCmds`). The server's side (`FarSideLess`) is proved
  once, in `CardAndServerProofs`.
- `CardCommand`: the attempts, the requests of an attempt, the bytes of a file that are left.
- `NfcDevice`, which has no liveness property: the products not yet searched for and the steps of the search or of a session. A board that is plugged in or out
  starts nothing anew.
- `NfcProtocol`: the commands a request still needs (one for each byte at most), the seconds until the time limit, what is on the line.

**NfcDeviceProofs**: `DeviceTypes`, `DevicesGivenBack`, `GlobalsOwned`, `SpeedOwned` and
`SearchFindsBoard`, from one inductive invariant. Beside the properties it says which parameters a
configuration can leave (`Params`: a live descriptor among them still belongs to the application, and only a board the caller named has no speed), that a kind of device uses only its own set of descriptors (`Kinds`), and where a search stands
(`Search`: the products tried before have not answered). The lemmas `Opens` and `Closes` say once
what `OpenNFC` and `CloseNFC` do from a state of the invariant; every action cites them. The invariant
was first checked by TLC on the instance of `device`. `CheckGivesBack`, which the run
`device_mixed` refutes, is the one descriptor property that is not provable. `WatchesLost` says how many of the inotify descriptors that
`usb_host_init` never closes a call loses: four at most, two for each product of a search or two for a read (`LossInv` adds what the rest of the
call may still lose, `Due`).

**CardCommandProofs**, for every set of worlds and every number of attempts and calls:

- `NearlyWholeAlways` and `FileReadImplemented` (`Spec => ImplementsFileRead`, with every step a step of `FileReadSpec` or
  a stutter), from `FileInv`: while a file is read, what has come and what is left make up the file, all
  of it is of the file selected, and only the last byte of a chunk may be a byte that the phone appended, and that only if the card ends files early too (`Misleads`, the
  condition that `ImplementsFileRead` has). What makes it
  inductive is a fact about the lengths that the reader asks for, `ChunkFacts`: none of 214, 256 and 1024 leaves
  a last chunk of a single byte, for which an error status with the appended 00 would pass.
- `PendingAlways`, from `PendingInv`: a pending exception comes from the external authentication, or the native
  method is on its way back to Java.
- `PadsHarmlessAlways`, from `PadsInv`: if the appended 00 is all that is odd, every result is a length. Proved only: no run lists `PadsHarmless`.
- `TypeCorrect`, for `RETRY_TIME <= 40`: no command deletes its local references, and the types bound them by the 512 that a virtual
  machine grants a native call. `RefsInv` counts them: eleven for each attempt before, which ended at the authentication, and what the requests of
  this one have spent up to request `i` (`Spent`) and byte `at` of a file. The condition is exact (TLC finds 514 references with 41 attempts); the code makes 3.

**NfcProtocolProofs**, for any lengths of files, faults of the card and numbers of sessions and requests:

- `AnswersOwn`: `Spec => []AnswerOwn`, and `ReadsWhole`: `Spec => ImplementsFileRead`. Both properties speak of `Undisturbed` sessions: the port is serial, or this
  is the first session, or `InitNFC` ended with nothing on the line and nothing outstanding (`drained`); opening flushes a serial port and not a cable. They follow from
  `Inv`, whose third part `IInv` has the same condition: whatever is on the line when a command is
  written belongs to one of `InitNFC`'s answers, whose length of -1 ends the process instead of being accepted (`LineClean`); while a command waits, all that is longer is of its
  own answer, and the end of that comes last (`AnswerComes`), so that when it is accepted nothing is left for the next; the
  chunks follow each other and are of the selected file (`Pieced`). `SerialReadsWhole` (`Spec => FileRead!Spec`) drops the condition for a reader with serial ports only.
  In a disturbed session the model does not have the property: see section 5.
- `TypeCorrect` and `StartsInBuffer` (`StartsInside`), in any session: no read starts outside `buff`.
- `StaysInside`: `Spec => []InsideBuffer`. That reads end inside `buff` in undisturbed sessions follows from `RoomInv`, which bounds the bytes on the line at every place: 15 for every step of
  `InitNFC`, nothing when a chunk is asked for, and 130 in `buff` and on the line together while a command waits. That what is copied has a length if
  `InitNFC` left nothing (`CopyHolds`) follows from `CopyInv`: after a drained line no answer of `InitNFC` can be read any more.
- What `Bytes` computes is proved by induction: `Least` and `Induction` derive the principle for a *set* of numbers from the well-foundedness of `<`, and `SomeSum`,
  `BytesSum`, `BytesCat`, `BytesCut` and `BytesMove` follow.

**CaptureScreenProofs**, for any servers, faults and numbers of taps and events: `TypeCorrect`, `ShowsLatest`, `ReadsFromStored` and `EndsForCause`. All depend on the
order of the messages that wait, so the inductive invariant says what may stand before and behind each of them: a tap only where the
activity is resumed by then (`TapsResumed`); nothing that resumes the activity while the dialog is open (`DialogPauses`); the result of the dialog before
the resume (`ResultComes`); behind a tap nothing that takes the screen away, and no second one, unless the user left or tapped too early
(`StaysForTap`, `OneTap`); and behind the result of the latest tap nothing that changes the screen (`OutcomeShown`).

**FormatsProofs**, for data of any bytes. The functions of `Ciphers` and `Frames` go step by step, so what they compute is proved by
induction over the steps. The library's induction theorems cannot be used (they take an operator), so `UpTo` derives the principle for
a set of numbers from the well-foundedness of `<`, and `Recursion` gives, for each next step, the function that repeats it.

- `CardAlwaysDecrypted`: `Spec => []CardDecrypted`, for two words and more and every key. `XorAssoc` and its neighbours say what the
  exclusive or by tables is; `StepUndone`, that a step of `TeaDecrypt` takes off what the same step of `TeaEncrypt` added, as the step
  mixes other words than the one it changes, which needs two words at least; `RemixSteps`, `UnmixSteps` and `TeaUndone` count them.
  `SameKey` says that the reader makes of a card's key what the server makes of it.
- `FramesAlwaysHold`: `Spec => []FramesHold`. A sum is the sum of its parts (`TotalCat`), so a changed byte changes it (`TotalChanged`,
  `OneByteCounts`). `CommandTaken` is what the board makes of a command; `AnswerFrame` says what stands where in an answer, `SameData` what can be
  received of one that is wrong at one place, `SameParts` what the server finds in a message of up to 65 535 bytes.
- `SerialAlwaysArrives`: `Spec => []SerialArrives`, for serials of any bytes but zero. `ArrayHolds` is the inductive invariant: the array that
  `SetPhoneSerial` writes starts with the serial set last and has as many bytes before its first zero as the longest serial has, so `LengthIs` and
  `SerialFound` know what `strlen` reads of it. `RoundUndone` takes a round of SM4 back with the same round key, on the words in reverse order;
  `RoundsUndone`, `OneRound` and `EcbUndone` do so for all 32 rounds, a block and a text of blocks. `KeysMade` and `SetKeys` give the round
  keys. That the tables are those of SM4 is no part of it: TLC evaluates `TestVector`, the first test vector that `sm4.cpp` quotes, an `ASSUME` of `MCFormats`.
- `BoardAlwaysSetUp`: `Spec => []BoardSetUp`, for every speed and for every order of descriptors that `BoardsAssumption` allows: before the first pair of endpoints,
  behind it and between it and its interface may stand whatever is none of either. `RowNear` looks at the 23 rows of the table, `SpeedRegister` and `ChipSettings`
  take the registers apart again as the chip does, and `LookedUpTo` says that the loop over the descriptors ends with the second endpoint.
- `FieldsAlwaysShown`: `Spec => []FieldsShown`, for texts of any characters but zero (a period has its 16, blanks behind them) and whatever lies behind an
  array. `SamePlace` compares the offsets that the compiler gives to the members of `SCardMsg` with those written in `SelfCallbackNfc.java`, and `Apart` says that what is
  copied to one is not read as another (`CopyRead`). `CutIs` has the three ways in which a text can be cut, and `GoodAtBlank`, `GoodNothing` and `GoodHalf` what is seen
  then. The proof found what the runs had not: a text that fills its field and ends in the character 2000 loses that character, whose lower half is nothing.
  `TextShown` says so, and the run has the text.

Only model-checked:

- the liveness properties `ReadReturns`, `RequestEnds`, `CallReturns` and `ReadingEnds`, which need fairness and `ENABLED`, outside what the prover does (of
  the first three it has the half that is a safety property, see above);
- `FilesAsNamed`, `StrangerRefused` and the other properties that the code does not have.

## 5. What is not modelled

- The server beyond its rules; the socket options.
- Pack numbers above three, serials of 32 to 50 characters (they do not fit the buffer they are
  copied to), boards without endpoints, an Android device without a `DevName`: the behaviour of the code there is undefined.
- `SetNoSNVerify`: the JNI calls it under `if (0)`. `SetNFCServer` of `CReadCard`: the lines of `JavaReadCard`'s, which
  `CaptureScreen` models.
- A PN532 drops an unfinished answer when a new command comes; a serial read returns all that has arrived. Error
  frames shorter than a length byte are left out of `Frames`.
- Two sessions at an OTG cable are modelled, and opening the second does not flush it. In the model an answer that the first left on the line can
  be taken for that of a command of the next, if `InitNFC` leaves it there too: hence the condition `Undisturbed`. The run `nfc`, whose reads leave at most three
  pieces, has such sessions but not that answer; TLC finds it with `MaxUnread = 7`. Whether bytes survive closing and opening the cable depends on the chip in it, which the
  repository does not say.
- What `memcpy` with a length of -1 destroys before the process ends.
- Another descriptor that has the board's interface claimed may make the board silent; the model
  lets it be silent then. Several boards on one bus, and the transfers of usbfs, are left out (`usbhost.c`).
- `UartInit`, whose results nobody looks at. 38400 and 57600 baud are mapped to `B19200` in `serial.c:223-228`, which `LineSet` excepts;
  nobody asks for them.
- The bytes of the photo, and the half of it that `CReadCard` blanks when `m_dwFunLimited` is set; SM4 in CBC mode, which
  nothing calls; the characters that `IpEditer` filters; menus and toasts; unused Java.
- In `CaptureScreen`: an NFC adapter is always present. A picture that the decoder reports as written but that cannot be read back is modelled; one that is damaged is not.
- The vendored headers of Android, in two copies: about two thirds of the lines under `src/`. Of the 24 files of
  the project's own code that the modules stand for, 4 400 of 8 100 lines are mapped; the others are comments, declarations, logging, code that
  nothing calls (most of `SelfCallbackNfc.java`), and the parts named here.

Facts about the texts that `TextShown` spells out instead of claiming more: a text ends at the first bytes `20 00`, looked
for at odd places too and one byte beyond the array (`Beyonds`). One that fills its field has no such end and is shown empty, or all
but half of its last character; one with a blank inside is cut there; and a character 20xx before one of the form xx00 is taken
for an end. Regular texts, which end in blanks and have none inside, are shown as they are.

`WrongByteNoticed` excepts the length byte of a PN532 frame that arrives in parts: its complement is not looked at and the check sum
does not cover it. `LatestServer` claims the port only for 1 to 65535:
`SetNFCServer` keeps the port before if the new one is 0 modulo 65536. `SerialArrives` excepts the tail of a longer serial that
`SetPhoneSerial` leaves behind a shorter one. The order of the three packs, which the reader does not check, is that of the server's rules, and no run disturbs it.

Memory and descriptors that are simply never released, and that no exploration is needed to see: the
inotify descriptor of each `usb_host_init` (`otg.c:235`; `WatchesLost` bounds what a call loses), the `usb_device` of a board given by Android
(`otg.c:334`).

## 6. Plan

Built so far, in this order: `CardAndServer` and `JavaReadCard` (the path the application
takes), their proofs, `CardReadSpec`, `NfcProtocol`, `ReadCard`, `NfcDevice` and its proofs, `CaptureScreen`; then
`FileReadSpec`, `CardCommand` and its proofs, the worlds of the readers, `Ciphers`, `Frames`, `CardText` and `Formats`, and what
ends the application in `CaptureScreen`; then the proofs of the conversation in `CardAndServerProofs`, `ReadCardProofs`, `CaptureScreenProofs`,
`NfcProtocolProofs` and `FormatsProofs`.

Next:

1. `UsbBus`: several boards on one bus, coming and going while `usb_host_load` looks through it.
