---------------------------- MODULE CaptureScreen ----------------------------
(***************************************************************************)
(* The screen of the application: MainActivity with its Handler, and the   *)
(* part of SelfCallbackNfc that runs in it.                                *)
(*                                                                         *)
(* Everything happens in the UI thread, one message of its queue after the *)
(* other: intents of the NFC service, life-cycle calls and results of the  *)
(* settings dialog, posted by the system at any time, and the messages of  *)
(* mHandler.  A read, network included, is one long message: what the      *)
(* system posts meanwhile waits in front of the messages that the read     *)
(* posts at its end.  The read itself is JavaReadCard; here it only ends.  *)
(*                                                                         *)
(* The system may kill the process; the preferences and the files of the   *)
(* photo decoder survive, possibly in the middle of being written.         *)
(***************************************************************************)
EXTENDS Integers, Sequences

CONSTANTS
  Servers,    \* addresses, with a port, that the settings dialog may store
  Faults,     \* what goes wrong: "read" fails, tag is "gone", "photo" is not
              \* decoded or, once decoded, cannot be read back ("unread"), tag of
              \* another kind ("other") or one that "throws" what is no
              \* IOException, process "kill"ed
  MaxTaps,    \* bound: tags tapped
  MaxEvents   \* bound: other events of the system and the user

\* A port of digits that parseInt refuses: none at all, or too many.
NoNumber == -1

ASSUME ServersAssumption ==
  /\ \A s \in Servers : s.port \in Nat \cup {NoNumber}
  /\ \E s \in Servers : s.port # NoNumber

VARIABLES
  prefs, license,      \* persistent: remote_ip and port; base.dat and license.lic
  server, intent, act, \* fields of the activity, and its number
  fields, idimg,       \* the card whose text, and whose photo, is on screen, or 0
  Readingtext,         \* what the line of text says, and whether it is visible
  phase,               \* "down" (no process), "resumed", "paused"
  pc, queue,           \* UI thread: what it is in the middle of; its messages
  connected,           \* tags that isodep.connect() has connected
  native,              \* g_reader's m_szServerIP and m_wServerPort
  top, dialog,         \* the system: is the activity on top? settings open?
  tapped, outcome,     \* history: the latest card; the last read and its end
  cause, risks,        \* history: what ended the application; what may end it
  taps, events

activity == <<server, intent, act>>
views    == <<fields, idimg, Readingtext>>
reads    == <<tapped, outcome>>
history  == <<reads, cause, risks>>
process  == <<connected, native>>
system   == <<top, dialog, taps, events>>
disk     == <<prefs, license>>
vars == <<disk, activity, views, phase, pc, queue, process, system, history>>

Intent(card, tech)   == [card |-> card, tech |-> tech]
NoIntent             == Intent(0, FALSE)
Msg(what, in, a)     == [what |-> what, intent |-> in, act |-> a]
Ended(card, result)  == [card |-> card, result |-> result]
Line(text, visible)  == [text |-> text, visible |-> visible]
Told                 == {"READ_IDCARD_SUCCESS", "NFC_READCARD_FAIL"}

Address(ip, port)    == [ip |-> ip, port |-> port]

\* onCreate: an empty screen; the server comes from the preferences.
onCreate ==
  /\ server' = prefs
  /\ intent' = NoIntent
  /\ fields' = 0 /\ idimg' = 0
  /\ Readingtext' = Line("reading", FALSE)
  /\ tapped' = 0 /\ outcome' = Ended(0, "none")

Init ==
  /\ prefs \in {s \in Servers : s.port # NoNumber} /\ license = "absent"
  /\ server = prefs /\ intent = NoIntent /\ act = 1
  /\ fields = 0 /\ idimg = 0 /\ Readingtext = Line("reading", FALSE)
  /\ phase = "resumed" /\ pc = "ui" /\ queue = <<>> /\ connected = {}
  /\ native = Address("none", 0) /\ cause = "none" /\ risks = {}
  /\ top = TRUE /\ dialog = FALSE
  /\ tapped = 0 /\ outcome = Ended(0, "none")
  /\ taps = 0 /\ events = 0

-----------------------------------------------------------------------------
(* The system and the user                                                 *)

Post(msgs) == queue' = queue \o msgs
Event      == events < MaxEvents /\ phase # "down" /\ events' = events + 1
Sys(what)  == Msg(what, NoIntent, act)
Waits(what) == \E i \in DOMAIN queue : queue[i].what = what
Risk(r)    == risks' = risks \cup {r} /\ UNCHANGED <<reads, cause>>

\* A tag comes to the phone.  The foreground dispatch reports a card as
\* TECH_DISCOVERED and any other tag as TAG_DISCOVERED.
Tap ==
  /\ top /\ phase # "down" /\ taps < MaxTaps
  /\ taps' = taps + 1
  /\ \E tech \in {TRUE} \cup (IF "other" \in Faults THEN {FALSE} ELSE {}) :
       Post(<<Msg("newintent", Intent(taps + 1, tech), act)>>)
  /\ IF Waits("newintent") \/ Waits("MESSAGE_VALID_NFCBUTTON")
       THEN Risk("taps") ELSE UNCHANGED history
  /\ UNCHANGED <<disk, activity, views, phase, pc, process, top, dialog, events>>

\* The user leaves the activity, for another or for the settings dialog.
Leave ==
  /\ Event /\ top
  /\ top' = FALSE
  /\ dialog' \in IF pc = "ui" /\ phase = "resumed" THEN BOOLEAN ELSE {FALSE}
  /\ Post(<<Sys("pause")>>)
  /\ IF Waits("newintent") THEN Risk("left") ELSE UNCHANGED history
  /\ UNCHANGED <<disk, activity, views, phase, pc, process, taps>>

Return ==
  /\ Event /\ ~top /\ ~dialog
  /\ top' = TRUE
  /\ Post(<<Sys("resume")>>)
  /\ UNCHANGED <<disk, activity, views, phase, pc, process, dialog, taps,
                 history>>

\* The dialog opens when the activity has paused.  It stores the address, or
\* is left with the back key; either way the activity gets a result before it
\* is resumed.
CloseSettings ==
  /\ Event /\ dialog /\ phase = "paused" /\ pc = "ui"
  /\ \A i \in DOMAIN queue : queue[i].what # "pause"
  /\ prefs' \in Servers
  /\ IF prefs'.port = NoNumber THEN Risk("port") ELSE UNCHANGED history
  /\ dialog' = FALSE /\ top' = TRUE
  /\ Post(<<Sys("result"), Sys("resume")>>)
  /\ UNCHANGED <<license, activity, views, phase, pc, process, taps>>

\* The screen is turned: the manifest lets the system recreate the activity.
Turn ==
  /\ Event /\ top
  /\ Post(<<Sys("relaunch")>>)
  /\ IF Waits("newintent") THEN Risk("left") ELSE UNCHANGED history
  /\ UNCHANGED <<disk, activity, views, phase, pc, process, top, dialog, taps>>

\* The process ends with everything in it.
Dies(why) ==
  /\ phase' = "down"
  /\ pc' = "ui" /\ queue' = <<>> /\ connected' = {}
  /\ native' = Address("none", 0) /\ cause' = why
  /\ top' = FALSE /\ dialog' = FALSE
  /\ UNCHANGED <<disk, activity, views, reads, risks>>

\* An exception that nothing catches.
Throws(why) == Dies(why) /\ UNCHANGED <<taps, events>>

Kill == "kill" \in Faults /\ Event /\ Dies("none") /\ UNCHANGED taps

\* Also when a tag starts it, the application begins without an intent.
Launch ==
  /\ phase = "down" /\ prefs.port # NoNumber
  /\ phase' = "resumed" /\ top' = TRUE
  /\ act' = act + 1
  /\ onCreate
  /\ cause' = "none" /\ risks' = {}
  /\ UNCHANGED <<disk, pc, queue, process, dialog, taps, events>>

\* It ends in onCreate, each time, with a port that is no number.
LaunchFails ==
  /\ phase = "down" /\ prefs.port = NoNumber
  /\ Throws("port")

-----------------------------------------------------------------------------
(* The UI thread: one message of the queue                                 *)

Handles(what) ==
  /\ phase # "down" /\ pc = "ui"
  /\ queue # <<>> /\ Head(queue).what = what

\* Was the message sent to the handler of the activity on the screen?
Current == Head(queue).act = act

\* Mutation: an intent that comes while another is waiting is not stored.
StoreIntent_First(in) == intent' = IF queue = <<Head(queue)>> THEN in ELSE intent

StoreIntent(in) == intent' = in

\* The screen is cleared, the text says that a card is read, and the handler
\* is to read it.  (The system pauses the activity before and resumes it
\* after.)
onNewIntent ==
  /\ Handles("newintent")
  /\ StoreIntent(Head(queue).intent)
  /\ fields' = 0 /\ idimg' = 0
  /\ Readingtext' = Line("reading", TRUE)
  /\ tapped' = Head(queue).intent.card
  /\ outcome' = Ended(Head(queue).intent.card, "none")
  /\ queue' = Append(Tail(queue), Sys("MESSAGE_VALID_NFCBUTTON"))
  /\ UNCHANGED <<disk, server, act, phase, pc, process, system, cause, risks>>

onPause ==
  /\ Handles("pause")
  /\ phase' = "paused" /\ queue' = Tail(queue)
  /\ UNCHANGED <<disk, activity, views, pc, process, system, history>>

\* Mutation: the handler is told to read whenever the activity is resumed.
onResume_Reads ==
  /\ Handles("resume")
  /\ phase' = "resumed"
  /\ queue' = Append(Tail(queue), Sys("MESSAGE_VALID_NFCBUTTON"))
  /\ UNCHANGED <<disk, activity, views, pc, process, system, history>>

onResume ==
  /\ Handles("resume")
  /\ phase' = "resumed" /\ queue' = Tail(queue)
  /\ UNCHANGED <<disk, activity, views, pc, process, system, history>>

\* Mutation: a result is looked at only if the dialog says RESULT_OK, which
\* it never does.
onActivityResult_IfOk ==
  /\ Handles("result")
  /\ queue' = Tail(queue)
  /\ UNCHANGED <<disk, activity, views, phase, pc, process, system, history>>

\* It and onCreate end the application if the port is no number.
onActivityResult ==
  /\ Handles("result")
  /\ IF prefs.port = NoNumber THEN Throws("port")
       ELSE /\ server' = prefs /\ queue' = Tail(queue)
            /\ UNCHANGED <<disk, intent, act, views, phase, pc, process, system, history>>

\* Another activity, with another handler, takes over.
Relaunch ==
  /\ Handles("relaunch")
  /\ IF prefs.port = NoNumber THEN Throws("port")
       ELSE /\ act' = act + 1 /\ queue' = Tail(queue)
            /\ onCreate
            /\ UNCHANGED <<disk, phase, pc, process, system, cause, risks>>

\* Mutation: whatever intent the activity holds is taken for a card.
isNFC_Always(in) == TRUE

isNFC(in) == in.tech

\* enableForegroundDispatch throws unless its activity is resumed.
ValidButton ==
  /\ Handles("MESSAGE_VALID_NFCBUTTON")
  /\ IF ~Current \/ phase # "resumed"
       THEN Throws("left")
       ELSE /\ queue' = Tail(queue)
            /\ \/ /\ isNFC(intent) /\ pc' = "connect"
                  /\ UNCHANGED <<Readingtext, outcome>>
               \/ /\ ~isNFC(intent) /\ pc' = "ui"
                  /\ Readingtext' = [Readingtext EXCEPT !.visible = TRUE]
                  /\ outcome' = Ended(intent.card, "untold")
            /\ UNCHANGED <<disk, activity, fields, idimg, phase, process, system,
                           tapped, cause, risks>>

\* What the read messages show.  Those of an activity that is gone change
\* its own views, which nobody sees.
Shows(what) ==
  /\ Handles(what)
  /\ queue' = Tail(queue)
  /\ UNCHANGED <<disk, activity, phase, pc, process, system, history>>

CardSuccess ==
  /\ Shows("READ_IDCARD_SUCCESS")
  /\ fields' = IF Current THEN Head(queue).intent.card ELSE fields
  /\ Readingtext' = [Readingtext EXCEPT !.visible = @ /\ ~Current]
  /\ UNCHANGED idimg

PhotoSuccess ==
  /\ Shows("READ_PHOTO_SUCCESS")
  /\ idimg' = IF Current THEN Head(queue).intent.card ELSE idimg
  /\ Readingtext' = [Readingtext EXCEPT !.visible = @ /\ ~Current]
  /\ UNCHANGED fields

\* Where the decoder's file could not be read back, input2byte put null into
\* the message, and its length is asked for.
PhotoMissing ==
  "unread" \in Faults /\ Handles("READ_PHOTO_SUCCESS") /\ Throws("unread")

ShowError ==
  /\ \E what \in {"NFC_READCARD_FAIL", "READ_PHOTO_ERROR"} :
       /\ Shows(what)
       /\ Readingtext' = IF Current THEN Line(what, TRUE) ELSE Readingtext
  /\ UNCHANGED <<fields, idimg>>

-----------------------------------------------------------------------------
(* The UI thread in the middle of a read                                   *)

\* A step of the read; the messages it sends carry the intent it reads.
Step(from) ==
  /\ pc = from
  /\ UNCHANGED <<prefs, activity, views, native, system, tapped, cause, risks>>

Send(what) == Post(<<Msg(what, intent, act)>>)

Ports == {n \in Nat : n < 65536}  \* an unsigned short

\* The port is cut to an unsigned short; port 0 leaves the one before.
SetNFCServer(to) ==
  native' = Address(to.ip, IF to.port % 65536 > 0 THEN to.port % 65536 ELSE native.port)

\* The tag is connected and the server and type are set.  An IOException is
\* swallowed, and no other exception.  A tag object that is connected already,
\* because two messages read the same intent, lets connect() throw such another.
Connect ==
  /\ pc = "connect"
  /\ \/ /\ intent.card \notin connected
        /\ pc' = "read" /\ connected' = connected \cup {intent.card}
        /\ SetNFCServer(server)
        /\ UNCHANGED <<disk, activity, views, phase, queue, system, history>>
     \/ /\ "gone" \in Faults
        /\ pc' = "ui"
        /\ outcome' = IF outcome.result \in Told THEN outcome
                                                 ELSE Ended(intent.card, "untold")
        /\ UNCHANGED <<disk, activity, views, phase, queue, process, system,
                       tapped, cause, risks>>
     \/ /\ intent.card \in connected
        /\ Throws("taps")
     \/ "throws" \in Faults /\ Throws("throws")

\* Mutation: a failed read sends no message.
ReadFails_Silently ==
  /\ "read" \in Faults
  /\ pc' = "ui" /\ UNCHANGED queue
  /\ outcome' = Ended(intent.card, "NFC_READCARD_FAIL")

ReadFails ==
  /\ "read" \in Faults
  /\ pc' = "ui" /\ Send("NFC_READCARD_FAIL")
  /\ outcome' = Ended(intent.card, "NFC_READCARD_FAIL")

\* readIdCard: the JNI call returns with the card or with an error, or throws
\* what a callback of it left pending (thrown in CardCommand).
readIdCard ==
  \/ /\ Step("read")
     /\ \/ ReadFails
        \/ pc' = "copy" /\ UNCHANGED <<queue, outcome>>
     /\ UNCHANGED <<license, phase, process>>
  \/ /\ pc = "read" /\ "throws" \in Faults
     /\ Throws("throws")

\* callBackFinish copies the decoder's files unless they exist.
CopyLicense ==
  /\ Step("copy")
  /\ \/ license = "absent" /\ license' = "part" /\ pc' = "copying"
     \/ license # "absent" /\ license' = license /\ pc' = "photo"
  /\ UNCHANGED <<phase, queue, process, outcome>>

\* An exception while copying is swallowed and leaves what was copied.
CopiedLicense ==
  /\ Step("copying")
  /\ license' \in {"whole"} \cup (IF "photo" \in Faults THEN {"part"} ELSE {})
  /\ pc' = "photo"
  /\ UNCHANGED <<phase, queue, process, outcome>>

\* wltInit and wltGetBMP, and the message with the photo or the error.
DecodePhoto ==
  /\ Step("photo")
  /\ \/ license = "whole" /\ Send("READ_PHOTO_SUCCESS")
     \/ /\ license # "whole" \/ "photo" \in Faults
        /\ Send("READ_PHOTO_ERROR")
  /\ pc' = "finish"
  /\ UNCHANGED <<license, phase, process, outcome>>

\* The last message of callBackFinish.
Finish ==
  /\ Step("finish")
  /\ Send("READ_IDCARD_SUCCESS")
  /\ outcome' = Ended(intent.card, "READ_IDCARD_SUCCESS")
  /\ pc' = "ui"
  /\ UNCHANGED <<license, phase, process>>

-----------------------------------------------------------------------------
UIThread ==
  \/ onNewIntent \/ onPause \/ onResume \/ onActivityResult \/ Relaunch
  \/ ValidButton \/ CardSuccess \/ PhotoSuccess \/ PhotoMissing
  \/ ShowError
  \/ Connect \/ readIdCard \/ CopyLicense \/ CopiedLicense \/ DecodePhoto \/ Finish

Next == UIThread \/ Tap \/ Leave \/ Return \/ CloseSettings \/ Turn \/ Kill
        \/ Launch \/ LaunchFails

Spec     == Init /\ [][Next]_vars
\* The looper takes one message after the other, and a read comes to an end
\* (ReadReturns of JavaReadCard).
FairSpec == Spec /\ WF_vars(UIThread)

-----------------------------------------------------------------------------
(* Properties                                                              *)

Cards == 0..taps

\* The variables have their types; only a card is ever read, by the activity
\* that is resumed, and never for one that has been recreated.
TypeOK ==
  /\ prefs \in Servers
  /\ server \in Servers /\ server.port # NoNumber
  /\ native.port \in Ports
  /\ license \in {"absent", "part", "whole"}
  /\ fields \in Cards /\ idimg \in Cards /\ tapped \in Cards
  /\ connected \subseteq Cards
  /\ Readingtext.text \in {"reading", "NFC_READCARD_FAIL", "READ_PHOTO_ERROR"}
  /\ phase \in {"down", "resumed", "paused"}
  /\ pc \in {"ui", "connect", "read", "copy", "copying", "photo", "finish"}
  /\ outcome.result \in Told \cup {"none", "untold"}
  /\ pc # "ui" => phase = "resumed" /\ intent.tech /\ intent.card # 0

\* The UI thread has nothing to do.
Settled == phase = "resumed" /\ pc = "ui" /\ queue = <<>>

\* However taps, results, turns of the screen and settings overtake each
\* other in the queue: once it is empty the screen shows the result of the
\* latest tap, if that was read at all, and not that of an earlier one.
LatestShown ==
  Settled =>
    /\ outcome.card = tapped
    /\ outcome.result = "READ_IDCARD_SUCCESS" =>
         fields = tapped /\ ~Readingtext.visible
    /\ outcome.result = "NFC_READCARD_FAIL" =>
         Readingtext = Line("NFC_READCARD_FAIL", TRUE)

\* A read goes to the server that the settings dialog stored last, also
\* after the process was killed with the dialog open; with a port that is not
\* in 1..65535, to the stored address at least.
LatestServer ==
  pc = "read" =>
    /\ native.ip = prefs.ip
    /\ prefs.port \in Ports \ {0} => native.port = prefs.port

\* The application ends by itself only if a second tap came before the first
\* was taken up, if the user left or turned the activity while a tap was on
\* its way to it, if a port was stored that is no number, if the tag threw
\* another exception than the IOException that is caught, or if the decoded
\* photo could not be read back.
EndsOnlyFor ==
  cause \in risks \cup (Faults \cap {"throws", "unread"}) \cup {"none"}

\* The screen does not say for ever that a card is being read, unless the
\* card was gone before it was connected or was none.
ReadingEnds ==
  Readingtext = Line("reading", TRUE) ~>
    \/ Readingtext # Line("reading", TRUE)
    \/ phase = "down" \/ outcome.result = "untold"

\* Beside the text of a card stands its photo, or the message that the photo
\* could not be read.
PhotoOrError ==
  Settled /\ fields # 0 =>
    idimg = fields \/ Readingtext = Line("READ_PHOTO_ERROR", TRUE)
=============================================================================
