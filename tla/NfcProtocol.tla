------------------------------ MODULE NfcProtocol ------------------------------
(***************************************************************************)
(* The exchange between CNFCProtocol and a PN532 board at the end of a     *)
(* serial port or of an OTG (USB serial) cable, under the discipline of    *)
(* its caller CReadCard: open, InitNFC, commands one after the other, and  *)
(* close at the first one that fails.                                      *)
(*                                                                         *)
(* The board acknowledges a command at once and sends the answer when the  *)
(* card has given it, so that an answer reaches the line in three pieces:  *)
(* the 6 bytes of the ACK, the answer's 00 00 FF LEN, and the rest.  What  *)
(* has reached the line stays there until somebody reads it.               *)
(*                                                                         *)
(* An answer to a command of InitNFC is shorter than CmdRequest thinks any *)
(* answer can be: if it comes so late that CmdRequest reads it, the length *)
(* to be copied is -1 and the process dies (overrun, Crash).               *)
(***************************************************************************)
EXTENDS Integers, Sequences

CONSTANTS
  Ports,        \* what the board may hang on, a subset of {"serial", "otg"}
  FileLens,     \* lengths of the files that may be read
  CardFaults,   \* what the card may do, a subset of {"status", "refuse"}
  MaxSessions,  \* bound: how often the device is opened, for each port
  MaxRequests,  \* bound: requests in a behaviour, for each port
  MaxUnread     \* bound: pieces that a read from a cable may leave unread

ASSUME PortAssumption   == Ports \subseteq {"serial", "otg"}
ASSUME LensAssumption   == FileLens \subseteq Nat \ {0}
ASSUME FaultsAssumption == CardFaults \subseteq {"status", "refuse"}
ASSUME BoundsAssumption == /\ MaxSessions \in [Ports -> Nat]
                           /\ MaxRequests \in [Ports -> Nat]
                           /\ MaxUnread \in Nat

RECV_TIMEOUT == 2     \* seconds
BUFFSIZE     == 156   \* sizeof(buff) in CmdRequest
CHUNK        == 112   \* 0x70, the most that one NFC_CMD_RDFILE reads
INITSTEPS    == 5     \* wake-up and four settings

VARIABLES
  Port,           \* what the board hangs on in this behaviour
  pc, step,       \* where the caller and CmdRequest are; the step of InitNFC
  req,            \* the request: its next command, the file, what is left to
                  \* read of it and from where
  file,           \* what NFC_CMD_SELRDFILE has put into recvbuff
  buff, off,      \* CmdRequest's buffer and how far it believes to be in it
  secs,           \* seconds since the command was written
  ret, why, ans,  \* CmdRequest's result, its cause, and the answer returned
  wire,           \* bytes that arrived and that nobody has read
  pending,        \* what the board has not sent yet of its last answer
  sel,            \* the file that the card has selected
  drained,        \* history: when InitNFC ended, had the line nothing left?
  sent, sessions, requests   \* counters: frames written, opens, requests

caller == <<step, req, file, drained, sessions, requests>>
cmd    == <<buff, off, secs, ret, why, ans>>
board  == <<wire, pending, sel, sent>>
vars   == <<pc, caller, cmd, board, Port>>

-----------------------------------------------------------------------------
(* Answers and their pieces                                                *)

FilesOfCard == {"f6011", "f6021"}
Names  == {"none", "mf"} \cup FilesOfCard  \* "mf" is the card's root
Ops    == {"none", "init", "cmd", "select", "read"}
NoReq  == [op |-> "none", name |-> "none", len |-> 0, left |-> 0, at |-> 0]

\* n is the length that CmdRequest will copy and return, len - 3, status
\* included; the LEN of an answer to a command of InitNFC is 2, so n is -1.
Piece(id, part, n, r) ==
  [id |-> id, part |-> part, n |-> n, name |-> r.name, at |-> r.at]
NoPiece    == Piece(0, "rest", 0, NoReq)
AnswerOf(id, n, r) == <<Piece(id, "ack", n, r), Piece(id, "head", n, r),
                        Piece(id, "rest", n, r)>>
Size(p)    == CASE p.part = "ack"  -> 6
                [] p.part = "head" -> 4
                [] p.part = "rest" -> 6 + p.n
Bytes(b)   == LET sum[i \in 0..Len(b)] ==
                    IF i = 0 THEN 0 ELSE sum[i - 1] + Size(b[i])
              IN  sum[Len(b)]

\* Mutation: a long file is read with one command.
RdLen_Uncut(left) == left

RdLen(left) == IF left > CHUNK THEN CHUNK ELSE left
Want(r)     == IF r.op = "read" THEN RdLen(r.left) + 2 ELSE 2

-----------------------------------------------------------------------------
Init ==
  /\ Port \in Ports
  /\ pc = "closed" /\ step = 0
  /\ req = NoReq /\ file = <<>> /\ drained = FALSE
  /\ buff = <<>> /\ off = 0 /\ secs = 0
  /\ ret = 0 /\ why = "none" /\ ans = NoPiece
  /\ wire = <<>> /\ pending = <<>> /\ sel = "mf"
  /\ sent = 0 /\ sessions = 0 /\ requests = 0

\* WriteNFCData of a command.  The board drops what it was busy with and
\* works on the new command; what it answers is up to the card.
Answers(r) ==
  CASE r.op = "init" -> {-1}
    [] r.op = "read" /\ sel = "mf" -> {2}
    [] OTHER -> {Want(r)} \cup (IF "status" \in CardFaults THEN {0, 2} ELSE {})

WriteCommand(r) ==
  /\ sent' = sent + 1
  /\ \E n \in Answers(r) :
       pending' = AnswerOf(sent + 1, n, [r EXCEPT !.name =
                             IF r.op = "read" THEN sel ELSE r.name])
  /\ sel' \in IF r.op # "select" THEN {sel}
              ELSE {r.name} \cup (IF "refuse" \in CardFaults THEN {sel} ELSE {})

-----------------------------------------------------------------------------
(* Open and InitNFC                                                        *)

\* OpenNFC.  Setting the serial port up flushes it; the OTG path does not.
OpenNFCDev ==
  /\ pc = "closed"
  /\ sessions < MaxSessions[Port]
  /\ sessions' = sessions + 1
  /\ wire' = IF Port = "serial" THEN <<>> ELSE wire
  /\ pc' = "init" /\ step' = 1 /\ drained' = FALSE
  /\ UNCHANGED <<req, file, requests, cmd, pending, sel, sent>>

InitWrite ==
  /\ pc = "init"
  /\ WriteCommand([NoReq EXCEPT !.op = "init"])
  /\ pc' = "initread"
  /\ UNCHANGED <<caller, cmd, wire>>

\* How much of what has arrived one read returns: all of it from a serial
\* port, at least the first packet of it from a USB bridge.
Readable ==
  IF Port = "serial" \/ wire = <<>> THEN {Len(wire)}
  ELSE {k \in 1..Len(wire) : Len(wire) - k <= MaxUnread}

\* One read ten milliseconds later, whatever it returns.
InitRead ==
  /\ pc = "initread"
  /\ \E k \in Readable : wire' = SubSeq(wire, k + 1, Len(wire))
  /\ step' = step + 1
  /\ drained' = (step = INITSTEPS /\ wire' = <<>> /\ pending = <<>>)
  /\ pc' = IF step = INITSTEPS THEN "ready" ELSE "init"
  /\ UNCHANGED <<req, file, sessions, requests, cmd, pending, sel, sent>>

-----------------------------------------------------------------------------
(* CmdRequest                                                              *)

\* The locals of CmdRequest when it has cleared the buffer and noted the time.
\* They are gone when it returns; between two calls they read the same here.
NoLocals ==
  /\ buff' = <<>> /\ off' = 0 /\ secs' = 0
  /\ ret' = 0 /\ why' = "none" /\ ans' = NoPiece

\* Write the command, clear the buffer, note the time.
CmdWrite ==
  /\ pc = "write"
  /\ WriteCommand(req)
  /\ NoLocals
  /\ pc' = "read"
  /\ UNCHANGED <<caller, wire>>

\* buff holds exactly an ACK and an answer as long as its length byte says,
\* at the place where the length byte is looked for.
Complete(b, o) ==
  /\ o = Bytes(b)
  /\ Len(b) = 3
  /\ b[1].part = "ack" /\ b[2].part = "head" /\ b[3].part = "rest"

\* buff begins in the middle of an older answer: some other byte passes for
\* the length, and if that length happens to fit, the check sum fails.
Garbled(b, o) == b[1].part # "ack" /\ o > 9

\* Mutation: off is compared with sizeof(buff) as a signed number.
Full_Signed(o) == o >= BUFFSIZE

\* off is compared with sizeof(buff) as an unsigned number.
Full(o) == o >= BUFFSIZE \/ o < 0

CmdReturns(r, cause, a) ==
  /\ ret' = r /\ why' = cause /\ ans' = a
  /\ pc' = "returned"

\* memcpy of a complete answer, and its length as the result.  A length of -1
\* makes memcpy run on until it leaves the memory of the process.
CopyAnswer(a) ==
  \/ a.n >= 0 /\ CmdReturns(a.n, "answer", a)
  \/ a.n < 0 /\ pc' = "overrun" /\ UNCHANGED <<ret, why, ans>>

\* A read that returns something.
CmdRead ==
  /\ pc = "read"
  /\ \E k \in Readable \ {0} :
       LET b == buff \o SubSeq(wire, 1, k)
           o == off + Bytes(SubSeq(wire, 1, k))
       IN  /\ wire' = SubSeq(wire, k + 1, Len(wire))
           /\ buff' = b /\ off' = o
           /\ \/ Complete(b, o) /\ CopyAnswer(b[3])
              \/ Garbled(b, o) /\ CmdReturns(-1, "checksum", NoPiece)
              \/ ~Complete(b, o) /\ Full(o) /\ CmdReturns(-1, "full", NoPiece)
              \/ /\ ~Complete(b, o) /\ ~Full(o)
                 /\ UNCHANGED <<pc, ret, why, ans>>
  /\ UNCHANGED <<caller, secs, pending, sel, sent>>

\* Mutation: only a failed read looks at the clock, an empty one does not.
TimedOut_OnError(s) == Port = "otg" /\ s >= RECV_TIMEOUT

TimedOut(s) == s >= RECV_TIMEOUT

\* A read of the serial port that finds nothing returns 0 at once.
CmdReadNothing ==
  /\ pc = "read" /\ Port = "serial"
  /\ wire = <<>>
  /\ TimedOut(secs)
  /\ CmdReturns(-1, "timeout", NoPiece)
  /\ UNCHANGED <<caller, buff, off, secs, board>>

\* A bulk transfer that gets nothing for a second returns -1, which is added
\* to off like any other result.
CmdReadFails ==
  /\ pc = "read" /\ Port = "otg"
  /\ wire = <<>>
  /\ secs' = secs + 1
  /\ IF TimedOut(secs')
       THEN CmdReturns(-1, "timeout", NoPiece) /\ off' = off
       ELSE /\ off' = off - 1
            /\ IF Full(off') THEN CmdReturns(-1, "full", NoPiece)
                             ELSE UNCHANGED <<pc, ret, why, ans>>
  /\ UNCHANGED <<caller, buff, board>>

Tick ==
  /\ pc = "read" /\ Port = "serial"
  /\ secs < RECV_TIMEOUT
  /\ secs' = secs + 1
  /\ UNCHANGED <<pc, caller, buff, off, ret, why, ans, board>>

\* The process ends, with its request; whoever starts it again may open the
\* device once more.
Crash ==
  /\ pc = "overrun"
  /\ req' = NoReq /\ file' = <<>>
  /\ pc' = "closed"
  /\ NoLocals
  /\ UNCHANGED <<step, drained, sessions, requests, board>>

-----------------------------------------------------------------------------
(* The caller: CReadCard and NFC_CMD_SELRDFILE                             *)

\* A single command, or NFC_CMD_SELRDFILE.
Request ==
  /\ pc = "ready"
  /\ requests < MaxRequests[Port]
  /\ requests' = requests + 1
  /\ \/ req' = [NoReq EXCEPT !.op = "cmd"]
     \/ \E name \in FilesOfCard, len \in FileLens :
          req' = [op |-> "select", name |-> name, len |-> len, left |-> len, at |-> 0]
  /\ file' = <<>>
  /\ pc' = "write"
  /\ UNCHANGED <<step, drained, sessions, cmd, board>>

\* Mutation: a chunk of any length will do.
Accepts_AnyLength(r, n) == IF r.op = "select" THEN n >= 0 ELSE n > 0

\* The test of CmdRequest's result: a selection may answer anything, a chunk
\* must be whole and have its status, other commands must answer something.
Accepts(r, n) ==
  CASE r.op = "cmd"    -> n > 0
    [] r.op = "select" -> n >= 0
    [] r.op = "read"   -> n = Want(r)

\* The command was answered: on to the first chunk, the next one, or the end.
CommandDone ==
  /\ pc = "returned"
  /\ Accepts(req, ret)
  /\ LET n == ret - 2
     IN  /\ file' = IF req.op # "read" THEN file
                    ELSE Append(file, [at |-> ans.at, n |-> n, name |-> ans.name])
         /\ req' = CASE req.op = "cmd"    -> NoReq
                     [] req.op = "select" -> [req EXCEPT !.op = "read"]
                     [] req.op = "read"   -> [req EXCEPT !.left = @ - n, !.at = @ + n]
  /\ pc' = IF req.op = "cmd" \/ req'.left = 0 THEN "ready" ELSE "write"
  /\ NoLocals
  /\ UNCHANGED <<step, drained, sessions, requests, board>>

\* Mutation: the device stays open after a failure.
GiveUp_KeepsOpen ==
  /\ pc = "returned"
  /\ ~Accepts(req, ret)
  /\ req' = NoReq /\ file' = <<>>
  /\ pc' = "ready"
  /\ NoLocals
  /\ UNCHANGED <<step, drained, sessions, requests, board>>

\* Any failure ends the read: CReadCard closes the device.
GiveUp ==
  /\ pc = "returned"
  /\ ~Accepts(req, ret)
  /\ req' = NoReq /\ file' = <<>>
  /\ pc' = "closed"
  /\ NoLocals
  /\ UNCHANGED <<step, drained, sessions, requests, board>>

\* The read is over.
CloseNFCDev ==
  /\ pc = "ready"
  /\ req' = NoReq /\ file' = <<>>
  /\ pc' = "closed"
  /\ NoLocals
  /\ UNCHANGED <<step, drained, sessions, requests, board>>

-----------------------------------------------------------------------------
\* The board (external): the next piece of its answer reaches the line.
BoardSends ==
  /\ pending # <<>>
  /\ wire' = Append(wire, Head(pending))
  /\ pending' = Tail(pending)
  /\ UNCHANGED <<pc, caller, cmd, sel, sent>>

Reader == \/ InitWrite \/ InitRead \/ CmdWrite \/ CmdRead \/ CmdReadNothing
          \/ CmdReadFails \/ Crash \/ CommandDone \/ GiveUp \/ CloseNFCDev

SamePort == UNCHANGED Port

Next == (OpenNFCDev \/ Request \/ Reader \/ Tick \/ BoardSends) /\ SamePort

Spec == Init /\ [][Next]_vars

\* The reader's thread runs and time passes; the board owes nobody an answer.
FairSpec == Spec /\ WF_vars(Reader /\ SamePort) /\ WF_vars(Tick /\ SamePort)

-----------------------------------------------------------------------------
(* Properties                                                              *)

Pieces   == [id : Nat, part : {"ack", "head", "rest"}, n : -1..(CHUNK + 2),
             name : Names, at : Nat]
Requests == [op : Ops, name : Names, len : Nat, left : Nat, at : Nat]

\* Every variable has its type: no answer exceeds what the buffer is made
\* for, and a file is never read past its end.
TypeOK ==
  /\ pc \in {"closed", "init", "initread", "ready", "write", "read", "returned",
            "overrun"}
  /\ step \in 0..(INITSTEPS + 1)
  /\ req \in Requests
  /\ file \in Seq([at : Nat, n : 1..CHUNK, name : Names])
  /\ buff \in Seq(Pieces) /\ wire \in Seq(Pieces) /\ pending \in Seq(Pieces)
  /\ off \in Int /\ secs \in 0..RECV_TIMEOUT
  /\ ret \in -1..(CHUNK + 2)
  /\ why \in {"none", "answer", "checksum", "timeout", "full"}
  /\ ans \in Pieces
  /\ sel \in Names /\ drained \in BOOLEAN
  /\ sent \in Nat
  /\ sessions \in 0..MaxSessions[Port] /\ requests \in 0..MaxRequests[Port]

\* Nothing that an earlier session left behind can reach this one: a serial
\* port is flushed when it is opened; a cable is not, so there it must be the
\* first session or one whose InitNFC has found and read all that there was.
Undisturbed == Port = "serial" \/ sessions <= 1 \/ drained

\* In an undisturbed session an answer that a caller accepts is the answer to
\* the command it has just sent: one that comes after its command has timed
\* out is never taken for that of a later command.
AnswerOwn ==
  pc = "returned" /\ Undisturbed /\ Accepts(req, ret) => ans.id = sent

\* In an undisturbed session NFC_CMD_SELRDFILE implements FileReadSpec: what
\* it returns is whole, its chunks follow each other without gap or overlap
\* and are all from one file, whatever is late, lost or refused on the way.
OneSource == IF \A i \in 1..Len(file) : file[i].name = file[1].name
               THEN file[1].name ELSE "mixed"
Together  == IF \A i \in 1..Len(file) : file[i].at = (i - 1) * CHUNK
               THEN file[Len(file)].at + file[Len(file)].n ELSE -1
FileRead == INSTANCE FileReadSpec WITH
  Lens  <- FileLens,
  Files <- FilesOfCard,
  phase <- IF req.op \notin {"select", "read"} THEN "idle"
           ELSE IF pc = "ready" THEN "whole" ELSE "reading",
  want  <- req.len,
  have  <- IF file = <<>> THEN 0 ELSE Together,
  src   <- IF file = <<>> THEN "none" ELSE OneSource

ImplementsFileRead ==
  FileRead!Init /\ [][Undisturbed => FileRead!Next]_(FileRead!vars)

\* Every read of CmdRequest is offered sizeof(buff) bytes wherever it starts
\* in buff.  In an undisturbed session it never gets more than there is room
\* for, because hardly anything but the command's own answer can arrive.
BufferHolds == Undisturbed => off <= BUFFSIZE

\* Every read of CmdRequest starts inside buff, even if the reads before it
\* failed and their -1 was added to off.
StartsInside == pc = "read" => off \in 0..(BUFFSIZE - 1)

\* What is copied out of buff has a length, if InitNFC left nothing on the
\* line.  If it did leave something, an answer to one of its own commands, no
\* test comes before the copy.
CopyHolds == drained => pc # "overrun"

\* Reads and the copy stay inside the buffers of CmdRequest, under these
\* conditions: the serial port, or the line having been drained, for the end
\* of a read, and the line having been drained for the copy.
InsideBuffer == StartsInside /\ BufferHolds /\ CopyHolds

\* Every request ends, answered or not or with the process, although the board
\* may fall silent in the middle of an answer.
RequestEnds == pc = "write" ~> pc \in {"ready", "closed"}

=============================================================================
