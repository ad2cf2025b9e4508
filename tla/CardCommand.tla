----------------------------- MODULE CardCommand -----------------------------
(***************************************************************************)
(* How a card command of JavaReadCard reaches the card: JavaCmdRequest     *)
(* builds it, JavaSendCmd makes a byte array of it and calls the Java      *)
(* method callBackCommand, which hands it to the phone's NfcB.transceive.  *)
(* All of it runs inside one native call of NFCCardReader, on one thread.  *)
(*                                                                         *)
(* An attempt of the read is the list of its requests in the order in      *)
(* which the server has them made (Script).  What the server and the       *)
(* network do in between is JavaReadCard's; here the session may end       *)
(* between any two requests.                                               *)
(***************************************************************************)
EXTENDS Integers, Sequences

CONSTANTS
  Worlds,      \* a world is what happens in a behaviour: a subset of Oddities
  RETRY_TIME,  \* attempts of one read
  MaxCalls     \* bound: native calls in a behaviour

Oddities ==
  { "pads",    \* the phone appends 00 to whatever the card answers
    "io",      \* transceive throws an IOException
    "throws",  \* transceive or getApplicationData throws something else
    "status",  \* a command is answered with an error status only
    "early",   \* a file ends early: its last bytes come with a warning status
    "extra" }  \* an answer has a byte that nobody asked for before its status

ASSUME WorldsAssumption == Worlds \subseteq SUBSET Oddities
ASSUME RetryAssumption  == RETRY_TIME \in Nat \ {0}
ASSUME CallsAssumption  == MaxCalls \in Nat

CHUNK      == 112  \* 0x70
LOCAL_REFS == 512  \* local references that one native call may hold

FilesOfCard == {"f6002", "f6011", "f6012", "f6013", "f6021"}

\* op is what is asked for: the application data, one command, or a file by
\* NFC_CMD_SELRDFILE; len is the length of the answer without its status.
Ask(op, name, len) == [op |-> op, name |-> name, len |-> len]
Script ==
  << Ask("first", "none", 12), Ask("select", "f6002", 0), Ask("cmd", "f6002", 32),
     Ask("cmd", "none", 8), Ask("cmd", "none", 8), Ask("outcert", "none", 0),
     Ask("file", "f6011", 214), Ask("file", "f6012", 256),
     Ask("file", "f6013", 1024), Ask("file", "f6021", 1024),
     Ask("cmd", "none", 8), Ask("cmd", "none", 8) >>

VARIABLES
  world,       \* what may happen in this behaviour
  pc,          \* "java", "ask", "chunk", "returned"
  i, retry,    \* the request in Script; attempts left
  left, at,    \* NFC_CMD_SELRDFILE: len and off
  data, src,   \* of recvbuff: how many bytes are the file's; from which files
  ret,         \* what the request returned
  refs,        \* local references held by the native call
  thrown,      \* the request that left an exception pending, or 0
  offence,     \* a JNI function was called while that was pending: the request
  sel,         \* the file that the card has selected
  calls        \* counter: native calls

filevars == <<left, at, data, src>>
vars == <<world, pc, i, retry, filevars, ret, refs, thrown, offence, sel, calls>>

Request == Script[i]

-----------------------------------------------------------------------------
(* One command: JavaCmdRequest, JavaSendCmd, callBackCommand and the card  *)

\* An answer of the card (external): so many data bytes and a status.
Answer(n, sw) == [data |-> n, sw |-> sw]
Answers(op, len) ==
  LET error == {Answer(0, "error")}
  IN  IF op = "chunk" /\ sel = "none" THEN error   \* there is no file to read
      ELSE {Answer(len, "9000")}
             \cup (IF "status" \in world THEN error ELSE {})
             \cup (IF "early" \in world /\ op = "chunk"
                     THEN {Answer(len - 1, "warning"), Answer(len - 2, "warning")}
                     ELSE {})
             \cup (IF "extra" \in world THEN {Answer(len + 1, "9000")} ELSE {})

\* The length JavaCmdRequest returns.  Of an answer that ends in 90 00 00 it
\* takes the last byte away; on any other one the 00 of the phone stays.
Stripped(a, pad) == IF a.sw = "9000" THEN a.data + 2 ELSE a.data + 2 + pad

\* What JavaCmdRequest may return, with the answer behind it.  An IOException
\* becomes an empty array in callBackCommand; anything else that transceive
\* throws stays pending and the array is NULL.  Either makes the length -1.
Outcome(n, a, throws) == [n |-> n, data |-> a.data, sw |-> a.sw, throws |-> throws]
NoAnswer == Answer(0, "none")
Outcomes(op, len) ==
  { Outcome(Stripped(a, IF "pads" \in world THEN 1 ELSE 0), a, FALSE)
      : a \in Answers(op, len) }
  \cup (IF "io" \in world THEN {Outcome(-1, NoAnswer, FALSE)} ELSE {})
  \cup (IF "throws" \in world THEN {Outcome(-1, NoAnswer, TRUE)} ELSE {})

\* A JNI function is called, which must not be while an exception is pending.
CallsJni == offence' = IF thrown # 0 THEN thrown ELSE offence

\* JavaSendCmd with outcome o.  NewByteArray and the answer's array: two
\* references that nobody deletes.
SendCmd(o) ==
  /\ CallsJni
  /\ refs' = refs + 2
  /\ thrown' = IF o.throws THEN i ELSE thrown

\* The selected file after a selection with outcome o.
Selected(o) == IF o.sw = "9000" THEN Request.name ELSE sel

-----------------------------------------------------------------------------
Init ==
  /\ world \in Worlds
  /\ pc = "java" /\ i = 1 /\ retry = RETRY_TIME
  /\ left = 0 /\ at = 0 /\ data = 0 /\ src = {}
  /\ ret = 0 /\ refs = 0 /\ thrown = 0 /\ offence = 0
  /\ sel = "none" /\ calls = 0

\* The Java method calls the native one, which notes the environment, the
\* object and its class (JavaInitApi).  A card has just been put down.
NativeCall ==
  /\ pc = "java"
  /\ calls < MaxCalls
  /\ calls' = calls + 1
  /\ pc' = "ask" /\ i' = 1 /\ retry' = RETRY_TIME
  /\ refs' = 1 /\ thrown' = 0 /\ offence' = 0
  /\ left' = 0 /\ at' = 0 /\ data' = 0 /\ src' = {} /\ ret' = 0
  /\ sel' = "none"
  /\ UNCHANGED world

\* JavaGetApplicationData.
GetApplicationData ==
  /\ pc = "ask" /\ Request.op = "first"
  /\ CallsJni
  /\ refs' = refs + 1
  /\ pc' = "returned"
  /\ \/ ret' = Request.len /\ thrown' = thrown
     \/ "throws" \in world /\ ret' = -1 /\ thrown' = i
  /\ UNCHANGED <<world, i, retry, filevars, sel, calls>>

\* A request that is one command.  The authentication succeeds if the answer
\* begins with 90 00.
OneCommand ==
  /\ pc = "ask" /\ Request.op \in {"select", "cmd", "outcert"}
  /\ \E o \in Outcomes(Request.op, Request.len) :
       /\ SendCmd(o)
       /\ ret' = IF Request.op = "outcert" /\ (o.data # 0 \/ o.sw # "9000")
                   THEN -1 ELSE o.n
       /\ sel' = IF Request.op = "select" THEN Selected(o) ELSE sel
  /\ pc' = "returned"
  /\ UNCHANGED <<world, i, retry, filevars, calls>>

\* NFC_CMD_SELRDFILE: only a selection that got no answer at all ends it.
SelectFile ==
  /\ pc = "ask" /\ Request.op = "file"
  /\ left' = Request.len /\ at' = 0 /\ data' = 0 /\ src' = {}
  /\ \E o \in Outcomes("select", 0) :
       /\ SendCmd(o)
       /\ sel' = Selected(o)
       /\ ret' = o.n
       /\ pc' = IF o.n < 0 THEN "returned" ELSE "chunk"
  /\ UNCHANGED <<world, i, retry, calls>>

RdLen(n) == IF n > CHUNK THEN CHUNK ELSE n

\* Mutation: any answer longer than its status is taken for a whole chunk.
ChunkOk_AnyLength(n, rdlen) == n > 2

ChunkOk(n, rdlen) == n = rdlen + 2

\* The loop of NFC_CMD_SELRDFILE; the status of a chunk is not looked at.
ReadChunk ==
  /\ pc = "chunk"
  /\ \E o \in Outcomes("chunk", RdLen(left)) :
       /\ SendCmd(o)
       /\ \/ /\ ChunkOk(o.n, RdLen(left))
             /\ left' = left - (o.n - 2) /\ at' = at + (o.n - 2)
             /\ data' = data + o.data
             /\ src' = src \cup {sel}
             /\ ret' = at'
             /\ pc' = IF left' = 0 THEN "returned" ELSE "chunk"
          \/ /\ ~ChunkOk(o.n, RdLen(left))
             /\ ret' = -1 /\ pc' = "returned"
             /\ UNCHANGED filevars
  /\ UNCHANGED <<world, i, retry, sel, calls>>

-----------------------------------------------------------------------------
(* The caller                                                              *)

\* The tests of the results: nothing at all is an error; for the last file
\* the code tests < 0 and for the others <= 0.
Fails == IF Request.name = "f6021" THEN ret < 0 ELSE ret <= 0

\* The native method returns: its references go with its frame, and an
\* exception that is pending is thrown in Java.
Return == pc' = "java" /\ refs' = 0 /\ UNCHANGED <<i, retry>>

NextRequest ==
  /\ pc = "returned" /\ ~Fails
  /\ IF i = Len(Script)
       THEN Return
       ELSE i' = i + 1 /\ pc' = "ask" /\ UNCHANGED <<refs, retry>>
  /\ UNCHANGED <<world, filevars, ret, thrown, offence, sel, calls>>

\* Mutation: after the last attempt the loop goes on to wait for a command.
Retry_NoReturn ==
  /\ retry > 1
  /\ retry' = retry - 1
  /\ i' = 1 /\ pc' = "ask" /\ UNCHANGED refs

\* A rejected authentication, or one that got no answer, starts all over.
Retry ==
  /\ retry' = retry - 1
  /\ IF retry' > 0
       THEN i' = 1 /\ pc' = "ask" /\ UNCHANGED refs
       ELSE pc' = "java" /\ refs' = 0 /\ UNCHANGED i

\* Mutation: every failed request starts the attempt again.
RequestFails_AllRetry ==
  /\ pc = "returned" /\ Fails
  /\ Retry
  /\ UNCHANGED <<world, filevars, ret, thrown, offence, sel, calls>>

RequestFails ==
  /\ pc = "returned" /\ Fails
  /\ IF Request.op = "outcert" THEN Retry ELSE Return
  /\ UNCHANGED <<world, filevars, ret, thrown, offence, sel, calls>>

\* The session ends for a reason of its own.
SessionEnds ==
  /\ pc = "returned" /\ ~Fails
  /\ Return
  /\ UNCHANGED <<world, filevars, ret, thrown, offence, sel, calls>>

Reader == GetApplicationData \/ OneCommand \/ SelectFile \/ ReadChunk
            \/ NextRequest \/ RequestFails

Next == NativeCall \/ Reader \/ SessionEnds

Spec == Init /\ [][Next]_vars

\* The thread runs, and transceive returns or throws.
FairSpec == Spec /\ WF_vars(Reader)

-----------------------------------------------------------------------------
(* Properties                                                              *)

\* Every variable has its type; one native call, with all its attempts, holds
\* no more local references than the virtual machine gives it, although no
\* command deletes its two.
TypeOK ==
  /\ world \in Worlds
  /\ pc \in {"java", "ask", "chunk", "returned"}
  /\ i \in 1..Len(Script) /\ retry \in 0..RETRY_TIME
  /\ left \in 0..1024 /\ at \in 0..1024 /\ data \in 0..1024
  /\ src \subseteq FilesOfCard
  /\ ret \in Int
  /\ refs \in 0..LOCAL_REFS
  /\ thrown \in 0..Len(Script) /\ offence \in 0..Len(Script)
  /\ sel \in FilesOfCard \cup {"none"}
  /\ calls \in 0..MaxCalls

\* What a phone that appends a 00 makes of a file that ends one byte early:
\* a chunk of the right length, with a warning for its last byte.
Misleads == {"pads", "early"} \subseteq world

\* NFC_CMD_SELRDFILE implements FileReadSpec, although it never looks at a
\* status: a status in the place of data, a short chunk, one that is too long
\* and an exception all end the read, and the 00 of the phone does not.  It does
\* not implement it where the two come together (Misleads): there it delivers
\* files that lack bytes, as NearlyWhole tells.
Handled   == pc \in {"chunk", "returned"} /\ Request.op = "file" /\ ret >= 0
filePhase == IF ~Handled THEN "idle" ELSE IF pc = "chunk" THEN "reading" ELSE "whole"
fileWant  == IF Handled THEN at + left ELSE 0
fileHave  == IF ~Handled THEN 0 ELSE data
fileSrc   == IF ~Handled \/ src = {} THEN "none"
             ELSE IF src \in {{f} : f \in FilesOfCard}
                    THEN CHOOSE f \in FilesOfCard : src = {f} ELSE "mixed"
FileRead  == INSTANCE FileReadSpec WITH
  Lens <- {Script[k].len : k \in {k \in 1..12 : Script[k].op = "file"}},
  Files <- FilesOfCard,
  phase <- filePhase, want <- fileWant, have <- fileHave, src <- fileSrc

ImplementsFileRead ==
  FileRead!Init /\ [][~Misleads => FileRead!Next]_(FileRead!vars)

\* A file that is delivered has the length asked for, with a status or the
\* phone's byte where the card stopped early: it lacks at most a byte of each
\* chunk, and lacks none unless the phone appends and the card stops early.
NearlyWhole ==
  pc = "returned" /\ Request.op = "file" /\ ret >= 0 =>
    /\ at = Request.len /\ left = 0 /\ ret = at
    /\ ~Misleads => data = at
    /\ (at - data) * CHUNK < at + CHUNK

\* The 00 that a phone appends does no harm: if nothing else is odd, no
\* request of the read fails.
PadsHarmless == world \subseteq {"pads"} => ret # -1

\* An exception that callBackCommand does not catch is not followed by another
\* call into Java, which must not be made while it is pending: each test of a
\* result leaves NFCCardReader, except that after the external authentication,
\* where a failure of any kind starts the attempt again.
NoCallWhilePending == offence # 0 => Script[offence].op = "outcert"

\* Every native call ends: the retries are counted and each chunk shortens
\* what is left.
CallReturns == pc # "java" ~> pc = "java"
=============================================================================
