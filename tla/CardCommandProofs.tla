-------------------------- MODULE CardCommandProofs --------------------------
(***************************************************************************)
(* Proofs about CardCommand, for every set of worlds and every number of   *)
(* attempts and calls: what NFC_CMD_SELRDFILE delivers, that it implements *)
(* FileReadSpec, after which request Java may be called while an exception *)
(* is pending, and how many local references a native call holds.          *)
(***************************************************************************)
EXTENDS CardCommand, TLAPS

(* The constant parts                                                      *)

Kinds == {"first", "select", "cmd", "outcert", "file"}

\* The requests of Script.
LEMMA ScriptTypes ==
  /\ Len(Script) = 12
  /\ \A k \in 1..12 :
       /\ Script[k].op \in Kinds
       /\ Script[k].len \in Nat
       /\ Script[k].op = "select" => Script[k].name \in FilesOfCard
       /\ Script[k].op = "file" => /\ Script[k].name \in FilesOfCard
                                   /\ Script[k].len \in {214, 256, 1024}
BY DEF Script, Ask, Kinds, FilesOfCard

\* What may be left of a file.  None of these leaves a last chunk of a single
\* byte, which an error status with the 00 of the phone could pass for.
Lefts == {16, 32, 102, 128, 144, 214, 240, 256, 352, 464, 576, 688, 800, 912, 1024}

LEMMA ChunkFacts ==
  ASSUME NEW n \in Lefts
  PROVE  /\ RdLen(n) \in 2..CHUNK
         /\ RdLen(n) <= n
         /\ n - RdLen(n) \in Lefts \cup {0}
         /\ RdLen(n) = CHUNK \/ RdLen(n) = n
<1>1. CASE n > 112  BY <1>1 DEF Lefts, RdLen, CHUNK
<1>2. CASE n <= 112  BY <1>2 DEF Lefts, RdLen, CHUNK
<1> QED  BY <1>1, <1>2 DEF Lefts

\* What an outcome may be: the length is -1 or covers the status.
LEMMA OutcomeTypes ==
  ASSUME NEW op, NEW len \in Nat, op # "chunk" \/ len > 1,
         NEW o \in Outcomes(op, len)
  PROVE  /\ o.n \in Int
         /\ o.data \in Nat
         /\ o.throws \in BOOLEAN
         /\ o.n = -1 \/ o.n >= 2
         /\ o.throws => o.n = -1
         /\ world \subseteq {"pads"} => o.n >= 2 /\ ~o.throws
<1>1. CASE \E a \in Answers(op, len) :
             o = Outcome(Stripped(a, IF "pads" \in world THEN 1 ELSE 0), a, FALSE)
  <2>1. PICK a \in Answers(op, len) :
             o = Outcome(Stripped(a, IF "pads" \in world THEN 1 ELSE 0), a, FALSE)
    BY <1>1
  <2>2. a.data \in Nat
    BY DEF Answers, Answer
  <2>3. Stripped(a, 0) \in Nat /\ Stripped(a, 0) >= 2
        /\ Stripped(a, 1) \in Nat /\ Stripped(a, 1) >= 2
    BY <2>2 DEF Stripped
  <2> QED  BY <2>1, <2>2, <2>3 DEF Outcome
<1>2. CASE "io" \in world /\ o = Outcome(-1, NoAnswer, FALSE)
  BY <1>2 DEF Outcome, NoAnswer, Answer
<1>3. CASE "throws" \in world /\ o = Outcome(-1, NoAnswer, TRUE)
  BY <1>3 DEF Outcome, NoAnswer, Answer
<1> QED  BY <1>1, <1>2, <1>3 DEF Outcomes

\* An answer that passes for a chunk is one, up to its last byte.
LEMMA AcceptedChunk ==
  ASSUME NEW len \in Nat, len > 1, NEW o \in Outcomes("chunk", len),
         ChunkOk(o.n, len)
  PROVE  /\ o.n = len + 2
         /\ sel # "none"
         /\ o.data = len \/ (Misleads /\ o.data = len - 1)
<1>1. o.n = len + 2  BY DEF ChunkOk
<1>2. PICK a \in Answers("chunk", len) :
        o = Outcome(Stripped(a, IF "pads" \in world THEN 1 ELSE 0), a, FALSE)
  BY <1>1 DEF Outcomes, Outcome
<1>3. /\ o.data = a.data
      /\ o.n = Stripped(a, IF "pads" \in world THEN 1 ELSE 0)
  BY <1>2 DEF Outcome
<1>4. CASE a = Answer(len, "9000") /\ sel # "none"
  BY <1>1, <1>3, <1>4 DEF Answer
<1>5. CASE a = Answer(0, "error")
  BY <1>1, <1>3, <1>5 DEF Answer, Stripped
<1>6. CASE "early" \in world /\ sel # "none" /\ a = Answer(len - 1, "warning")
  BY <1>1, <1>3, <1>6 DEF Answer, Stripped, Misleads
<1>7. CASE a = Answer(len - 2, "warning")
  BY <1>1, <1>3, <1>7 DEF Answer, Stripped
<1>8. CASE a = Answer(len + 1, "9000")
  BY <1>1, <1>3, <1>8 DEF Answer, Stripped
<1> QED  BY <1>1, <1>4, <1>5, <1>6, <1>7, <1>8 DEF Answers

-----------------------------------------------------------------------------
(* Files                                                                   *)

Places == {"java", "ask", "chunk", "returned"}

\* The types that the other facts need.
Typed ==
  /\ pc \in Places
  /\ i \in 1..12
  /\ left \in Nat /\ at \in Nat /\ data \in Nat /\ ret \in Int
  /\ sel \in FilesOfCard \cup {"none"}
  /\ src = {} \/ src \in {{f} : f \in FilesOfCard}

\* While a file is read: what has come and what is left make up the file, what
\* has come is from the file selected, and is all there but for the last bytes
\* of its chunks.
ReadingFile ==
  /\ Request.op = "file"
  /\ at + left = Request.len
  /\ ret >= 0
  /\ src = IF at = 0 THEN {} ELSE {sel}
  /\ data <= at
  /\ ~Misleads => data = at

FileInv ==
  /\ Typed
  /\ pc = "chunk" =>
       ReadingFile /\ left \in Lefts /\ (at - data) * CHUNK <= at
  /\ pc = "returned" /\ Request.op = "file" /\ ret >= 0 =>
       /\ ReadingFile /\ left = 0 /\ ret = at /\ at > 0
       /\ (at - data) * CHUNK < at + CHUNK

LEMMA FileInvInit == Init => FileInv
BY ScriptTypes DEF Init, FileInv, Typed, Places, FilesOfCard

LEMMA FileInvNext == FileInv /\ [Next]_vars => FileInv'
<1> SUFFICES ASSUME FileInv, [Next]_vars  PROVE FileInv'
  OBVIOUS
<1> USE DEF FileInv, Places
<1>0. Request = Script[i] /\ Request' = Script[i']
  BY DEF Request
<1>1. CASE NativeCall
  BY <1>1 DEF NativeCall, Typed
<1>2. CASE GetApplicationData
  BY <1>2, ScriptTypes DEF GetApplicationData, Typed, Request, filevars
<1>3. CASE OneCommand
  <2>1. PICK o \in Outcomes(Request.op, Request.len) :
          /\ ret' = IF Request.op = "outcert" /\ (o.data # 0 \/ o.sw # "9000")
                      THEN -1 ELSE o.n
          /\ sel' = IF Request.op = "select" THEN Selected(o) ELSE sel
    BY <1>3 DEF OneCommand
  <2>2. o.n \in Int
    BY <1>3, ScriptTypes, OutcomeTypes DEF OneCommand, Request, Typed
  <2>3. sel' \in FilesOfCard \cup {"none"}
    BY <1>3, <2>1, ScriptTypes DEF OneCommand, Selected, Request, Typed
  <2> QED  BY <1>3, <2>1, <2>2, <2>3 DEF OneCommand, Typed, filevars, Request
<1>4. CASE SelectFile
  <2>1. PICK o \in Outcomes("select", 0) :
          /\ sel' = Selected(o) /\ ret' = o.n
          /\ pc' = IF o.n < 0 THEN "returned" ELSE "chunk"
    BY <1>4 DEF SelectFile
  <2>2. o.n \in Int
    BY OutcomeTypes
  <2>3. sel' \in FilesOfCard \cup {"none"}
    BY <1>4, <2>1, ScriptTypes DEF SelectFile, Selected, Request, Typed
  <2>4. Request.len \in Lefts /\ i' = i
    BY <1>4, ScriptTypes DEF SelectFile, Request, Typed, Lefts
  <2>5. left' = Request.len /\ at' = 0 /\ data' = 0 /\ src' = {}
    BY <1>4 DEF SelectFile
  <2>6. Request' = Request /\ Request.op = "file"
    BY <1>4, <2>4 DEF SelectFile, Request
  <2>7. left' \in Nat
    BY <2>4, <2>5 DEF Lefts
  <2>8. Typed'
    BY <2>1, <2>2, <2>3, <2>4, <2>5, <2>7 DEF Typed
  <2>9. pc' = "chunk" => ReadingFile' /\ (at' - data') * CHUNK <= at'
    BY <2>1, <2>2, <2>5, <2>6, <2>7 DEF ReadingFile, CHUNK
  <2> QED  BY <2>1, <2>2, <2>4, <2>5, <2>8, <2>9
<1>5. CASE ReadChunk
  <2>1. PICK o \in Outcomes("chunk", RdLen(left)) :
          \/ /\ ChunkOk(o.n, RdLen(left))
             /\ left' = left - (o.n - 2) /\ at' = at + (o.n - 2)
             /\ data' = data + o.data
             /\ src' = src \cup {sel}
             /\ ret' = at'
             /\ pc' = IF left' = 0 THEN "returned" ELSE "chunk"
          \/ /\ ~ChunkOk(o.n, RdLen(left))
             /\ ret' = -1 /\ pc' = "returned"
             /\ UNCHANGED filevars
    BY <1>5 DEF ReadChunk
  <2>2. /\ pc = "chunk" /\ UNCHANGED <<world, i, sel>>
        /\ ReadingFile /\ left \in Lefts /\ (at - data) * CHUNK <= at
    BY <1>5 DEF ReadChunk
  <2>3. Request' = Request /\ Misleads' = Misleads
    BY <2>2 DEF Request, Misleads
  <2>4. CASE ~ChunkOk(o.n, RdLen(left))
    BY <2>1, <2>2, <2>4 DEF Typed, filevars
  <2>5. CASE ChunkOk(o.n, RdLen(left))
    <3> DEFINE d == RdLen(left)
    <3>1. d \in 2..CHUNK /\ d <= left /\ left - d \in Lefts \cup {0}
          /\ (d = CHUNK \/ d = left)
      BY <2>2, ChunkFacts
    <3>2. /\ o.n = d + 2 /\ sel # "none"
          /\ o.data = d \/ (Misleads /\ o.data = d - 1)
      BY <2>5, <3>1, AcceptedChunk DEF CHUNK
    <3>3. /\ left' = left - d /\ at' = at + d /\ data' = data + o.data
          /\ src' = src \cup {sel} /\ ret' = at + d
          /\ pc' = IF left - d = 0 THEN "returned" ELSE "chunk"
      BY <2>1, <2>5, <3>1, <3>2 DEF CHUNK
    <3>4. /\ left \in Nat /\ at \in Nat /\ data \in Nat /\ d \in Nat /\ d > 1
          /\ o.data \in Nat
      BY <2>2, <3>1, <3>2 DEF Typed, CHUNK
    <3>5. src' = {sel} /\ sel \in FilesOfCard
      BY <2>2, <3>2, <3>3 DEF ReadingFile, Typed
    <3>6. ReadingFile'
      <4> HIDE DEF d
      <4>0. at + left = Request.len
        BY <2>2 DEF ReadingFile
      <4>1. at' > 0 /\ at' + left' = Request.len /\ ret' >= 0
        BY <3>3, <3>4, <4>0
      <4>2. data' <= at' /\ (~Misleads => data' = at')
        BY <2>2, <3>2, <3>3, <3>4 DEF ReadingFile
      <4> QED  BY <2>2, <2>3, <3>5, <4>1, <4>2 DEF ReadingFile
    <3>7. Typed'
      BY <2>2, <3>1, <3>3, <3>4, <3>5 DEF Typed, CHUNK
    <3>8. CASE left - d = 0
      <4>1. (at' - data') * CHUNK < at' + CHUNK
        BY <2>2, <3>2, <3>3, <3>4 DEF CHUNK
      <4> QED  BY <3>3, <3>4, <3>6, <3>7, <3>8, <4>1
    <3>9. CASE left - d # 0
      <4>1. d = CHUNK
        BY <3>1, <3>4, <3>9
      <4>2. (at' - data') * CHUNK <= at'
        BY <2>2, <3>2, <3>3, <3>4, <4>1 DEF CHUNK
      <4> QED  BY <3>1, <3>3, <3>4, <3>6, <3>7, <3>9, <4>2
    <3> QED  BY <3>8, <3>9
  <2> QED  BY <2>4, <2>5
<1>6. CASE NextRequest
  BY <1>6, ScriptTypes DEF NextRequest, Return, Typed, filevars
<1>7. CASE RequestFails \/ SessionEnds
  <2>1. /\ pc' \in {"java", "ask"} /\ i' \in 1..12
        /\ UNCHANGED <<filevars, ret, sel>>
    BY <1>7 DEF RequestFails, SessionEnds, Retry, Return, Typed
  <2> QED  BY <2>1 DEF Typed, filevars
<1>8. CASE UNCHANGED vars
  <2>1. UNCHANGED <<pc, i, left, at, data, src, ret, sel, world>>
    BY <1>8 DEF vars, filevars
  <2> QED  BY <2>1 DEF Typed, ReadingFile, Request, Misleads
<1> QED  BY <1>1, <1>2, <1>3, <1>4, <1>5, <1>6, <1>7, <1>8 DEF Next, Reader

LEMMA FileInvAlways == Spec => []FileInv
<1> QED  BY FileInvInit, FileInvNext, PTL DEF Spec

\* A file that NFC_CMD_SELRDFILE delivers has the length asked for and, unless
\* the phone appends a byte and the card stops early, consists of that file
\* only; it never lacks more than a byte of each chunk.
THEOREM NearlyWholeAlways == Spec => []NearlyWhole
<1>1. FileInv => NearlyWhole
  BY DEF FileInv, ReadingFile, NearlyWhole, Typed
<1> QED  BY <1>1, FileInvAlways, PTL

-----------------------------------------------------------------------------
(* Implementation of FileReadSpec                                          *)

\* What FileReadSpec's variables are when the invariant holds and no byte that
\* the phone appends passes for one of a file.
MapFact ==
  /\ fileWant = IF Handled THEN Request.len ELSE 0
  /\ fileHave = IF Handled THEN at ELSE 0
  /\ fileSrc = IF ~Handled \/ at = 0 THEN "none" ELSE sel

LEMMA Mapped == FileInv /\ ~Misleads => MapFact
<1> SUFFICES ASSUME FileInv, ~Misleads  PROVE MapFact
  OBVIOUS
<1> USE DEF MapFact
<1>1. CASE Handled
  <2>1. ReadingFile
    BY <1>1 DEF FileInv, Handled
  <2>2. CASE at = 0
    BY <1>1, <2>1, <2>2 DEF ReadingFile, fileWant, fileHave, fileSrc
  <2>3. CASE at # 0
    <3>1. src = {sel} /\ sel \in FilesOfCard
      BY <2>1, <2>3 DEF ReadingFile, FileInv, Typed
    <3>2. fileSrc = sel
      BY <1>1, <3>1 DEF fileSrc
    <3> QED  BY <1>1, <2>1, <2>3, <3>2 DEF ReadingFile, fileWant, fileHave
  <2> QED  BY <2>2, <2>3
<1>2. CASE ~Handled
  BY <1>2 DEF fileWant, fileHave, fileSrc
<1> QED  BY <1>1, <1>2

LEMMA MappedNext == FileInv' /\ ~Misleads' => MapFact'
BY Mapped, PTL

\* A step that has to do with no file leaves FileReadSpec's variables alone.
LEMMA StaysIdle ==
  ASSUME ~Handled, ~Handled'
  PROVE  UNCHANGED <<filePhase, fileWant, fileHave, fileSrc>>
BY DEF filePhase, fileWant, fileHave, fileSrc

\* A step after which the file is forgotten.
LEMMA Forgets ==
  ASSUME Handled, ~Handled'
  PROVE  /\ filePhase \in {"reading", "whole"}
         /\ filePhase' = "idle" /\ fileWant' = 0 /\ fileHave' = 0 /\ fileSrc' = "none"
BY DEF filePhase, fileWant, fileHave, fileSrc

LEMMA FileReadStep ==
  FileInv /\ FileInv' /\ [Next]_vars => [~Misleads => FileRead!Next]_(FileRead!vars)
<1> SUFFICES ASSUME FileInv, FileInv', [Next]_vars, ~Misleads
             PROVE  FileRead!Next \/ UNCHANGED <<filePhase, fileWant, fileHave, fileSrc>>
  BY DEF FileRead!vars
<1>c. ~Misleads'
  BY DEF Next, Reader, NativeCall, GetApplicationData, OneCommand, SelectFile, ReadChunk,
         NextRequest, RequestFails, SessionEnds, vars, Misleads
<1>a. (Handled /\ ~Handled') => FileRead!Forget \/ FileRead!Fail
  BY Forgets DEF FileRead!Forget, FileRead!Fail, FileRead!Nothing
<1>b. i \in 1..12 /\ i' \in 1..12
  BY DEF FileInv, Typed
<1>1. CASE NativeCall \/ GetApplicationData \/ OneCommand
  <2>1. ~Handled /\ ~Handled'
    BY <1>1 DEF NativeCall, GetApplicationData, OneCommand, Handled, Request
  <2> QED  BY <2>1, StaysIdle
<1>2. CASE SelectFile
  <2>1. ~Handled /\ Request' = Request /\ at' = 0 /\ Request.op = "file"
    BY <1>2 DEF SelectFile, Handled, Request
  <2>2. CASE ~Handled'
    BY <2>1, <2>2, StaysIdle
  <2>3. CASE Handled'
    <3>1. pc' = "chunk"
      <4>1. PICK o \in Outcomes("select", 0) :
              ret' = o.n /\ pc' = IF o.n < 0 THEN "returned" ELSE "chunk"
        BY <1>2 DEF SelectFile
      <4>2. o.n \in Int
        BY OutcomeTypes
      <4> QED  BY <2>3, <4>1, <4>2 DEF Handled
    <3>2. filePhase = "idle" /\ filePhase' = "reading"
      BY <2>1, <2>3, <3>1 DEF filePhase
    <3>3. fileWant' = Request.len /\ fileHave' = 0 /\ fileSrc' = "none"
      <4>1. Request'.len = Request.len
        BY <2>1
      <4>2. MapFact' /\ at' = 0
        BY <1>c, <2>1, MappedNext
      <4> QED  BY <2>3, <4>1, <4>2 DEF MapFact
    <3>4. Request.len \in {Script[k].len : k \in {k \in 1..12 : Script[k].op = "file"}}
      BY <1>b, <2>1 DEF Request
    <3> QED  BY <3>2, <3>3, <3>4 DEF FileRead!Begin, FileRead!Next
  <2> QED  BY <2>2, <2>3
<1>3. CASE ReadChunk
  <2>1. /\ pc = "chunk" /\ ReadingFile /\ left \in Lefts
        /\ Request' = Request /\ sel' = sel
    BY <1>3 DEF ReadChunk, FileInv, Request
  <2>2. Handled
    BY <2>1 DEF Handled, ReadingFile
  <2>3. CASE ~Handled'
    BY <1>a, <2>2, <2>3 DEF FileRead!Next
  <2>4. CASE Handled'
    <3>1. PICK o \in Outcomes("chunk", RdLen(left)) :
            \/ /\ ChunkOk(o.n, RdLen(left))
               /\ left' = left - (o.n - 2) /\ at' = at + (o.n - 2)
               /\ pc' = IF left' = 0 THEN "returned" ELSE "chunk"
            \/ ret' = -1
      BY <1>3 DEF ReadChunk
    <3>2. ret' # -1
      BY <2>4 DEF Handled
    <3>3. o.n - 2 = RdLen(left) /\ RdLen(left) \in 2..CHUNK /\ RdLen(left) <= left
      BY <2>1, <3>1, <3>2, ChunkFacts DEF ChunkOk, CHUNK
    <3>4. /\ fileWant = Request.len /\ fileHave = at
          /\ fileSrc = IF at = 0 THEN "none" ELSE sel
      BY <2>2, Mapped DEF MapFact
    <3>5. /\ fileWant' = Request.len /\ fileHave' = at'
          /\ fileSrc' = IF at' = 0 THEN "none" ELSE sel
      BY <1>c, <2>1, <2>4, MappedNext DEF MapFact
    <3>6. at \in Nat /\ left \in Nat /\ at + left = Request.len
      BY <2>1 DEF ReadingFile, FileInv, Typed
    <3>7. /\ at' \in (at + 1)..Request.len
          /\ (at' = Request.len) <=> (left' = 0)
      BY <3>1, <3>2, <3>3, <3>6 DEF CHUNK
    <3>8. fileSrc' \in IF fileSrc = "none" THEN FilesOfCard ELSE {fileSrc}
      <4>1. at' # 0
        BY <3>6, <3>7
      <4>2. src' = {sel'} /\ sel \in FilesOfCard
        <5>1. ReadingFile'
          BY <2>4 DEF FileInv, Handled
        <5>2. src' = {sel}
          BY <2>1, <4>1, <5>1 DEF ReadingFile
        <5>3. PICK f \in FilesOfCard : src' = {f}
          BY <5>2 DEF FileInv, Typed
        <5>4. sel \in {f}
          BY <5>2, <5>3
        <5> QED  BY <2>1, <5>2, <5>3, <5>4
      <4>3. sel # "none"
        BY <4>2 DEF FilesOfCard
      <4> QED  BY <3>4, <3>5, <4>1, <4>2, <4>3
    <3>9. /\ filePhase = "reading"
          /\ filePhase' = IF at' = Request.len THEN "whole" ELSE "reading"
      BY <2>1, <2>2, <2>4, <3>1, <3>2, <3>7 DEF filePhase
    <3> QED  BY <3>4, <3>5, <3>7, <3>8, <3>9 DEF FileRead!Fetch, FileRead!Next
  <2> QED  BY <2>3, <2>4
<1>4. CASE NextRequest \/ RequestFails \/ SessionEnds
  <2>1. ~Handled'
    BY <1>4 DEF NextRequest, RequestFails, SessionEnds, Retry, Return, Handled
  <2> QED  BY <1>a, <2>1, StaysIdle DEF FileRead!Next
<1>5. CASE UNCHANGED vars
  BY <1>5 DEF vars, filevars, filePhase, fileWant, fileHave, fileSrc, Handled,
              Request, Misleads
<1> QED  BY <1>1, <1>2, <1>3, <1>4, <1>5 DEF Next, Reader

\* NFC_CMD_SELRDFILE implements FileReadSpec, that is, delivers whole files or
\* errors, unless the phone appends a byte to answers and the card ends a file
\* early; what it delivers then is what NearlyWholeAlways says.
THEOREM FileReadImplemented == Spec => ImplementsFileRead
<1>1. Init => FileRead!Init
  BY DEF Init, FileRead!Init, filePhase, fileWant, fileHave, fileSrc, Handled
<1> QED  BY <1>1, FileReadStep, FileInvAlways, PTL
           DEF Spec, ImplementsFileRead
-----------------------------------------------------------------------------
(* Exceptions and the phone's 00                                           *)

IsOutcert(k) == Script[k].op = "outcert"

\* An exception that is pending came from the external authentication, or the
\* native method is about to return, or has.
PendingInv ==
  /\ thrown \in Int /\ offence \in Int
  /\ offence # 0 => IsOutcert(offence)
  /\ thrown # 0 => \/ IsOutcert(thrown)
                   \/ pc = "java"
                   \/ pc = "returned" /\ thrown = i /\ ret = -1

LEMMA PendingInvNext == FileInv /\ PendingInv /\ [Next]_vars => PendingInv'
<1> SUFFICES ASSUME FileInv, PendingInv, [Next]_vars  PROVE PendingInv'
  OBVIOUS
<1> USE DEF PendingInv
<1>0. i \in 1..12  BY DEF FileInv, Typed
<1>1. CASE NativeCall
  BY <1>1 DEF NativeCall
<1>2. CASE GetApplicationData
  BY <1>0, <1>2 DEF GetApplicationData, CallsJni
<1>3. CASE OneCommand
  <2>1. PICK o \in Outcomes(Request.op, Request.len) :
          /\ SendCmd(o)
          /\ ret' = IF Request.op = "outcert" /\ (o.data # 0 \/ o.sw # "9000")
                      THEN -1 ELSE o.n
    BY <1>3 DEF OneCommand
  <2>2. o.throws => o.n = -1
    BY <1>0, <1>3, ScriptTypes, OutcomeTypes DEF OneCommand, Request
  <2>3. pc = "ask" /\ pc' = "returned" /\ i' = i
    BY <1>3 DEF OneCommand
  <2>4. thrown' = (IF o.throws THEN i ELSE thrown)
        /\ offence' = (IF thrown # 0 THEN thrown ELSE offence)
    BY <2>1 DEF SendCmd, CallsJni
  <2>5. o.throws => ret' = -1
    BY <2>1, <2>2
  <2> QED  BY <1>0, <2>3, <2>4, <2>5
<1>4. CASE SelectFile
  <2>1. PICK o \in Outcomes("select", 0) :
          /\ SendCmd(o) /\ ret' = o.n
          /\ pc' = IF o.n < 0 THEN "returned" ELSE "chunk"
    BY <1>4 DEF SelectFile
  <2>2. o.throws => o.n = -1
    BY OutcomeTypes
  <2>3. pc = "ask" /\ i' = i
    BY <1>4 DEF SelectFile
  <2>4. thrown' = (IF o.throws THEN i ELSE thrown)
        /\ offence' = (IF thrown # 0 THEN thrown ELSE offence)
    BY <2>1 DEF SendCmd, CallsJni
  <2>5. o.throws => ret' = -1 /\ pc' = "returned"
    BY <2>1, <2>2
  <2> QED  BY <1>0, <2>3, <2>4, <2>5
<1>5. CASE ReadChunk
  <2>0. pc = "chunk" /\ left \in Lefts /\ i' = i
    BY <1>5 DEF ReadChunk, FileInv
  <2>1. PICK o \in Outcomes("chunk", RdLen(left)) :
          /\ SendCmd(o)
          /\ ~ChunkOk(o.n, RdLen(left)) => ret' = -1 /\ pc' = "returned"
    BY <1>5 DEF ReadChunk
  <2>2. RdLen(left) \in Nat /\ RdLen(left) > 1
    BY <2>0, ChunkFacts DEF CHUNK
  <2>3. o.throws => o.n = -1
    BY <2>2, OutcomeTypes
  <2>4. thrown' = (IF o.throws THEN i ELSE thrown)
        /\ offence' = (IF thrown # 0 THEN thrown ELSE offence)
    BY <2>1 DEF SendCmd, CallsJni
  <2>5. o.throws => ret' = -1 /\ pc' = "returned"
    BY <2>1, <2>2, <2>3 DEF ChunkOk
  <2> QED  BY <1>0, <2>0, <2>4, <2>5
<1>6. CASE NextRequest \/ SessionEnds
  <2>1. pc = "returned" /\ ret # -1 /\ UNCHANGED <<thrown, offence>>
    BY <1>6 DEF NextRequest, SessionEnds, Fails
  <2> QED  BY <2>1
<1>7. CASE RequestFails
  <2>1. UNCHANGED <<thrown, offence>> /\ (IsOutcert(i) \/ pc' = "java")
    BY <1>7 DEF RequestFails, Return, Request, IsOutcert
  <2> QED  BY <1>7, <2>1 DEF RequestFails
<1>8. CASE UNCHANGED vars
  BY <1>8 DEF vars
<1> QED  BY <1>1, <1>2, <1>3, <1>4, <1>5, <1>6, <1>7, <1>8 DEF Next, Reader

\* No exception that callBackCommand lets pass is followed by another call
\* into Java, save for one of the external authentication.
THEOREM PendingAlways == Spec => []NoCallWhilePending
<1>1. Init => PendingInv
  BY DEF Init, PendingInv
<1>2. PendingInv => NoCallWhilePending
  BY DEF PendingInv, NoCallWhilePending, IsOutcert
<1> QED  BY <1>1, <1>2, PendingInvNext, FileInvAlways, PTL DEF Spec

\* If the phone's 00 is all that is odd, no result is -1, and a file is read
\* only while one is selected.
PadsInv ==
  world \subseteq {"pads"} => ret >= 0 /\ (pc = "chunk" => sel # "none")

LEMMA PadsOutcome ==
  ASSUME world \subseteq {"pads"}, NEW op, NEW len \in Nat,
         op # "chunk" \/ sel # "none",
         NEW o \in Outcomes(op, len)
  PROVE  o.n = len + 2 /\ o.data = len /\ o.sw = "9000"
<1>1. Answers(op, len) = {Answer(len, "9000")}
  BY DEF Answers
<1>2. o = Outcome(Stripped(Answer(len, "9000"), IF "pads" \in world THEN 1 ELSE 0),
                  Answer(len, "9000"), FALSE)
  BY <1>1 DEF Outcomes
<1> QED  BY <1>2 DEF Outcome, Answer, Stripped

LEMMA PadsInvNext == FileInv /\ PadsInv /\ [Next]_vars => PadsInv'
<1> SUFFICES ASSUME FileInv, PadsInv, [Next]_vars, (world \subseteq {"pads"})'
             PROVE  ret' >= 0 /\ (pc' = "chunk" => sel' # "none")
  BY DEF PadsInv
<1>a. world' = world
  BY DEF Next, Reader, NativeCall, GetApplicationData, OneCommand, SelectFile,
         ReadChunk, NextRequest, RequestFails, SessionEnds, vars
<1>b. ret >= 0 /\ (pc = "chunk" => sel # "none") /\ world \subseteq {"pads"}
  BY <1>a DEF PadsInv
<1>c. i \in 1..12 /\ ret \in Int
  BY DEF FileInv, Typed
<1>1. CASE NativeCall
  BY <1>1 DEF NativeCall
<1>2. CASE GetApplicationData
  BY <1>2, <1>b, <1>c, ScriptTypes DEF GetApplicationData, Request
<1>3. CASE OneCommand
  <2>1. PICK o \in Outcomes(Request.op, Request.len) :
          ret' = IF Request.op = "outcert" /\ (o.data # 0 \/ o.sw # "9000")
                   THEN -1 ELSE o.n
    BY <1>3 DEF OneCommand
  <2>2. Request.op = "outcert" => Request.len = 0
    BY <1>c DEF Request, Script, Ask
  <2>3. o.n = Request.len + 2 /\ o.data = Request.len /\ o.sw = "9000"
    <3>1. Request.len \in Nat /\ Request.op # "chunk"
      BY <1>3, <1>c, ScriptTypes DEF OneCommand, Request
    <3> QED  BY <1>b, <3>1, PadsOutcome
  <2>4. Request.len \in Nat
    BY <1>c, ScriptTypes DEF Request
  <2> QED  BY <1>3, <2>1, <2>2, <2>3, <2>4 DEF OneCommand
<1>4. CASE SelectFile
  <2>1. PICK o \in Outcomes("select", 0) : sel' = Selected(o) /\ ret' = o.n
    BY <1>4 DEF SelectFile
  <2>2. o.n = 2 /\ o.sw = "9000"
    BY <1>b, PadsOutcome
  <2>3. Request.name \in FilesOfCard
    BY <1>4, <1>c, ScriptTypes DEF SelectFile, Request
  <2> QED  BY <2>1, <2>2, <2>3 DEF Selected, FilesOfCard
<1>5. CASE ReadChunk
  <2>1. /\ pc = "chunk" /\ left \in Lefts /\ ReadingFile /\ sel' = sel
        /\ at \in Nat
    BY <1>5 DEF ReadChunk, FileInv, Typed
  <2>2. RdLen(left) \in Nat
    BY <2>1, ChunkFacts DEF CHUNK
  <2>3. PICK o \in Outcomes("chunk", RdLen(left)) :
          ChunkOk(o.n, RdLen(left)) => ret' = at' /\ at' = at + (o.n - 2)
    BY <1>5 DEF ReadChunk
  <2>4. o.n = RdLen(left) + 2
    BY <1>b, <2>1, <2>2, PadsOutcome
  <2> QED  BY <1>b, <2>1, <2>2, <2>3, <2>4 DEF ChunkOk
<1>6. CASE NextRequest \/ SessionEnds \/ RequestFails
  <2>1. ret' = ret /\ pc' # "chunk"
    BY <1>6 DEF NextRequest, SessionEnds, RequestFails, Return, Retry
  <2> QED  BY <1>b, <2>1
<1>7. CASE UNCHANGED vars
  BY <1>7, <1>b DEF vars
<1> QED  BY <1>1, <1>2, <1>3, <1>4, <1>5, <1>6, <1>7 DEF Next, Reader

\* Nothing that a phone's 00 does to an answer makes a request fail.
THEOREM PadsHarmlessAlways == Spec => []PadsHarmless
<1>1. Init => PadsInv
  BY DEF Init, PadsInv
<1>2. FileInv /\ PadsInv => PadsHarmless
  BY DEF PadsInv, PadsHarmless, FileInv, Typed
<1> QED  BY <1>1, <1>2, PadsInvNext, FileInvAlways, PTL DEF Spec


-----------------------------------------------------------------------------
(* Local references                                                        *)

\* Spent[k] is the most that an attempt has spent before its request k: one
\* reference for the application data, two for each command, and a file is
\* a selection and its chunks.
Spent == <<0, 1, 3, 5, 7, 9, 11, 18, 26, 48, 70, 72, 74>>

LEMMA SpentFacts ==
  /\ \A k \in 1..13 : Spent[k] \in Nat /\ Spent[k] <= 74
  /\ \A k \in 1..12 :
       /\ Script[k].op = "first" => Spent[k + 1] = Spent[k] + 1
       /\ Script[k].op # "first" => Spent[k + 1] >= Spent[k] + 2
       /\ Script[k].op = "file" =>
            Script[k].len + 112 <= 56 * (Spent[k + 1] - Spent[k] - 1)
       /\ Script[k].op = "outcert" => Spent[k + 1] = 11
BY DEF Spent, Script, Ask

\* What this attempt holds; each one before it took the object's class and
\* eleven references, because it ended at the authentication.
Held == refs - 1 - 11 * (RETRY_TIME - retry)

RefsInv ==
  /\ refs \in Nat /\ retry \in Nat /\ retry <= RETRY_TIME
  /\ pc = "java" => refs = 0
  /\ pc # "java" => retry > 0
  /\ pc = "ask" => Held <= Spent[i]
  /\ pc = "chunk" => 56 * (Held - Spent[i] - 2) <= at
  /\ pc = "returned" => Held <= Spent[i + 1]

LEMMA RefsInvNext == FileInv /\ RefsInv /\ [Next]_vars => RefsInv'
<1> SUFFICES ASSUME FileInv, RefsInv, [Next]_vars  PROVE RefsInv'
  OBVIOUS
<1>0. /\ i \in 1..12 /\ refs \in Nat /\ retry \in Nat /\ retry <= RETRY_TIME
      /\ RETRY_TIME \in Nat /\ Spent[i] \in Nat /\ Spent[i + 1] \in Nat
      /\ pc # "java" => retry > 0
      /\ i + 1 \in 1..13
  <2>1. i \in 1..12
    BY DEF FileInv, Typed
  <2>2. i \in 1..13 /\ i + 1 \in 1..13
    BY <2>1
  <2>3. Spent[i] \in Nat /\ Spent[i + 1] \in Nat
    BY <2>2, SpentFacts
  <2> QED  BY <2>1, <2>2, <2>3, RetryAssumption DEF RefsInv
<1>1. CASE NativeCall
  <2>1. /\ refs' = 1 /\ retry' = RETRY_TIME /\ i' = 1 /\ pc' = "ask"
    BY <1>1 DEF NativeCall
  <2>2. Spent[1] = 0
    BY DEF Spent
  <2>3. Held' = 0
    BY <1>0, <2>1 DEF Held
  <2>4. Held' <= Spent[i']
    BY <2>1, <2>2, <2>3
  <2> QED  BY <1>0, RetryAssumption, <2>1, <2>4 DEF RefsInv
<1>2. CASE GetApplicationData
  <2>1. /\ pc = "ask" /\ Script[i].op = "first" /\ refs' = refs + 1
        /\ pc' = "returned" /\ i' = i /\ retry' = retry
    BY <1>2 DEF GetApplicationData, Request
  <2>2. Held <= Spent[i] /\ Spent[i + 1] = Spent[i] + 1
    BY <1>0, <2>1, SpentFacts DEF RefsInv
  <2>3. Held' = Held + 1 /\ Held \in Int
    BY <1>0, <2>1 DEF Held
  <2>4. Held' <= Spent[i' + 1]
    BY <1>0, <2>1, <2>2, <2>3
  <2> QED  BY <1>0, <2>1, <2>4 DEF RefsInv
<1>3. CASE OneCommand
  <2>1. /\ pc = "ask" /\ Script[i].op # "first" /\ refs' = refs + 2
        /\ pc' = "returned" /\ i' = i /\ retry' = retry
    BY <1>3 DEF OneCommand, SendCmd, Request
  <2>2. Held <= Spent[i] /\ Spent[i + 1] >= Spent[i] + 2
    BY <1>0, <2>1, SpentFacts DEF RefsInv
  <2>3. Held' = Held + 2 /\ Held \in Int
    BY <1>0, <2>1 DEF Held
  <2>4. Held' <= Spent[i' + 1]
    BY <1>0, <2>1, <2>2, <2>3
  <2> QED  BY <1>0, <2>1, <2>4 DEF RefsInv
<1>4. CASE SelectFile
  <2>1. /\ pc = "ask" /\ Script[i].op # "first" /\ refs' = refs + 2
        /\ pc' \in {"returned", "chunk"} /\ i' = i /\ retry' = retry /\ at' = 0
    BY <1>4 DEF SelectFile, SendCmd, Request
  <2>2. Held <= Spent[i] /\ Spent[i + 1] >= Spent[i] + 2
    BY <1>0, <2>1, SpentFacts DEF RefsInv
  <2>3. Held' = Held + 2 /\ Held \in Int
    BY <1>0, <2>1 DEF Held
  <2>4. Held' <= Spent[i' + 1] /\ 56 * (Held' - Spent[i'] - 2) <= at'
    BY <1>0, <2>1, <2>2, <2>3
  <2> QED  BY <1>0, <2>1, <2>4 DEF RefsInv
<1>5. CASE ReadChunk
  <2>1. /\ pc = "chunk" /\ refs' = refs + 2 /\ i' = i /\ retry' = retry
        /\ pc' = "returned" \/ (pc' = "chunk" /\ at' = at + RdLen(left) /\ left' # 0
                                /\ left' = left - RdLen(left))
    BY <1>5 DEF ReadChunk, SendCmd, ChunkOk, RdLen, FileInv, Lefts, CHUNK
  <2>2. /\ Script[i].op = "file" /\ at \in Nat /\ left \in Nat /\ left > 0
        /\ at + left = Script[i].len /\ Script[i].len \in Nat /\ left \in Lefts
    BY <1>0, <2>1, ScriptTypes DEF FileInv, Typed, ReadingFile, Request, Lefts
  <2>3. /\ 56 * (Held - Spent[i] - 2) <= at
        /\ Script[i].len + 112 <= 56 * (Spent[i + 1] - Spent[i] - 1)
    BY <1>0, <2>1, <2>2, SpentFacts DEF RefsInv
  <2>4. Held' = Held + 2 /\ Held \in Int
    BY <1>0, <2>1 DEF Held
  <2>5. Held' <= Spent[i + 1]
    BY <1>0, <2>2, <2>3, <2>4
  <2>6. pc' = "chunk" => 56 * (Held' - Spent[i] - 2) <= at'
    <3>1. pc' = "chunk" => RdLen(left) = 112
      BY <2>1, <2>2, ChunkFacts DEF CHUNK
    <3> QED  BY <1>0, <2>1, <2>2, <2>3, <2>4, <3>1
  <2> QED  BY <1>0, <2>1, <2>5, <2>6 DEF RefsInv
<1>6. CASE pc' = "java" /\ refs' = 0 /\ retry' \in {retry, retry - 1} /\ pc = "returned"
  BY <1>0, <1>6 DEF RefsInv
<1>7. CASE NextRequest \/ SessionEnds
  <2>1. CASE i # 12 /\ NextRequest
    <3>1. /\ i' = i + 1 /\ pc' = "ask" /\ pc = "returned" /\ UNCHANGED <<refs, retry>>
      BY <2>1, ScriptTypes DEF NextRequest
    <3>2. Held' = Held /\ Held <= Spent[i']
      BY <3>1 DEF Held, RefsInv
    <3> QED  BY <1>0, <3>1, <3>2 DEF RefsInv
  <2>2. CASE i = 12 \/ SessionEnds
    BY <1>6, <1>7, <2>2, ScriptTypes DEF NextRequest, SessionEnds, Return
  <2> QED  BY <1>7, <2>1, <2>2
<1>8. CASE RequestFails
  <2>1. CASE Script[i].op = "outcert" /\ retry - 1 > 0
    <3>1. /\ pc = "returned" /\ retry' = retry - 1 /\ i' = 1 /\ pc' = "ask" /\ refs' = refs
      BY <1>8, <2>1 DEF RequestFails, Retry, Request
    <3>2. Held <= 11
      BY <1>0, <2>1, <3>1, SpentFacts DEF RefsInv
    <3>3. Held' = Held - 11 /\ Held \in Int
      BY <1>0, <3>1 DEF Held
    <3>4. Spent[i'] = 0
      BY <3>1 DEF Spent
    <3>5. Held' <= Spent[i']
      BY <3>2, <3>3, <3>4
    <3> QED  BY <1>0, <2>1, <3>1, <3>5 DEF RefsInv
  <2>2. CASE ~(Script[i].op = "outcert" /\ retry - 1 > 0)
    BY <1>6, <1>8, <2>2 DEF RequestFails, Retry, Return, Request
  <2> QED  BY <2>1, <2>2
<1>9. CASE UNCHANGED vars
  BY <1>9 DEF vars, filevars, RefsInv, Held
<1> QED
  BY <1>1, <1>2, <1>3, <1>4, <1>5, <1>7, <1>8, <1>9 DEF Next, Reader

LEMMA Between == ASSUME NEW n \in Nat, NEW x \in Nat, x <= n PROVE x \in 0..n
OBVIOUS

LEMMA RefsInvAlways == Spec => []RefsInv
<1>1. Init => RefsInv
  BY RetryAssumption DEF Init, RefsInv
<1> QED  BY <1>1, RefsInvNext, FileInvAlways, PTL DEF Spec

\* The rest of the types.
RestInv ==
  /\ world \in Worlds /\ calls \in 0..MaxCalls
  /\ left <= 1024 /\ at <= 1024 /\ data <= 1024
  /\ thrown \in 0..12 /\ offence \in 0..12

LEMMA RestInvNext == FileInv /\ FileInv' /\ RestInv /\ [Next]_vars => RestInv'
<1> SUFFICES ASSUME FileInv, FileInv', RestInv, [Next]_vars  PROVE RestInv'
  OBVIOUS
<1>0. i \in 1..12 /\ calls \in Nat /\ MaxCalls \in Nat /\ thrown \in 0..12 /\ offence \in 0..12
  BY CallsAssumption DEF FileInv, Typed, RestInv
<1>1. world' = world /\ calls' \in 0..MaxCalls
  <2>1. CASE NativeCall
    BY <1>0, <2>1 DEF NativeCall
  <2>2. CASE UNCHANGED <<world, calls>>
    BY <2>2 DEF RestInv
  <2> QED  BY <2>1, <2>2 DEF Next, Reader, GetApplicationData, OneCommand, SelectFile,
                             ReadChunk, NextRequest, RequestFails, SessionEnds, vars
<1>2. thrown' \in {0, thrown, i} /\ offence' \in {0, offence, thrown}
  BY DEF Next, Reader, NativeCall, GetApplicationData, OneCommand, SelectFile, ReadChunk,
         SendCmd, CallsJni, NextRequest, RequestFails, SessionEnds, vars
<1>3. left' <= 1024 /\ at' <= 1024 /\ data' <= 1024
  <2>1. CASE UNCHANGED filevars \/ NativeCall
    <3>1. UNCHANGED <<left, at, data>> \/ (left' = 0 /\ at' = 0 /\ data' = 0)
      BY <2>1 DEF filevars, NativeCall
    <3> QED  BY <3>1 DEF RestInv
  <2>2. CASE SelectFile
    <3>1. left' = Script[i].len /\ at' = 0 /\ data' = 0 /\ Script[i].op = "file"
      BY <2>2 DEF SelectFile, Request
    <3>2. Script[i].len \in {214, 256, 1024}
      BY <1>0, <3>1, ScriptTypes
    <3> QED  BY <3>1, <3>2
  <2>3. CASE ReadChunk /\ ~UNCHANGED filevars
    <3>1. i' = i /\ ret' = at' /\ (pc' = "chunk" \/ pc' = "returned")
      BY <2>3 DEF ReadChunk
    <3>2. Script[i].op = "file"
      BY <2>3 DEF ReadChunk, FileInv, ReadingFile, Request
    <3>3. at' \in Nat /\ left' \in Nat /\ data' \in Nat
      BY DEF FileInv, Typed
    <3>4. Request'.op = "file" /\ Request'.len \in {214, 256, 1024}
      BY <1>0, <3>1, <3>2, ScriptTypes DEF Request
    <3>5. ReadingFile'
      BY <3>1, <3>3, <3>4 DEF FileInv
    <3>6. at' + left' = Request'.len /\ data' <= at'
      BY <3>5 DEF ReadingFile
    <3> QED  BY <3>3, <3>4, <3>6
  <2> QED  BY <2>1, <2>2, <2>3 DEF Next, Reader, GetApplicationData, OneCommand,
                                   NextRequest, RequestFails, SessionEnds, vars
<1> QED  BY <1>0, <1>1, <1>2, <1>3 DEF RestInv

\* A read holds no more local references than the virtual machine grants a
\* native call, although no command deletes its two: for as many as 40
\* attempts, of which the code makes three.
THEOREM TypeCorrect == ASSUME RETRY_TIME <= 40 PROVE Spec => []TypeOK
<1>1. Init => RestInv
  BY CallsAssumption DEF Init, RestInv
<1>2. FileInv /\ RefsInv /\ RestInv => TypeOK
  <2> SUFFICES ASSUME FileInv, RefsInv, RestInv  PROVE TypeOK
    OBVIOUS
  <2>1. refs \in 0..LOCAL_REFS
    <3>1. /\ i \in 1..12 /\ RETRY_TIME \in Nat /\ refs \in Nat /\ retry \in Nat
          /\ at \in Nat /\ i \in 1..13 /\ i + 1 \in 1..13
      BY RetryAssumption DEF FileInv, Typed, RefsInv, RestInv
    <3>2. /\ Spent[i] \in Nat /\ Spent[i + 1] \in Nat
          /\ Spent[i] <= 74 /\ Spent[i + 1] <= 74
      BY <3>1, SpentFacts
    <3>3. CASE pc = "java"
      BY <3>3 DEF RefsInv, LOCAL_REFS
    <3>4. CASE pc # "java"
      <4>1. retry > 0
        BY <3>4 DEF RefsInv
      <4>2. refs <= Held + 1 + 11 * 39 /\ Held \in Int
        BY <3>1, <4>1 DEF Held
      <4>3. Held <= 74
        <5>1. CASE pc \in {"ask", "returned"}
          BY <3>1, <3>2, <4>2, <5>1 DEF RefsInv
        <5>2. CASE pc = "chunk"
          <6>1. 56 * (Held - Spent[i] - 2) <= at /\ at <= Script[i].len /\ Script[i].op = "file"
            <7>1. /\ 56 * (Held - Spent[i] - 2) <= at /\ Script[i].op = "file"
                  /\ at + left = Script[i].len /\ at \in Nat /\ left \in Nat
              BY <5>2 DEF RefsInv, FileInv, Typed, ReadingFile, Request
            <7> QED  BY <3>1, <7>1, ScriptTypes
          <6>2. /\ Script[i].len \in Nat
                /\ Script[i].len + 112 <= 56 * (Spent[i + 1] - Spent[i] - 1)
            BY <3>1, <6>1, ScriptTypes, SpentFacts
          <6>3. Held <= Spent[i + 1]
            <7>1. 56 * (Held - Spent[i] - 2) + 112 <= 56 * (Spent[i + 1] - Spent[i] - 1)
              BY <3>1, <3>2, <4>2, <6>1, <6>2
            <7> QED  BY <3>2, <4>2, <7>1
          <6> QED  BY <3>2, <4>2, <6>3
        <5>3. pc \in {"ask", "returned"} \/ pc = "chunk"
          BY <3>4 DEF FileInv, Typed, Places
        <5> QED  BY <5>1, <5>2, <5>3
      <4> QED  BY <3>1, <4>2, <4>3 DEF LOCAL_REFS
    <3> QED  BY <3>3, <3>4
  <2>2. src \subseteq FilesOfCard /\ sel \in FilesOfCard \cup {"none"} /\ ret \in Int
    BY DEF FileInv, Typed
  <2>3. /\ pc \in Places /\ i \in 1..12 /\ retry \in 0..RETRY_TIME
    BY RetryAssumption DEF FileInv, Typed, RefsInv
  <2>4. left \in 0..1024 /\ at \in 0..1024 /\ data \in 0..1024
    BY Between DEF FileInv, Typed, RestInv
  <2> QED  BY <2>1, <2>2, <2>3, <2>4, ScriptTypes DEF TypeOK, RestInv, Places
<1> QED  BY <1>1, <1>2, RestInvNext, RefsInvAlways, FileInvAlways, PTL DEF Spec

-----------------------------------------------------------------------------
(* A native call gets shorter with every step                              *)

\* More than the steps that are left of a native call: of the attempts, of the
\* requests of an attempt, and of the bytes of a file.
InRequest == CASE pc = "ask" -> 1026 [] pc = "chunk" -> left [] OTHER -> 0
Remaining == 30000 * retry + 2000 * (12 - i) + InRequest

Shortens == pc # "java" => pc' = "java" \/ Remaining' \in 0..(Remaining - 1)

InRequestInv == InRequest \in 0..1026

LEMMA InRequestType == FileInv => InRequestInv
<1> SUFFICES ASSUME FileInv  PROVE InRequestInv
  OBVIOUS
<1>1. pc = "chunk" => left \in 0..1026
  BY DEF FileInv, Lefts
<1> QED  BY <1>1 DEF InRequestInv, InRequest

LEMMA InRequestNext == FileInv' => InRequestInv'
BY InRequestType, PTL

LEMMA ShortensStep ==
  FileInv /\ FileInv' /\ RefsInv /\ RefsInv' /\ [Next]_vars => [Shortens]_vars
<1> SUFFICES ASSUME FileInv, FileInv', RefsInv, RefsInv', Next, pc # "java", pc' # "java"
             PROVE  Remaining' \in 0..(Remaining - 1)
  BY DEF Shortens
<1>1. /\ i \in 1..12 /\ i' \in 1..12 /\ retry \in Nat /\ retry' \in Nat
      /\ InRequest \in 0..1026 /\ InRequest' \in 0..1026
  BY InRequestType, InRequestNext DEF InRequestInv, FileInv, Typed, RefsInv
<1>2. \/ retry' = retry /\ i' = i /\ InRequest' < InRequest
      \/ retry' = retry /\ i' = i + 1
      \/ retry' = retry - 1
  <2>1. CASE GetApplicationData \/ OneCommand
    BY <2>1 DEF GetApplicationData, OneCommand, InRequest
  <2>2. CASE SelectFile
    <3>1. pc = "ask" /\ left' = Request.len /\ retry' = retry /\ i' = i
          /\ pc' \in {"returned", "chunk"}
      BY <2>2 DEF SelectFile
    <3>2. Request.len <= 1024 /\ Request.len \in Nat
      BY <1>1, <2>2, ScriptTypes DEF SelectFile, Request
    <3> QED  BY <3>1, <3>2 DEF InRequest
  <2>3. CASE ReadChunk
    <3>1. PICK o \in Outcomes("chunk", RdLen(left)) :
            \/ /\ ChunkOk(o.n, RdLen(left))
               /\ left' = left - (o.n - 2)
               /\ pc' = IF left' = 0 THEN "returned" ELSE "chunk"
            \/ pc' = "returned"
      BY <2>3 DEF ReadChunk
    <3>2. pc = "chunk" /\ retry' = retry /\ i' = i
      BY <2>3 DEF ReadChunk
    <3>3. left \in Lefts /\ left \in Nat /\ left > 0
      BY <3>2 DEF FileInv, Lefts
    <3>4. RdLen(left) \in 2..CHUNK /\ RdLen(left) <= left
      BY <3>3, ChunkFacts
    <3>5. CASE pc' = "returned"
      BY <3>2, <3>3, <3>5 DEF InRequest
    <3>6. CASE pc' # "returned"
      <4>1. o.n = RdLen(left) + 2 /\ left' = left - (o.n - 2) /\ pc' = "chunk"
        BY <3>1, <3>6 DEF ChunkOk
      <4>2. left' < left
        BY <3>3, <3>4, <4>1 DEF CHUNK
      <4> QED  BY <3>2, <4>1, <4>2 DEF InRequest
    <3> QED  BY <3>5, <3>6
  <2>4. CASE NextRequest \/ RequestFails \/ SessionEnds
    BY <2>4 DEF NextRequest, RequestFails, SessionEnds, Retry, Return
  <2> QED  BY <2>1, <2>2, <2>3, <2>4 DEF Next, Reader, NativeCall
<1>3. PICK r \in Nat, k \in 1..12 : r = retry /\ k = i
  BY <1>1
<1>4. PICK r2 \in Nat, k2 \in 1..12 : r2 = retry' /\ k2 = i'
  BY <1>1
<1>5. PICK s \in 0..1026 : s = InRequest
  BY <1>1
<1>6. PICK s2 \in 0..1026 : s2 = InRequest'
  BY <1>1
<1>7. Remaining = 30000 * r + 2000 * (12 - k) + s
  BY <1>3, <1>5 DEF Remaining
<1>8. Remaining' = 30000 * r2 + 2000 * (12 - k2) + s2
  BY <1>4, <1>6 DEF Remaining
<1>9. \/ r2 = r /\ k2 = k /\ s2 < s
      \/ r2 = r /\ k2 = k + 1
      \/ r2 = r - 1
  BY <1>2, <1>3, <1>4, <1>5, <1>6
<1>10. 30000 * r2 + 2000 * (12 - k2) + s2 \in 0..(30000 * r + 2000 * (12 - k) + s - 1)
  BY <1>9
<1> QED  BY <1>7, <1>8, <1>10

\* Nothing that a native call does can be repeated for ever: every step of it
\* ends it or leaves fewer attempts, fewer requests of the attempt or less of
\* a file, whatever the phone and the card answer.
THEOREM EveryStepShortens == Spec => [][Shortens]_vars
<1> QED  BY ShortensStep, RefsInvAlways, FileInvAlways, PTL DEF Spec

=============================================================================
