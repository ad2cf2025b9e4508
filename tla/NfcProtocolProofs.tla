-------------------------- MODULE NfcProtocolProofs --------------------------
(***************************************************************************)
(* Proofs about NfcProtocol, for any lengths of files, faults of the card  *)
(* and numbers of sessions and requests: an answer goes to the command it  *)
(* is for, a file is delivered whole, and the receive loop stays inside    *)
(* its buffers.  What an earlier session left on the line can spoil all of *)
(* it, so the invariant IInv speaks of undisturbed sessions: all of those  *)
(* on a serial port, the first at an OTG cable, and a later one once its   *)
(* InitNFC has emptied the line.  What Bytes computes is proved by         *)
(* induction over the lengths of the sequences.                            *)
(***************************************************************************)
EXTENDS NfcProtocol, SequenceTheorems, WellFoundedInduction, TLAPS

Talking  == {"write", "read", "returned", "overrun"}
Selected == {"mf"} \cup FilesOfCard
OnLine   == [id : Nat, part : {"ack", "head", "rest"}, n : Int, name : Names, at : Nat]

-----------------------------------------------------------------------------
(* The request                                                             *)

TypeRequest ==
  /\ Port \in Ports /\ sessions \in Nat /\ step \in Nat /\ sent \in Nat /\ ret \in Int
  /\ pc \in {"closed", "init", "initread", "ready", "write", "read", "returned",
            "overrun"}
  /\ req \in [op : Ops, name : Names, len : Nat, left : Nat, at : Nat]
  /\ file \in Seq([at : Nat, n : Int, name : Names])
  /\ buff \in Seq(OnLine) /\ wire \in Seq(OnLine) /\ pending \in Seq(OnLine)
  /\ sel \in Selected

\* What is being asked for, at each place of the caller.
Asked ==
  /\ req.op # "read" => file = <<>>
  /\ pc \in {"closed", "init", "initread"} => req = NoReq
  /\ pc = "ready" => req.op = "none" \/ (req.op = "read" /\ req.left = 0)
  /\ pc \in Talking => req.op \in {"cmd", "select", "read"}
  /\ pc \in Talking /\ req.op = "read" => req.left > 0
  /\ req.op = "select" => req.name \in FilesOfCard /\ req.left = req.len /\ req.at = 0
  /\ req.op \in {"none", "cmd"} => req.len = 0
  /\ req.op \in {"select", "read"} => req.len \in FileLens /\ req.at + req.left = req.len

\* The file as far as it has come: whole chunks, one after the other, of the
\* file that is selected.
Pieced ==
  /\ \A i \in DOMAIN file : /\ file[i].at = (i - 1) * CHUNK
                            /\ file[i].name = sel /\ sel \in FilesOfCard
  /\ req.op = "read" =>
       /\ req.left > 0 => req.at = Len(file) * CHUNK
       /\ file = <<>> => req.at = 0
       /\ file # <<>> => req.at = file[Len(file)].at + file[Len(file)].n

-----------------------------------------------------------------------------
(* The line                                                                *)

\* The answers to InitNFC's commands are too short for any caller.
Short(s) == \A i \in DOMAIN s : s[i].n = -1

\* A piece of the answer to the command that waits, or of a short one.
Mine(p) ==
  p.n # -1 => /\ p.id = sent /\ p.at = req.at
              /\ req.op = "read" => p.name = sel /\ (sel = "mf" => p.n = 2)

\* The end of the answer to the command that waits.
Last(p) == p.part = "rest" /\ p.n # -1

\* What is on the line when a command is written is short: the port has been
\* flushed, or has never been used.
LineClean ==
  /\ sessions = 0 => pc = "closed" /\ wire = <<>> /\ pending = <<>>
  /\ pc \in {"init", "initread"} /\ ~(Port = "serial" /\ step = 1) => Short(wire)
  /\ pc = "init" /\ ~(Port = "serial" /\ step = 1) => Short(pending)
  /\ pc = "initread" => Short(pending)
  /\ pc \in {"ready", "write"} => Short(wire) /\ Short(pending)

\* While a command waits, its answer comes piece by piece, its end last.
AnswerComes ==
  pc \in {"read", "returned"} =>
    /\ \A i \in DOMAIN buff : /\ Mine(buff[i])
                              /\ Last(buff[i]) => wire = <<>> /\ pending = <<>>
    /\ \A i \in DOMAIN wire : /\ Mine(wire[i])
                              /\ Last(wire[i]) => i = Len(wire) /\ pending = <<>>
    /\ \A i \in DOMAIN pending : /\ Mine(pending[i])
                                 /\ Last(pending[i]) => i = Len(pending)

\* A result is an error or that of an answer that is in the buffer.
ResultOf ==
  pc = "returned" /\ ret # -1 =>
    3 \in DOMAIN buff /\ ans = buff[3] /\ ans.part = "rest" /\ ret = ans.n

IInv == Undisturbed => /\ TypeRequest /\ Asked /\ Pieced
                 /\ LineClean /\ AnswerComes /\ ResultOf

-----------------------------------------------------------------------------
(* Pieces                                                                  *)

\* What is left of the line after the first k pieces have been read.
LEMMA Cut ==
  ASSUME NEW s \in Seq(OnLine), NEW k \in 0..Len(s)
  PROVE  /\ SubSeq(s, k + 1, Len(s)) \in Seq(OnLine)
         /\ Len(SubSeq(s, k + 1, Len(s))) = Len(s) - k
         /\ \A i \in 1..(Len(s) - k) :
              SubSeq(s, k + 1, Len(s))[i] = s[i + k] /\ i + k \in DOMAIN s
OBVIOUS

\* The third piece of a buffer.
LEMMA Third == ASSUME NEW b \in Seq(OnLine), Len(b) = 3
               PROVE  b[3] \in OnLine /\ b[3].n \in Int
<1>1. 3 \in 1..3 /\ DOMAIN b = 1..3
  OBVIOUS
<1>2. b[3] \in OnLine
  BY <1>1
<1>3. QED
  BY <1>2 DEF OnLine

\* What the buffer holds when the first k pieces of the line are added.
LEMMA Gain ==
  ASSUME NEW b \in Seq(OnLine), NEW s \in Seq(OnLine), NEW k \in 0..Len(s)
  PROVE  /\ b \o SubSeq(s, 1, k) \in Seq(OnLine)
         /\ \A i \in DOMAIN (b \o SubSeq(s, 1, k)) :
              \/ i \in DOMAIN b /\ (b \o SubSeq(s, 1, k))[i] = b[i]
              \/ \E j \in 1..k : j \in DOMAIN s /\ (b \o SubSeq(s, 1, k))[i] = s[j]
<1>1. PICK t : t = SubSeq(s, 1, k)
  OBVIOUS
<1>2. /\ t \in Seq(OnLine) /\ Len(t) = k
      /\ \A j \in 1..k : j \in DOMAIN s /\ t[j] = s[j]
  BY <1>1
<1>3. b \o t \in Seq(OnLine) /\ Len(b \o t) = Len(b) + k
  BY <1>2
<1>4. ASSUME NEW i \in DOMAIN (b \o t)
      PROVE  \/ i \in DOMAIN b /\ (b \o t)[i] = b[i]
             \/ \E j \in 1..k : j \in DOMAIN s /\ (b \o t)[i] = s[j]
  <2>1. i \in 1..(Len(b) + k)
    BY <1>3
  <2>2. CASE i <= Len(b)
    BY <1>2, <2>1, <2>2
  <2>3. CASE i > Len(b)
    <3>1. i - Len(b) \in 1..k /\ (b \o t)[i] = t[i - Len(b)]
      BY <1>2, <2>1, <2>3
    <3>2. QED
      BY <1>2, <3>1
  <2>4. QED
    BY <2>1, <2>2, <2>3
<1>5. QED
  BY <1>1, <1>3, <1>4

\* The pieces of an answer.
LEMMA Written ==
  ASSUME TypeRequest,
         NEW r \in [op : Ops, name : Names, len : Nat, left : Nat, at : Nat],
         r.op = "select" => r.name \in FilesOfCard,
         WriteCommand(r)
  PROVE  /\ sent' = sent + 1 /\ sel' \in Selected /\ (r.op # "select" => sel' = sel)
         /\ pending' \in Seq(OnLine) /\ Len(pending') = 3
         /\ \A i \in DOMAIN pending' :
              /\ pending'[i].id = sent' /\ pending'[i].at = r.at
              /\ pending'[i].part = "rest" => i = Len(pending')
              /\ r.op = "init" => pending'[i].n = -1
              /\ r.op = "read" =>
                   pending'[i].name = sel /\ (sel = "mf" => pending'[i].n = 2)
<1>1. PICK n \in Answers(r) :
        pending' = AnswerOf(sent + 1, n, [r EXCEPT !.name =
                              IF r.op = "read" THEN sel ELSE r.name])
  BY DEF WriteCommand
<1>2. /\ n \in Int /\ (r.op = "init" => n = -1)
      /\ (r.op = "read" /\ sel = "mf" => n = 2)
  <2>1. Want(r) \in Int
    BY DEF Want, RdLen, CHUNK
  <2>2. QED
    BY <2>1 DEF Answers
<1>3. PICK q : q = [r EXCEPT !.name = IF r.op = "read" THEN sel ELSE r.name]
  OBVIOUS
<1>4. q.at = r.at /\ q.at \in Nat /\ q.name \in Names /\ (r.op = "read" => q.name = sel)
  BY <1>3 DEF TypeRequest, Selected, Names
<1>5. sent \in Nat /\ sent + 1 \in Nat /\ sent' = sent + 1
  BY DEF TypeRequest, WriteCommand
<1>6. pending' = AnswerOf(sent + 1, n, q)
  BY <1>1, <1>3
<1>7. PICK a, h, e : /\ a = Piece(sent + 1, "ack", n, q) /\ h = Piece(sent + 1, "head", n, q)
                     /\ e = Piece(sent + 1, "rest", n, q)
  OBVIOUS
<1>8. /\ a \in OnLine /\ h \in OnLine /\ e \in OnLine
      /\ a.part = "ack" /\ h.part = "head" /\ e.part = "rest"
      /\ \A p \in {a, h, e} : p.id = sent + 1 /\ p.n = n /\ p.at = q.at /\ p.name = q.name
  BY <1>2, <1>4, <1>5, <1>7 DEF Piece, OnLine
<1>9. pending' = <<a, h, e>>
  BY <1>6, <1>7 DEF AnswerOf
<1>10. /\ pending' \in Seq(OnLine) /\ Len(pending') = 3 /\ DOMAIN pending' = 1..3
       /\ pending'[1] = a /\ pending'[2] = h /\ pending'[3] = e
  BY <1>8, <1>9
<1>11. sel' \in Selected /\ (r.op # "select" => sel' = sel)
  BY DEF WriteCommand, TypeRequest, Selected
<1>12. ASSUME NEW i \in DOMAIN pending'
       PROVE  /\ pending'[i] \in {a, h, e}
              /\ pending'[i].part = "rest" => i = Len(pending')
  <2>1. i = 1 \/ i = 2 \/ i = 3
    BY <1>10
  <2>2. QED
    BY <1>8, <1>10, <2>1
<1>13. QED
  BY <1>2, <1>4, <1>5, <1>8, <1>10, <1>11, <1>12

-----------------------------------------------------------------------------
(* Opening, the five commands of InitNFC, closing                          *)

LEMMA InitInv == Init => IInv
<1> SUFFICES ASSUME Init PROVE /\ TypeRequest /\ Asked /\ Pieced
                               /\ LineClean /\ AnswerComes /\ ResultOf
  BY DEF IInv
<1> USE DEF Init, NoReq
<1>1. TypeRequest
  BY DEF TypeRequest, Ops, Names, Selected
<1>2. Asked /\ Pieced
  BY DEF Asked, Pieced, Talking
<1>3. LineClean /\ AnswerComes /\ ResultOf
  BY DEF LineClean, AnswerComes, ResultOf
<1>4. QED
  BY <1>1, <1>2, <1>3

LEMMA OpenInv ==
  ASSUME IInv, OpenNFCDev, UNCHANGED Port, Undisturbed, Undisturbed'
  PROVE  IInv'
<1>1. TypeRequest /\ Asked /\ Pieced /\ LineClean
  BY DEF IInv
<1>2. /\ pc = "closed" /\ pc' = "init" /\ step' = 1 /\ sessions' = sessions + 1
      /\ wire' = IF Port = "serial" THEN <<>> ELSE wire
      /\ ~drained' /\ UNCHANGED <<req, file, pending, sel, sent, buff, ret, ans, Port>>
  BY DEF OpenNFCDev, cmd
<1>3. TypeRequest'
  BY <1>1, <1>2 DEF TypeRequest
<1>4. Asked' /\ Pieced'
  BY <1>1, <1>2 DEF Asked, Pieced, Talking
<1>5. Port = "serial" \/ (sessions = 0 /\ wire = <<>> /\ pending = <<>>)
  BY <1>1, <1>2 DEF Undisturbed, TypeRequest, LineClean
<1>6. LineClean'
  <2>1. sessions' # 0
    BY <1>1, <1>2 DEF TypeRequest
  <2>2. Port # "serial" => Short(wire)' /\ Short(pending)'
    BY <1>2, <1>5 DEF Short
  <2>3. QED
    BY <1>2, <2>1, <2>2 DEF LineClean
<1>7. AnswerComes' /\ ResultOf'
  BY <1>2 DEF AnswerComes, ResultOf
<1>8. QED
  BY <1>3, <1>4, <1>6, <1>7 DEF IInv

LEMMA InitWriteInv ==
  ASSUME IInv, InitWrite, UNCHANGED Port, Undisturbed
  PROVE  IInv'
<1>1. TypeRequest /\ Asked /\ Pieced /\ LineClean
  BY DEF IInv
<1>2. /\ pc = "init" /\ pc' = "initread" /\ WriteCommand([NoReq EXCEPT !.op = "init"])
      /\ UNCHANGED <<step, req, file, sessions, buff, ret, ans, wire, Port>>
  BY DEF InitWrite, caller, cmd
<1>3. PICK r \in [op : Ops, name : Names, len : Nat, left : Nat, at : Nat] :
        r = [NoReq EXCEPT !.op = "init"] /\ r.op = "init"
  <2>1. /\ [NoReq EXCEPT !.op = "init"] \in
             [op : Ops, name : Names, len : Nat, left : Nat, at : Nat]
        /\ [NoReq EXCEPT !.op = "init"].op = "init"
    BY DEF NoReq, Ops, Names
  <2>2. QED
    BY <2>1
<1>4. WriteCommand(r)
  BY <1>2, <1>3
<1>5. /\ sent' = sent + 1 /\ sel' = sel
      /\ pending' \in Seq(OnLine) /\ \A i \in DOMAIN pending' : pending'[i].n = -1
  BY <1>1, <1>3, <1>4, Written
<1>6. TypeRequest'
  BY <1>1, <1>2, <1>5 DEF TypeRequest
<1>7. Asked' /\ Pieced'
  BY <1>1, <1>2, <1>5 DEF Asked, Pieced, Talking
<1>8. LineClean'
  BY <1>1, <1>2, <1>5 DEF LineClean, Short
<1>9. AnswerComes' /\ ResultOf'
  BY <1>2 DEF AnswerComes, ResultOf
<1>10. QED
  BY <1>6, <1>7, <1>8, <1>9 DEF IInv

LEMMA InitReadInv ==
  ASSUME IInv, InitRead, UNCHANGED Port, Undisturbed
  PROVE  IInv'
<1>1. TypeRequest /\ Asked /\ Pieced /\ LineClean
  BY DEF IInv
<1>2. /\ pc = "initread" /\ step' = step + 1
      /\ pc' = IF step = INITSTEPS THEN "ready" ELSE "init"
      /\ UNCHANGED <<req, file, sessions, buff, ret, ans, pending, sel, sent, Port>>
  BY DEF InitRead, cmd
<1>3. PICK k \in Readable : wire' = SubSeq(wire, k + 1, Len(wire))
  BY DEF InitRead
<1>4. k \in 0..Len(wire) /\ (Port = "serial" => k = Len(wire)) /\ Len(wire) \in Nat
  BY <1>1, <1>3 DEF Readable, TypeRequest
<1>5. /\ wire' \in Seq(OnLine) /\ Len(wire') = Len(wire) - k
      /\ \A i \in 1..(Len(wire) - k) : wire'[i] = wire[i + k] /\ i + k \in DOMAIN wire
  BY <1>1, <1>3, <1>4, Cut DEF TypeRequest
<1>6. TypeRequest'
  BY <1>1, <1>2, <1>5 DEF TypeRequest
<1>7. Asked'
  BY <1>1, <1>2 DEF Asked, Talking, NoReq
<1>8. Pieced'
  BY <1>1, <1>2 DEF Pieced, CHUNK
<1>9. Short(wire)'
  <2>1. DOMAIN wire' = 1..(Len(wire) - k)
    BY <1>5
  <2>2. CASE Port = "serial"
    BY <1>4, <2>1, <2>2 DEF Short
  <2>3. CASE Port # "serial"
    BY <1>1, <1>2, <1>5, <2>1, <2>3 DEF LineClean, Short
  <2>4. QED
    BY <2>2, <2>3
<1>10. Short(pending)'
  BY <1>1, <1>2 DEF LineClean, Short
<1>11. LineClean'
  BY <1>1, <1>2, <1>9, <1>10 DEF LineClean
<1>12. AnswerComes' /\ ResultOf'
  BY <1>2 DEF AnswerComes, ResultOf
<1>13. QED
  BY <1>6, <1>7, <1>8, <1>11, <1>12 DEF IInv

LEMMA CloseInv ==
  ASSUME IInv, GiveUp \/ CloseNFCDev \/ Crash, UNCHANGED Port, Undisturbed
  PROVE  IInv'
<1>1. TypeRequest /\ Pieced /\ LineClean
  BY DEF IInv
<1>2. /\ pc # "closed" /\ pc' = "closed" /\ req' = NoReq /\ file' = <<>>
      /\ buff' = <<>> /\ ret' = 0
      /\ UNCHANGED <<step, sessions, wire, pending, sel, sent, Port>>
  BY DEF GiveUp, CloseNFCDev, Crash, NoLocals, board
<1>3. TypeRequest'
  BY <1>1, <1>2 DEF TypeRequest, NoReq, Ops, Names
<1>4. Asked' /\ Pieced'
  BY <1>2 DEF Asked, Pieced, NoReq, Talking
<1>5. LineClean' /\ AnswerComes' /\ ResultOf'
  BY <1>1, <1>2 DEF LineClean, AnswerComes, ResultOf
<1>6. QED
  BY <1>3, <1>4, <1>5 DEF IInv

-----------------------------------------------------------------------------
(* A command and its answer                                                *)

LEMMA RequestInv ==
  ASSUME IInv, Request, UNCHANGED Port, Undisturbed
  PROVE  IInv'
<1>1. TypeRequest /\ Asked /\ Pieced /\ LineClean
  BY DEF IInv
<1>2. /\ pc = "ready" /\ pc' = "write" /\ file' = <<>>
      /\ UNCHANGED <<step, sessions, buff, ret, ans, wire, pending, sel, sent, Port>>
  BY DEF Request, cmd, board
<1>3. \/ req' = [NoReq EXCEPT !.op = "cmd"]
      \/ \E name \in FilesOfCard, len \in FileLens :
           req' = [op |-> "select", name |-> name, len |-> len, left |-> len, at |-> 0]
  BY DEF Request
<1>4. /\ req' \in [op : Ops, name : Names, len : Nat, left : Nat, at : Nat]
      /\ req'.op \in {"cmd", "select"}
      /\ req'.op = "select" => /\ req'.name \in FilesOfCard /\ req'.len \in FileLens
                               /\ req'.left = req'.len /\ req'.at = 0
      /\ req'.op = "cmd" => req'.len = 0
  <2>1. CASE req' = [NoReq EXCEPT !.op = "cmd"]
    BY <2>1 DEF NoReq, Ops, Names
  <2>2. CASE \E name \in FilesOfCard, len \in FileLens :
               req' = [op |-> "select", name |-> name, len |-> len, left |-> len, at |-> 0]
    BY <2>2, LensAssumption DEF Ops, Names
  <2>3. QED
    BY <1>3, <2>1, <2>2
<1>5. TypeRequest'
  BY <1>1, <1>2, <1>4 DEF TypeRequest
<1>6. Asked'
  BY <1>1, <1>2, <1>4 DEF Asked, Talking
<1>7. Pieced'
  BY <1>2, <1>4 DEF Pieced
<1>8. LineClean' /\ AnswerComes' /\ ResultOf'
  BY <1>1, <1>2 DEF LineClean, Short, AnswerComes, ResultOf
<1>9. QED
  BY <1>5, <1>6, <1>7, <1>8 DEF IInv

LEMMA CmdWriteInv ==
  ASSUME IInv, CmdWrite, UNCHANGED Port, Undisturbed
  PROVE  IInv'
<1>1. TypeRequest /\ Asked /\ Pieced /\ LineClean
  BY DEF IInv
<1>2. /\ pc = "write" /\ pc' = "read" /\ WriteCommand(req) /\ buff' = <<>> /\ ret' = 0
      /\ UNCHANGED <<step, req, file, sessions, wire, Port>>
  BY DEF CmdWrite, NoLocals, caller
<1>3. /\ req \in [op : Ops, name : Names, len : Nat, left : Nat, at : Nat]
      /\ req.op = "select" => req.name \in FilesOfCard
  BY <1>1 DEF TypeRequest, Asked
<1>4. /\ sent' = sent + 1 /\ sel' \in Selected /\ (req.op # "select" => sel' = sel)
      /\ pending' \in Seq(OnLine)
      /\ \A i \in DOMAIN pending' :
           /\ pending'[i].id = sent' /\ pending'[i].at = req.at
           /\ pending'[i].part = "rest" => i = Len(pending')
           /\ req.op = "read" => pending'[i].name = sel /\ (sel = "mf" => pending'[i].n = 2)
  BY <1>1, <1>2, <1>3, Written
<1>5. TypeRequest'
  BY <1>1, <1>2, <1>4 DEF TypeRequest
<1>6. Asked'
  BY <1>1, <1>2 DEF Asked, Talking
<1>7. Pieced'
  <2>1. CASE req.op = "select"
    BY <1>1, <1>2, <2>1 DEF Asked, Pieced
  <2>2. CASE req.op # "select"
    BY <1>1, <1>2, <1>4, <2>2 DEF Pieced
  <2>3. QED
    BY <2>1, <2>2
<1>8. AnswerComes'
  <2>1. \A i \in DOMAIN pending' : Mine(pending[i])' /\ (Last(pending[i])' => i = Len(pending'))
    BY <1>2, <1>4 DEF Mine, Last
  <2>2. \A i \in DOMAIN wire' : Mine(wire[i])' /\ ~Last(wire[i])'
    BY <1>1, <1>2 DEF LineClean, Short, Mine, Last
  <2>3. QED
    BY <1>2, <2>1, <2>2 DEF AnswerComes
<1>9. LineClean' /\ ResultOf'
  BY <1>1, <1>2 DEF LineClean, ResultOf
<1>10. QED
  BY <1>5, <1>6, <1>7, <1>8, <1>9 DEF IInv

\* The answer gathers in the buffer.
LEMMA CmdReadInv ==
  ASSUME IInv, CmdRead, UNCHANGED Port, Undisturbed
  PROVE  IInv'
<1>1. TypeRequest /\ Asked /\ Pieced /\ LineClean /\ AnswerComes
  BY DEF IInv
<1>2. /\ pc = "read" /\ UNCHANGED <<step, req, file, sessions, pending, sel, sent, Port>>
  BY DEF CmdRead, caller
<1>3. PICK k \in Readable \ {0} :
        /\ wire' = SubSeq(wire, k + 1, Len(wire))
        /\ buff' = buff \o SubSeq(wire, 1, k)
        /\ \/ /\ Len(buff') = 3 /\ buff'[3].part = "rest"
              /\ ret' = buff'[3].n /\ ans' = buff'[3] /\ pc' = "returned"
           \/ ret' = -1 /\ pc' = "returned"
           \/ pc' \in {pc, "overrun"} /\ UNCHANGED <<ret, ans>>
  BY DEF CmdRead, Complete, CopyAnswer, CmdReturns
<1>4. /\ k \in 1..Len(wire) /\ k \in 0..Len(wire) /\ Len(wire) \in Nat
      /\ wire \in Seq(OnLine) /\ buff \in Seq(OnLine) /\ ret \in Int
  BY <1>1 DEF Readable, TypeRequest
<1>5. /\ wire' \in Seq(OnLine) /\ Len(wire') = Len(wire) - k
      /\ DOMAIN wire' = 1..(Len(wire) - k)
      /\ \A i \in 1..(Len(wire) - k) : wire'[i] = wire[i + k] /\ i + k \in DOMAIN wire
  <2>1. wire' = SubSeq(wire, k + 1, Len(wire))
    BY <1>3
  <2>2. /\ wire' \in Seq(OnLine) /\ Len(wire') = Len(wire) - k
        /\ \A i \in 1..(Len(wire) - k) : wire'[i] = wire[i + k] /\ i + k \in DOMAIN wire
    BY <1>4, <2>1, Cut
  <2>3. PICK w \in Seq(OnLine) : w = wire'
    BY <2>2
  <2>4. DOMAIN w = 1..Len(w)
    OBVIOUS
  <2>5. DOMAIN wire' = 1..(Len(wire) - k)
    BY <2>2, <2>3, <2>4, Zenon
  <2>6. QED
    BY <2>2, <2>5, Zenon
<1>6. /\ buff' \in Seq(OnLine)
      /\ \A i \in DOMAIN buff' :
           \/ i \in DOMAIN buff /\ buff'[i] = buff[i]
           \/ \E j \in 1..k : j \in DOMAIN wire /\ buff'[i] = wire[j]
  <2>1. buff' = buff \o SubSeq(wire, 1, k)
    BY <1>3
  <2>2. QED
    BY <1>4, <2>1, Gain
<1>7. /\ \A i \in DOMAIN buff : Mine(buff[i]) /\ ~Last(buff[i])
      /\ \A i \in DOMAIN wire : Mine(wire[i]) /\ (Last(wire[i]) => i = Len(wire) /\ pending = <<>>)
      /\ \A i \in DOMAIN pending : Mine(pending[i]) /\ (Last(pending[i]) => i = Len(pending))
  BY <1>1, <1>2, <1>4 DEF AnswerComes
<1>8. \A x : Mine(x)' <=> Mine(x)
  BY <1>2 DEF Mine
<1>9. AnswerComes'
  <2>1. ASSUME NEW i \in DOMAIN buff'
        PROVE  Mine(buff'[i]) /\ (Last(buff'[i]) => wire' = <<>> /\ pending' = <<>>)
    <3>1. CASE i \in DOMAIN buff /\ buff'[i] = buff[i]
      BY <1>7, <3>1
    <3>2. CASE \E j \in 1..k : j \in DOMAIN wire /\ buff'[i] = wire[j]
      <4>1. PICK j \in 1..k : j \in DOMAIN wire /\ buff'[i] = wire[j]
        BY <3>2
      <4>2. Last(wire[j]) => j = Len(wire) /\ k = Len(wire)
        BY <1>4, <1>7, <4>1
      <4>3. k = Len(wire) => wire' = <<>>
        BY <1>4, <1>5
      <4>4. QED
        BY <1>2, <1>7, <4>1, <4>2, <4>3
    <3>3. QED
      BY <1>6, <3>1, <3>2
  <2>2. ASSUME NEW i \in DOMAIN wire'
        PROVE  Mine(wire'[i]) /\ (Last(wire'[i]) => i = Len(wire') /\ pending' = <<>>)
    <3>1. i \in 1..(Len(wire) - k) /\ wire'[i] = wire[i + k] /\ i + k \in DOMAIN wire
      BY <1>5, <2>2
    <3>2. i + k = Len(wire) => i = Len(wire')
      BY <1>4, <1>5, <3>1
    <3>3. QED
      BY <1>2, <1>7, <3>1, <3>2
  <2>3. /\ \A i \in DOMAIN buff' : Mine(buff[i])' /\ (Last(buff[i])' => wire' = <<>> /\ pending' = <<>>)
        /\ \A i \in DOMAIN wire' : Mine(wire[i])' /\ (Last(wire[i])' => i = Len(wire') /\ pending' = <<>>)
    BY <1>2, <2>1, <2>2 DEF Mine, Last
  <2>4. \A i \in DOMAIN pending' : Mine(pending[i])' /\ (Last(pending[i])' => i = Len(pending'))
    BY <1>2, <1>7 DEF Mine, Last
  <2>5. QED
    BY <2>3, <2>4 DEF AnswerComes
<1>10. TypeRequest'
  <2>1. ret' \in Int
    <3>1. CASE Len(buff') = 3 /\ ret' = buff'[3].n
      <4>1. PICK b \in Seq(OnLine) : b = buff'
        BY <1>6
      <4>2. Len(b) = 3 /\ ret' = b[3].n
        BY <3>1, <4>1
      <4>3. b[3].n \in Int
        BY <4>2, Third
      <4>4. QED
        BY <4>2, <4>3
    <3>2. CASE ret' = -1 \/ ret' = ret
      BY <1>4, <3>2
    <3>3. QED
      BY <1>3, <3>1, <3>2
  <2>2. pc' \in {"read", "returned", "overrun"}
    BY <1>2, <1>3
  <2>3. QED
    BY <1>1, <1>2, <1>5, <1>6, <2>1, <2>2 DEF TypeRequest
<1>11. Asked' /\ Pieced'
  BY <1>1, <1>2, <1>3 DEF Asked, Pieced, Talking
<1>12. LineClean'
  BY <1>1, <1>2, <1>3 DEF LineClean
<1>13. ResultOf'
  BY <1>2, <1>3, <1>6 DEF ResultOf
<1>14. QED
  BY <1>9, <1>10, <1>11, <1>12, <1>13 DEF IInv

LEMMA CmdWaitsInv ==
  ASSUME IInv, CmdReadNothing \/ CmdReadFails \/ Tick, UNCHANGED Port, Undisturbed
  PROVE  IInv'
<1>1. TypeRequest /\ Asked /\ Pieced /\ LineClean /\ AnswerComes
  BY DEF IInv
<1>2. /\ pc = "read" /\ ((pc' = "read" /\ ret' = ret) \/ (pc' = "returned" /\ ret' = -1))
      /\ UNCHANGED <<step, req, file, sessions, buff, wire, pending, sel, sent, Port>>
  <2>1. CASE CmdReadNothing
    BY <2>1 DEF CmdReadNothing, CmdReturns, caller, board
  <2>2. CASE CmdReadFails
    <3>1. (pc' = pc /\ ret' = ret) \/ (pc' = "returned" /\ ret' = -1)
      <4>1. CASE TimedOut(secs')
        BY <2>2, <4>1 DEF CmdReadFails, CmdReturns
      <4>2. CASE ~TimedOut(secs') /\ Full(off')
        BY <2>2, <4>2 DEF CmdReadFails, CmdReturns
      <4>3. CASE ~TimedOut(secs') /\ ~Full(off')
        BY <2>2, <4>3 DEF CmdReadFails
      <4>4. QED
        BY <4>1, <4>2, <4>3
    <3>2. pc = "read" /\ UNCHANGED <<caller, buff, board>>
      BY <2>2 DEF CmdReadFails
    <3>3. UNCHANGED <<step, req, file, sessions, buff, wire, pending, sel, sent, Port>>
      BY <3>2 DEF caller, board
    <3>4. (pc' = "read" /\ ret' = ret) \/ (pc' = "returned" /\ ret' = -1)
      BY <3>1, <3>2
    <3>5. QED
      BY <3>2, <3>3, <3>4
  <2>3. CASE Tick
    <3>1. pc = "read" /\ UNCHANGED <<pc, caller, buff, ret, board>>
      BY <2>3 DEF Tick
    <3>2. QED
      BY <3>1 DEF caller, board
  <2>4. QED
    BY <2>1, <2>2, <2>3
<1>3. TypeRequest'
  BY <1>1, <1>2 DEF TypeRequest
<1>4. Asked' /\ Pieced'
  BY <1>1, <1>2 DEF Asked, Pieced, Talking
<1>5. LineClean' /\ ResultOf'
  BY <1>1, <1>2 DEF LineClean, ResultOf
<1>6. AnswerComes'
  BY <1>1, <1>2 DEF AnswerComes, Mine, Last
<1>7. QED
  BY <1>3, <1>4, <1>5, <1>6 DEF IInv

\* The next piece reaches the line.
LEMMA BoardSendsInv ==
  ASSUME IInv, BoardSends, UNCHANGED Port, Undisturbed
  PROVE  IInv'
<1>1. TypeRequest /\ Asked /\ Pieced /\ LineClean /\ AnswerComes /\ ResultOf
  BY DEF IInv
<1>2. /\ pending # <<>> /\ wire' = Append(wire, Head(pending)) /\ pending' = Tail(pending)
      /\ UNCHANGED <<pc, step, req, file, sessions, buff, ret, ans, sel, sent, Port>>
  BY DEF BoardSends, caller, cmd
<1>3. /\ pending' \in Seq(OnLine) /\ 1 \in DOMAIN pending /\ Len(pending) \in Nat
      /\ Len(pending') = Len(pending) - 1 /\ DOMAIN pending' = 1..(Len(pending) - 1)
      /\ \A i \in 1..(Len(pending) - 1) : pending'[i] = pending[i + 1] /\ i + 1 \in DOMAIN pending
  BY <1>1, <1>2 DEF TypeRequest
<1>4. /\ wire' \in Seq(OnLine) /\ Len(wire) \in Nat /\ Len(wire') = Len(wire) + 1
      /\ \A i \in DOMAIN wire' : \/ i \in DOMAIN wire /\ wire'[i] = wire[i]
                                 \/ i = Len(wire') /\ wire'[i] = pending[1]
  <2>1. Head(pending) = pending[1] /\ pending[1] \in OnLine /\ wire \in Seq(OnLine)
    BY <1>1, <1>2 DEF TypeRequest
  <2>2. PICK x \in OnLine : x = pending[1]
    BY <2>1
  <2>3. wire' = Append(wire, x)
    BY <1>2, <2>1, <2>2
  <2>4. QED
    BY <2>1, <2>2, <2>3
<1>5. TypeRequest'
  BY <1>1, <1>2, <1>3, <1>4 DEF TypeRequest
<1>6. Asked' /\ Pieced'
  BY <1>1, <1>2 DEF Asked, Pieced, Talking
<1>7. LineClean'
  <2>1. Short(pending) => Short(pending)'
    BY <1>3 DEF Short
  <2>2. Short(pending) /\ Short(wire) => Short(wire)'
    BY <1>3, <1>4 DEF Short
  <2>3. QED
    BY <1>1, <1>2, <2>1, <2>2 DEF LineClean
<1>8. AnswerComes'
  <2>1. CASE pc \notin {"read", "returned"}
    BY <1>2, <2>1 DEF AnswerComes
  <2>2. CASE pc \in {"read", "returned"}
    <3>1. /\ \A i \in DOMAIN buff : Mine(buff[i]) /\ ~Last(buff[i])
          /\ \A i \in DOMAIN wire : Mine(wire[i]) /\ ~Last(wire[i])
          /\ \A i \in DOMAIN pending : Mine(pending[i]) /\ (Last(pending[i]) => i = Len(pending))
      BY <1>1, <1>2, <2>2 DEF AnswerComes
    <3>2. \A i \in DOMAIN wire' :
            Mine(wire'[i]) /\ (Last(wire'[i]) => i = Len(wire') /\ pending' = <<>>)
      <4>1. Last(pending[1]) => pending' = <<>>
        BY <1>3, <3>1
      <4>2. QED
        BY <1>3, <1>4, <3>1, <4>1
    <3>3. \A i \in DOMAIN pending' :
            Mine(pending'[i]) /\ (Last(pending'[i]) => i = Len(pending'))
      BY <1>3, <3>1
    <3>4. /\ \A i \in DOMAIN buff' : Mine(buff[i])' /\ ~Last(buff[i])'
          /\ \A i \in DOMAIN wire' :
               Mine(wire[i])' /\ (Last(wire[i])' => i = Len(wire') /\ pending' = <<>>)
          /\ \A i \in DOMAIN pending' :
               Mine(pending[i])' /\ (Last(pending[i])' => i = Len(pending'))
      BY <1>2, <3>1, <3>2, <3>3 DEF Mine, Last
    <3>5. QED
      BY <3>4 DEF AnswerComes
  <2>3. QED
    BY <2>1, <2>2
<1>9. ResultOf'
  BY <1>1, <1>2 DEF ResultOf
<1>10. QED
  BY <1>5, <1>6, <1>7, <1>8, <1>9 DEF IInv

\* What is known of an answer that the caller accepts.
LEMMA Accepted ==
  ASSUME IInv, Undisturbed, pc = "returned", Accepts(req, ret)
  PROVE  /\ ans.id = sent /\ wire = <<>> /\ pending = <<>>
         /\ req.op = "read" =>
              /\ sel \in FilesOfCard /\ ans.name = sel /\ ans.at = req.at
              /\ ret - 2 \in 1..req.left /\ (ret - 2 # req.left => ret - 2 = CHUNK)
<1>1. TypeRequest /\ Asked /\ AnswerComes /\ ResultOf
  BY DEF IInv
<1>2. /\ req.op \in {"cmd", "select", "read"} /\ ret \in Int /\ req.left \in Nat
      /\ req.op = "read" => req.left > 0
  BY <1>1 DEF Asked, Talking, TypeRequest
<1>3. /\ ret # -1
      /\ req.op = "read" => /\ ret - 2 \in 1..req.left /\ (ret - 2 # req.left => ret - 2 = CHUNK)
                            /\ ret # 2
  <2>1. CASE req.op = "read"
    <3>1. ret = RdLen(req.left) + 2
      BY <2>1 DEF Accepts, Want
    <3>2. PICK left \in Nat : left = req.left /\ left > 0
      BY <1>2, <2>1
    <3>3. ret = (IF left > 112 THEN 112 ELSE left) + 2
      BY <3>1, <3>2 DEF RdLen, CHUNK
    <3>4. /\ ret # -1 /\ ret # 2 /\ ret - 2 \in 1..left
          /\ ret - 2 # left => ret - 2 = 112
      BY <1>2, <3>2, <3>3
    <3>5. QED
      BY <3>2, <3>4 DEF CHUNK
  <2>2. CASE req.op # "read"
    <3>1. CASE req.op = "cmd"
      BY <1>2, <3>1 DEF Accepts
    <3>2. CASE req.op = "select"
      BY <1>2, <3>2 DEF Accepts
    <3>3. QED
      BY <1>2, <2>2, <3>1, <3>2
  <2>3. QED
    BY <2>1, <2>2
<1>4. 3 \in DOMAIN buff /\ ans = buff[3] /\ ans.part = "rest" /\ ret = ans.n
  BY <1>1, <1>3 DEF ResultOf
<1>5. Mine(ans) /\ (Last(ans) => wire = <<>> /\ pending = <<>>)
  BY <1>1, <1>4 DEF AnswerComes
<1>6. /\ ans.id = sent /\ wire = <<>> /\ pending = <<>> /\ ans.at = req.at
      /\ req.op = "read" => ans.name = sel /\ sel # "mf"
  BY <1>3, <1>4, <1>5 DEF Mine, Last
<1>7. sel \in Selected
  BY <1>1 DEF TypeRequest
<1>8. QED
  BY <1>3, <1>6, <1>7 DEF Selected

\* A command that is not a read was answered.
LEMMA AnsweredInv ==
  ASSUME IInv, CommandDone, req.op # "read", UNCHANGED Port, Undisturbed
  PROVE  IInv'
<1>1. TypeRequest /\ Asked /\ Pieced
  BY DEF IInv
<1>2. /\ pc = "returned" /\ Accepts(req, ret) /\ file' = file
      /\ pc' = IF req.op = "cmd" \/ req'.left = 0 THEN "ready" ELSE "write"
      /\ buff' = <<>> /\ ret' = 0
      /\ UNCHANGED <<step, sessions, wire, pending, sel, sent, Port>>
  BY DEF CommandDone, NoLocals, board
<1>3. /\ req \in [op : Ops, name : Names, len : Nat, left : Nat, at : Nat]
      /\ req.op \in {"cmd", "select"} /\ file = <<>>
      /\ req.op = "select" => req.len \in FileLens /\ req.left = req.len /\ req.at = 0
  BY <1>1, <1>2 DEF TypeRequest, Asked, Talking
<1>4. /\ req' \in [op : Ops, name : Names, len : Nat, left : Nat, at : Nat]
      /\ \/ req' = NoReq /\ pc' = "ready"
         \/ /\ pc' = "write" /\ req'.op = "read" /\ req'.left > 0 /\ req'.at = 0
            /\ req'.len \in FileLens /\ req'.left = req'.len
  <2>1. CASE req.op = "cmd"
    <3>1. req' = NoReq
      BY <2>1 DEF CommandDone
    <3>2. QED
      BY <1>2, <2>1, <3>1 DEF NoReq, Ops, Names
  <2>2. CASE req.op = "select"
    <3>1. req' = [req EXCEPT !.op = "read"]
      BY <2>2 DEF CommandDone
    <3>2. /\ req' \in [op : Ops, name : Names, len : Nat, left : Nat, at : Nat]
          /\ req'.op = "read" /\ req'.left = req.left /\ req'.len = req.len /\ req'.at = req.at
      BY <1>3, <3>1 DEF Ops
    <3>3. req'.left > 0
      BY <1>3, <2>2, <3>2, LensAssumption
    <3>4. QED
      BY <1>2, <1>3, <2>2, <3>2, <3>3
  <2>3. QED
    BY <1>3, <2>1, <2>2
<1>5. TypeRequest'
  BY <1>1, <1>2, <1>4 DEF TypeRequest
<1>6. Asked'
  BY <1>2, <1>3, <1>4, LensAssumption DEF Asked, Talking, NoReq
<1>7. Pieced'
  <2>1. file' = <<>> /\ Len(file') = 0 /\ DOMAIN file' = {}
    BY <1>2, <1>3
  <2>2. QED
    BY <1>4, <2>1 DEF Pieced, CHUNK, NoReq
<1>8. wire = <<>> /\ pending = <<>>
  BY <1>2, Accepted
<1>9. LineClean'
  <2>1. sessions # 0
    BY <1>2 DEF IInv, LineClean
  <2>2. Short(wire)' /\ Short(pending)' /\ pc' \in {"ready", "write"}
    BY <1>2, <1>4, <1>8 DEF Short
  <2>3. QED
    BY <1>2, <2>1, <2>2 DEF LineClean
<1>10. AnswerComes' /\ ResultOf'
  BY <1>4 DEF AnswerComes, ResultOf
<1>11. QED
  BY <1>5, <1>6, <1>7, <1>9, <1>10 DEF IInv

\* What a further chunk makes of the file and of the request.
LEMMA Chunk ==
  ASSUME IInv, CommandDone, req.op = "read", Undisturbed
  PROVE  \E n \in 1..req.left, e \in [at : Nat, n : Int, name : Names] :
           /\ e.at = req.at /\ e.n = n /\ e.name = sel /\ sel \in FilesOfCard
           /\ n # req.left => n = CHUNK
           /\ file' = Append(file, e) /\ file \in Seq([at : Nat, n : Int, name : Names])
           /\ req' \in [op : Ops, name : Names, len : Nat, left : Nat, at : Nat]
           /\ req'.op = "read" /\ req'.len = req.len
           /\ req'.left = req.left - n /\ req'.at = req.at + n
<1>1. /\ sel \in FilesOfCard /\ ans.name = sel /\ ans.at = req.at
      /\ ret - 2 \in 1..req.left /\ (ret - 2 # req.left => ret - 2 = CHUNK)
  <2>1. pc = "returned" /\ Accepts(req, ret)
    BY DEF CommandDone
  <2>2. QED
    BY <2>1, Accepted
<1>2. /\ req \in [op : Ops, name : Names, len : Nat, left : Nat, at : Nat]
      /\ file \in Seq([at : Nat, n : Int, name : Names])
  BY DEF IInv, TypeRequest
<1>3. PICK n \in 1..req.left : n = ret - 2
  BY <1>1
<1>4. n \in Int /\ req.left - n \in Nat /\ req.at + n \in Nat
  BY <1>2, <1>3
<1>5. PICK e : e = [at |-> req.at, n |-> n, name |-> sel]
  OBVIOUS
<1>6. e \in [at : Nat, n : Int, name : Names] /\ e.at = req.at /\ e.n = n /\ e.name = sel
  BY <1>1, <1>2, <1>4, <1>5 DEF Names
<1>7. file' = Append(file, e)
  BY <1>1, <1>3, <1>5 DEF CommandDone
<1>8. req' = [req EXCEPT !.left = @ - n, !.at = @ + n]
  BY <1>3 DEF CommandDone
<1>9. /\ req' \in [op : Ops, name : Names, len : Nat, left : Nat, at : Nat]
      /\ req'.op = "read" /\ req'.len = req.len
      /\ req'.left = req.left - n /\ req'.at = req.at + n
  BY <1>2, <1>4, <1>8
<1>10. QED
  BY <1>1, <1>2, <1>3, <1>6, <1>7, <1>9

\* A chunk was read.
LEMMA ChunkInv ==
  ASSUME IInv, CommandDone, req.op = "read", UNCHANGED Port, Undisturbed
  PROVE  IInv'
<1>1. TypeRequest /\ Asked /\ Pieced
  BY DEF IInv
<1>2. /\ pc = "returned" /\ Accepts(req, ret)
      /\ pc' = IF req'.left = 0 THEN "ready" ELSE "write"
      /\ buff' = <<>> /\ ret' = 0
      /\ UNCHANGED <<step, sessions, wire, pending, sel, sent, Port>>
  BY DEF CommandDone, NoLocals, board
<1>3. PICK n \in 1..req.left, e \in [at : Nat, n : Int, name : Names] :
        /\ e.at = req.at /\ e.n = n /\ e.name = sel /\ sel \in FilesOfCard
        /\ n # req.left => n = CHUNK
        /\ file' = Append(file, e) /\ file \in Seq([at : Nat, n : Int, name : Names])
        /\ req' \in [op : Ops, name : Names, len : Nat, left : Nat, at : Nat]
        /\ req'.op = "read" /\ req'.len = req.len
        /\ req'.left = req.left - n /\ req'.at = req.at + n
  BY Chunk
<1>4. /\ req.left \in Nat /\ req.at \in Nat /\ req.left > 0 /\ req.len \in FileLens
      /\ req.at + req.left = req.len /\ req.at = Len(file) * CHUNK
  BY <1>1, <1>2 DEF TypeRequest, Asked, Talking, Pieced
<1>5. /\ file' \in Seq([at : Nat, n : Int, name : Names]) /\ file' # <<>>
      /\ Len(file) \in Nat /\ Len(file') = Len(file) + 1 /\ file'[Len(file')] = e
      /\ \A i \in DOMAIN file' : \/ i \in DOMAIN file /\ file'[i] = file[i]
                                 \/ i = Len(file') /\ file'[i] = e
  BY <1>3
<1>6. TypeRequest'
  BY <1>1, <1>2, <1>3, <1>5 DEF TypeRequest
<1>7. Asked'
  <2>1. req'.at + req'.left = req'.len
    BY <1>3, <1>4
  <2>2. req'.left \in Nat
    BY <1>3
  <2>3. QED
    BY <1>2, <1>3, <1>4, <2>1, <2>2 DEF Asked, Talking
<1>8. Pieced'
  <2>1. \A i \in DOMAIN file' : file'[i].at = (i - 1) * CHUNK /\ file'[i].name = sel
    <3>1. \A i \in DOMAIN file : file[i].at = (i - 1) * CHUNK /\ file[i].name = sel
      BY <1>1 DEF Pieced
    <3>2. e.at = (Len(file') - 1) * CHUNK
      BY <1>3, <1>4, <1>5 DEF CHUNK
    <3>3. QED
      BY <1>3, <1>5, <3>1, <3>2
  <2>2. req'.left > 0 => req'.at = Len(file') * CHUNK
    <3>1. req'.left > 0 => n = CHUNK
      BY <1>3, <1>4
    <3>2. PICK l \in Nat : l = Len(file)
      BY <1>5
    <3>3. req'.at = l * 112 + n /\ Len(file') = l + 1
      BY <1>3, <1>4, <1>5, <3>2 DEF CHUNK
    <3>4. l * 112 + 112 = (l + 1) * 112
      BY <3>2
    <3>5. QED
      BY <3>1, <3>3, <3>4 DEF CHUNK
  <2>3. req'.at = file'[Len(file')].at + file'[Len(file')].n
    BY <1>3, <1>5
  <2>4. QED
    BY <1>2, <1>3, <1>5, <2>1, <2>2, <2>3 DEF Pieced
<1>9. wire = <<>> /\ pending = <<>>
  BY <1>2, Accepted
<1>10. LineClean'
  <2>1. sessions # 0
    BY <1>2 DEF IInv, LineClean
  <2>2. Short(wire)' /\ Short(pending)' /\ pc' \in {"ready", "write"}
    BY <1>2, <1>9 DEF Short
  <2>3. QED
    BY <1>2, <2>1, <2>2 DEF LineClean
<1>11. AnswerComes' /\ ResultOf'
  BY <1>2 DEF AnswerComes, ResultOf
<1>12. QED
  BY <1>6, <1>7, <1>8, <1>10, <1>11 DEF IInv

-----------------------------------------------------------------------------
(* Induction over a set of numbers                                         *)

Less == {p \in Nat \X Nat : p[1] < p[2]}

\* A set of numbers has a least one.
LEMMA Least == ASSUME NEW T, T \subseteq Nat, T # {}
               PROVE  \E x \in T : \A y \in T : x <= y
<1>1. IsWellFoundedOn(Less, Nat)
  BY NatLessThanWellFounded DEF OpToRel, Less
<1>2. PICK x \in T : \A y \in T : <<y, x>> \notin Less
  BY <1>1, WFMin
<1>3. \A y \in T : ~(y < x)
  BY <1>2 DEF Less
<1>4. QED
  BY <1>3

\* A set that has zero and, with a number, the next one has every number.
LEMMA Induction == ASSUME NEW S, 0 \in S, \A n \in Nat : n \in S => n + 1 \in S
                   PROVE  Nat \subseteq S
<1>1. SUFFICES ASSUME Nat \ S # {} PROVE FALSE
  OBVIOUS
<1>2. PICK x \in Nat \ S : \A y \in Nat \ S : x <= y
  BY <1>1, Least
<1>3. x # 0 /\ x - 1 \in Nat
  BY <1>2
<1>4. x - 1 \in S
  BY <1>2, <1>3
<1>5. QED
  BY <1>2, <1>3, <1>4

-----------------------------------------------------------------------------
(* Bytes adds the sizes up                                                 *)

\* A piece in a buffer, of a size that is known.
LEMMA SizeType == ASSUME NEW p \in OnLine PROVE Size(p) \in Int
BY DEF OnLine, Size

\* g adds up the sizes of the first pieces of b.
Sums(g, b) == g = [i \in 0..Len(b) |-> IF i = 0 THEN 0 ELSE g[i - 1] + Size(b[i])]

\* At most one function does.
LEMMA OneSum ==
  ASSUME NEW b \in Seq(OnLine), NEW g, NEW h, Sums(g, b), Sums(h, b)
  PROVE  g = h
<1> DEFINE S == {i \in Nat : i <= Len(b) => g[i] = h[i]}
<1>1. Len(b) \in Nat
  OBVIOUS
<1>2. /\ \A i \in 0..Len(b) : g[i] = IF i = 0 THEN 0 ELSE g[i - 1] + Size(b[i])
      /\ \A i \in 0..Len(b) : h[i] = IF i = 0 THEN 0 ELSE h[i - 1] + Size(b[i])
  BY DEF Sums
<1>3. 0 \in S
  BY <1>1, <1>2
<1>4. ASSUME NEW n \in Nat, n \in S PROVE n + 1 \in S
  BY <1>1, <1>2, <1>4
<1>5. Nat \subseteq S
  <2> HIDE DEF S
  <2> QED  BY <1>3, <1>4, Induction
<1>6. \A i \in 0..Len(b) : g[i] = h[i]
  BY <1>1, <1>5
<1>7. QED
  BY <1>6 DEF Sums

\* The functions that do it for the first n.
Parts(n, b) == {g \in [0..n -> Int] :
                  g = [i \in 0..n |-> IF i = 0 THEN 0 ELSE g[i - 1] + Size(b[i])]}

\* One does.
LEMMA SomeSum ==
  ASSUME NEW b \in Seq(OnLine)
  PROVE  \E g \in [0..Len(b) -> Int] : Sums(g, b)
<1> DEFINE S == {n \in Nat : n <= Len(b) => Parts(n, b) # {}}
<1>1. Len(b) \in Nat /\ \A i \in 1..Len(b) : Size(b[i]) \in Int
  BY SizeType
<1>2. 0 \in S
  <2>1. [i \in 0..0 |-> 0] \in Parts(0, b)
    BY DEF Parts
  <2>2. QED
    BY <2>1
<1>3. ASSUME NEW n \in Nat, n \in S PROVE n + 1 \in S
  <2>1. SUFFICES ASSUME n + 1 <= Len(b) PROVE Parts(n + 1, b) # {}
    OBVIOUS
  <2>2. PICK g : g \in Parts(n, b)
    BY <1>1, <1>3, <2>1
  <2>3. PICK h : h = [i \in 0..(n + 1) |-> IF i <= n THEN g[i] ELSE g[n] + Size(b[n + 1])]
    OBVIOUS
  <2>4. /\ g \in [0..n -> Int]
        /\ \A i \in 0..n : g[i] = IF i = 0 THEN 0 ELSE g[i - 1] + Size(b[i])
    BY <2>2 DEF Parts
  <2>5. Size(b[n + 1]) \in Int
    BY <1>1, <2>1
  <2>6. h \in [0..(n + 1) -> Int]
    BY <2>3, <2>4, <2>5
  <2>7. ASSUME NEW i \in 0..(n + 1)
        PROVE  h[i] = IF i = 0 THEN 0 ELSE h[i - 1] + Size(b[i])
    <3>1. CASE i <= n
      <4>1. i \in 0..n /\ (i # 0 => i - 1 \in 0..n /\ i - 1 \in 0..(n + 1))
        BY <3>1
      <4>2. h[i] = g[i] /\ (i # 0 => h[i - 1] = g[i - 1])
        BY <2>3, <3>1, <4>1
      <4>3. QED
        BY <2>4, <4>1, <4>2
    <3>2. CASE i = n + 1
      BY <2>3, <3>2
    <3>3. QED
      BY <3>1, <3>2
  <2>8. h \in Parts(n + 1, b)
    BY <2>6, <2>7, <2>3 DEF Parts
  <2>9. QED
    BY <2>8
<1>4. Nat \subseteq S
  <2> HIDE DEF S
  <2> QED  BY <1>2, <1>3, Induction
<1>5. Len(b) \in S
  BY <1>1, <1>4
<1>6. Parts(Len(b), b) # {}
  BY <1>1, <1>5
<1>7. QED
  BY <1>6 DEF Sums, Parts

\* Bytes is what such a function ends with.
LEMMA BytesSum ==
  ASSUME NEW b \in Seq(OnLine), NEW g, Sums(g, b)
  PROVE  Bytes(b) = g[Len(b)]
<1>1. PICK f : f = CHOOSE h : h = [i \in 0..Len(b) |->
                                     IF i = 0 THEN 0 ELSE h[i - 1] + Size(b[i])]
  OBVIOUS
<1>2. Sums(f, b)
  BY <1>1 DEF Sums
<1>3. Bytes(b) = f[Len(b)]
  BY <1>1 DEF Bytes
<1>4. QED
  BY <1>2, <1>3, OneSum

LEMMA BytesType == ASSUME NEW b \in Seq(OnLine) PROVE Bytes(b) \in Int
BY SomeSum, BytesSum

\* The bytes of two buffers, one after the other.
LEMMA BytesCat ==
  ASSUME NEW b \in Seq(OnLine), NEW c \in Seq(OnLine)
  PROVE  Bytes(b \o c) = Bytes(b) + Bytes(c)
<1>1. PICK g \in [0..Len(b) -> Int] : Sums(g, b)
  BY SomeSum
<1>2. PICK h \in [0..Len(c) -> Int] : Sums(h, c)
  BY SomeSum
<1>3. PICK m \in Nat, n \in Nat : m = Len(b) /\ n = Len(c)
  OBVIOUS
<1>4. PICK d \in Seq(OnLine) : d = b \o c
  OBVIOUS
<1>5. /\ Len(d) = m + n
      /\ \A i \in 1..m : d[i] = b[i]
      /\ \A i \in (m + 1)..(m + n) : d[i] = c[i - m]
  BY <1>3, <1>4
<1>6. PICK s : s = [i \in 0..(m + n) |-> IF i <= m THEN g[i] ELSE g[m] + h[i - m]]
  OBVIOUS
<1>7. /\ \A i \in 0..m : g[i] = IF i = 0 THEN 0 ELSE g[i - 1] + Size(b[i])
      /\ \A i \in 0..n : h[i] = IF i = 0 THEN 0 ELSE h[i - 1] + Size(c[i])
      /\ g \in [0..m -> Int] /\ h \in [0..n -> Int]
  BY <1>1, <1>2, <1>3 DEF Sums
<1>8. ASSUME NEW i \in 0..(m + n)
      PROVE  s[i] = IF i = 0 THEN 0 ELSE s[i - 1] + Size(d[i])
  <2>1. CASE i = 0
    BY <1>6, <1>7, <2>1
  <2>2. CASE i > 0 /\ i <= m
    <3>1. i \in 1..m /\ i \in 0..m /\ i - 1 \in 0..m /\ i - 1 \in 0..(m + n) /\ i - 1 <= m
      BY <2>2
    <3>2. s[i] = g[i] /\ s[i - 1] = g[i - 1] /\ d[i] = b[i]
      BY <1>5, <1>6, <2>2, <3>1
    <3>3. QED
      BY <1>7, <2>2, <3>1, <3>2
  <2>3. CASE i > m
    <3>1. /\ i \in (m + 1)..(m + n) /\ i - m \in 1..n /\ i - m \in 0..n
          /\ i - m - 1 \in 0..n /\ i - 1 \in 0..(m + n) /\ i # 0
      BY <2>3
    <3>2. s[i] = g[m] + h[i - m] /\ d[i] = c[i - m]
      BY <1>5, <1>6, <2>3, <3>1
    <3>3. h[i - m] = h[i - m - 1] + Size(c[i - m])
      BY <1>7, <3>1
    <3>4. s[i - 1] = g[m] + h[i - m - 1]
      <4>1. CASE i - 1 > m
        BY <1>6, <3>1, <4>1
      <4>2. CASE i - 1 = m
        <5>1. s[i - 1] = g[m] /\ h[i - m - 1] = 0
          BY <1>6, <1>7, <3>1, <4>2
        <5>2. g[m] \in Int
          BY <1>7
        <5>3. QED
          BY <5>1, <5>2
      <4>3. QED
        BY <2>3, <4>1, <4>2
    <3>5. g[m] \in Int /\ h[i - m - 1] \in Int /\ Size(d[i]) \in Int
      BY <1>5, <1>7, <3>1, SizeType
    <3>6. QED
      BY <3>1, <3>2, <3>3, <3>4, <3>5
  <2>4. QED
    BY <2>1, <2>2, <2>3
<1>9. Sums(s, d)
  BY <1>5, <1>6, <1>8 DEF Sums
<1>10. Bytes(d) = s[m + n] /\ Bytes(b) = g[m] /\ Bytes(c) = h[n]
  BY <1>1, <1>2, <1>3, <1>5, <1>9, BytesSum
<1>11. s[m + n] = g[m] + h[n]
  <2>1. CASE n = 0
    <3>1. s[m + n] = g[m] /\ h[n] = 0 /\ g[m] \in Int
      BY <1>6, <1>7, <2>1
    <3>2. QED
      BY <3>1
  <2>2. CASE n > 0
    BY <1>3, <1>6, <1>7, <2>2
  <2>3. QED
    BY <2>1, <2>2
<1>12. QED
  BY <1>4, <1>10, <1>11

LEMMA BytesNone == Bytes(<<>>) = 0
<1>1. <<>> \in Seq(OnLine) /\ Len(<<>>) = 0
  OBVIOUS
<1>2. PICK g \in [0..Len(<<>>) -> Int] : Sums(g, <<>>)
  BY <1>1, SomeSum
<1>3. g[0] = 0
  BY <1>1, <1>2 DEF Sums
<1>4. QED
  BY <1>1, <1>2, <1>3, BytesSum

LEMMA BytesOne == ASSUME NEW p \in OnLine PROVE Bytes(<<p>>) = Size(p)
<1>1. <<p>> \in Seq(OnLine) /\ Len(<<p>>) = 1 /\ <<p>>[1] = p
  OBVIOUS
<1>2. PICK g \in [0..Len(<<p>>) -> Int] : Sums(g, <<p>>)
  BY <1>1, SomeSum
<1>3. g[0] = 0 /\ g[1] = g[0] + Size(p)
  BY <1>1, <1>2 DEF Sums
<1>4. QED
  <2>1. Bytes(<<p>>) = g[1]
    BY <1>1, <1>2, BytesSum
  <2>2. Size(p) \in Int
    BY SizeType
  <2>3. QED
    BY <1>3, <2>1, <2>2

\* What arrives is never longer than nothing.
LEMMA PieceFacts == ASSUME NEW p \in Pieces
                    PROVE  /\ p \in OnLine /\ Size(p) \in Nat /\ p.n \in -1..(CHUNK + 2)
                           /\ p.part # "head" => Size(p) > 4
                           /\ Size(p) <= IF p.part = "rest" THEN 6 + p.n ELSE 6
BY DEF Pieces, OnLine, Size, CHUNK

LEMMA PiecesOnLine == Seq(Pieces) \subseteq Seq(OnLine)
BY PieceFacts

LEMMA BytesNat == ASSUME NEW b \in Seq(Pieces) PROVE Bytes(b) \in Nat
<1>1. b \in Seq(OnLine) /\ Len(b) \in Nat
  BY PiecesOnLine
<1>2. PICK g \in [0..Len(b) -> Int] : Sums(g, b)
  BY <1>1, SomeSum
<1> DEFINE S == {i \in Nat : i <= Len(b) => g[i] \in Nat}
<1>3. \A i \in 0..Len(b) : g[i] = IF i = 0 THEN 0 ELSE g[i - 1] + Size(b[i])
  BY <1>2 DEF Sums
<1>4. 0 \in S
  BY <1>1, <1>3
<1>5. ASSUME NEW n \in Nat, n \in S PROVE n + 1 \in S
  <2>1. SUFFICES ASSUME n + 1 <= Len(b) PROVE g[n + 1] \in Nat
    OBVIOUS
  <2>2. g[n + 1] = g[n] + Size(b[n + 1])
    BY <1>1, <1>3, <2>1
  <2>3. g[n] \in Nat /\ b[n + 1] \in Pieces
    BY <1>1, <1>5, <2>1
  <2>4. QED
    BY <2>2, <2>3, PieceFacts
<1>6. Nat \subseteq S
  <2> HIDE DEF S
  <2> QED  BY <1>4, <1>5, Induction
<1>7. g[Len(b)] \in Nat
  BY <1>1, <1>6
<1>8. QED
  BY <1>1, <1>2, <1>7, BytesSum

\* A line that is read in two parts.
LEMMA BytesCut ==
  ASSUME NEW s \in Seq(Pieces), NEW k \in 0..Len(s)
  PROVE  /\ SubSeq(s, 1, k) \in Seq(Pieces) /\ SubSeq(s, k + 1, Len(s)) \in Seq(Pieces)
         /\ Bytes(s) = Bytes(SubSeq(s, 1, k)) + Bytes(SubSeq(s, k + 1, Len(s)))
<1>1. PICK a, c : a = SubSeq(s, 1, k) /\ c = SubSeq(s, k + 1, Len(s))
  OBVIOUS
<1>2. a \in Seq(Pieces) /\ c \in Seq(Pieces) /\ a \in Seq(OnLine) /\ c \in Seq(OnLine)
  BY <1>1, PiecesOnLine
<1>3. s = a \o c
  <2>1. Len(a) = k /\ Len(c) = Len(s) - k /\ Len(s) \in Nat
    BY <1>1
  <2>2. Len(a \o c) = Len(s) /\ a \o c \in Seq(Pieces)
    BY <1>2, <2>1
  <2>3. ASSUME NEW i \in 1..Len(s) PROVE s[i] = (a \o c)[i]
    <3>1. CASE i <= k
      <4>1. (a \o c)[i] = a[i]
        BY <1>2, <2>1, <3>1
      <4>2. a[i] = s[1 + i - 1]
        BY <1>1, <2>1, <3>1
      <4>3. QED
        BY <4>1, <4>2
    <3>2. CASE i > k
      <4>1. (a \o c)[i] = c[i - k]
        BY <1>2, <2>1, <3>2
      <4>2. c[i - k] = s[k + 1 + (i - k) - 1]
        BY <1>1, <2>1, <3>2
      <4>3. k + 1 + (i - k) - 1 = i
        BY <2>1
      <4>4. QED
        BY <4>1, <4>2, <4>3
    <3>3. QED
      BY <2>1, <3>1, <3>2
  <2>4. QED
    BY <2>2, <2>3, SeqEqual
<1>4. Bytes(s) = Bytes(a) + Bytes(c)
  BY <1>2, <1>3, BytesCat
<1>5. QED
  BY <1>1, <1>2, <1>4

\* The next piece moves from the board to the line.
LEMMA BytesMove ==
  ASSUME NEW w \in Seq(Pieces), NEW q \in Seq(Pieces), q # <<>>
  PROVE  /\ Append(w, Head(q)) \in Seq(Pieces) /\ Tail(q) \in Seq(Pieces)
         /\ Bytes(Append(w, Head(q))) + Bytes(Tail(q)) = Bytes(w) + Bytes(q)
         /\ Bytes(Tail(q)) <= Bytes(q)
<1>1. PICK p \in Pieces, t \in Seq(Pieces) : p = Head(q) /\ t = Tail(q)
  <2>1. Head(q) \in Pieces
    OBVIOUS
  <2>2. Tail(q) \in Seq(Pieces)
    OBVIOUS
  <2>3. QED
    BY <2>1, <2>2
<1>2. Append(w, p) = w \o <<p>> /\ q = <<p>> \o t /\ <<p>> \in Seq(OnLine)
  <2>1. Append(w, p) = w \o <<p>>
    OBVIOUS
  <2>2. q = <<p>> \o t
    BY <1>1
  <2>3. <<p>> \in Seq(OnLine)
    BY PieceFacts
  <2>4. QED
    BY <2>1, <2>2, <2>3
<1>3. w \in Seq(OnLine) /\ t \in Seq(OnLine)
  BY PiecesOnLine
<1>4. Bytes(Append(w, p)) = Bytes(w) + Size(p) /\ Bytes(q) = Size(p) + Bytes(t)
  BY <1>2, <1>3, BytesCat, BytesOne, PieceFacts
<1>5. Size(p) \in Nat /\ Bytes(w) \in Nat /\ Bytes(t) \in Nat
  BY BytesNat, PieceFacts
<1>6. Append(w, p) \in Seq(Pieces)
  OBVIOUS
<1>7. QED
  BY <1>1, <1>4, <1>5, <1>6

-----------------------------------------------------------------------------
(* Types                                                                   *)

\* Every variable has its type and CmdRequest's reads start inside its
\* buffer, whatever is on the line.
TypeCaller ==
  /\ Port \in Ports
  /\ pc \in {"closed", "init", "initread", "ready", "write", "read", "returned",
            "overrun"}
  /\ step \in Nat /\ step <= INITSTEPS + 1
  /\ pc \in {"init", "initread"} => step > 0 /\ step <= INITSTEPS
  /\ file \in Seq([at : Nat, n : 1..CHUNK, name : Names])
  /\ sessions \in Nat /\ sessions <= MaxSessions[Port]
  /\ requests \in Nat /\ requests <= MaxRequests[Port]
TypeLine ==
  wire \in Seq(Pieces) /\ pending \in Seq(Pieces) /\ sel \in Selected /\ sent \in Nat
TypeCmd ==
  /\ buff \in Seq(Pieces) /\ ans \in Pieces
  /\ ret \in -1..(CHUNK + 2)
  /\ why \in {"none", "answer", "checksum", "timeout", "full"}
  /\ off \in Int /\ (pc = "read" => 0 <= off /\ off < BUFFSIZE)
  /\ pc \notin {"read", "returned", "overrun"} => off = 0
  /\ secs \in Nat /\ secs <= RECV_TIMEOUT
  /\ pc = "read" /\ Port = "otg" => secs < RECV_TIMEOUT
TypeInv == TypeCaller /\ TypeLine /\ TypeCmd /\ drained \in BOOLEAN

\* The request, for which alone the types of the answers matter.
AskInv == req \in Requests /\ Asked

\* How much there is on the line, and in the buffer, at most: three pieces of
\* InitNFC's answers to each of its steps, of which a port leaves the last;
\* the longest answer when a chunk is read.
Waiting == Bytes(wire) + Bytes(pending)
RoomInv ==
  /\ off <= 130
  /\ pc = "init" /\ (Port = "otg" \/ step > 1) => Waiting <= 15 * (step - 1)
  /\ pc = "initread" => Bytes(pending) <= 15
  /\ pc = "initread" /\ (Port = "otg" \/ step > 1) => Waiting <= 15 * step
  /\ pc \in {"ready", "write"} => Waiting <= 75
  /\ pc = "write" /\ req.op = "read" => Waiting = 0
  /\ pc = "read" => off <= Bytes(buff) /\ Bytes(buff) + Waiting <= 130

\* The length of a chunk that the caller accepts.
LEMMA TakenChunk ==
  ASSUME AskInv, ret \in Int, pc = "returned", req.op = "read", Accepts(req, ret)
  PROVE  ret - 2 \in 1..req.left /\ ret - 2 \in 1..CHUNK
<1>1. PICK left \in Nat : left = req.left /\ left > 0
  BY DEF AskInv, Asked, Talking, Requests
<1>2. ret = (IF left > 112 THEN 112 ELSE left) + 2
  BY <1>1 DEF Accepts, Want, RdLen, CHUNK
<1>3. QED
  BY <1>1, <1>2 DEF CHUNK

LEMMA WrittenPieces ==
  ASSUME NEW r \in Requests, r.op = "select" => r.name \in FilesOfCard,
         sel \in Selected, sent \in Nat, WriteCommand(r)
  PROVE  /\ sent' \in Nat /\ sel' \in Selected /\ pending' \in Seq(Pieces)
         /\ Bytes(pending') <= CASE r.op = "init" -> 15 [] r.op = "read" -> 130 [] OTHER -> 18
<1>1. PICK n \in Answers(r) :
        pending' = AnswerOf(sent + 1, n, [r EXCEPT !.name =
                              IF r.op = "read" THEN sel ELSE r.name])
  BY DEF WriteCommand
<1>2. /\ n \in Int /\ -1 <= n /\ n <= 114
      /\ r.op = "init" => n = -1
      /\ r.op # "init" /\ r.op # "read" => n <= 2
  <2>1. Want(r) \in Int /\ 2 <= Want(r) /\ Want(r) <= 114 /\ (r.op # "read" => Want(r) = 2)
    BY DEF Want, RdLen, CHUNK, Requests
  <2>2. CASE r.op = "init"
    BY <2>2 DEF Answers
  <2>3. CASE r.op # "init"
    <3>1. n \in {Want(r), 0, 2}
      BY <2>3 DEF Answers
    <3>2. QED
      BY <2>1, <2>3, <3>1
  <2>4. QED
    BY <2>2, <2>3
<1>3. PICK q : q = [r EXCEPT !.name = IF r.op = "read" THEN sel ELSE r.name]
  OBVIOUS
<1>4. q.at \in Nat /\ q.name \in Names
  BY <1>3 DEF Requests, Selected, Names
<1>5. PICK a, h, e : /\ a = Piece(sent + 1, "ack", n, q) /\ h = Piece(sent + 1, "head", n, q)
                     /\ e = Piece(sent + 1, "rest", n, q)
  OBVIOUS
<1>6. n \in -1..(CHUNK + 2)
  BY <1>2 DEF CHUNK
<1>7. a \in Pieces /\ h \in Pieces /\ e \in Pieces
  BY <1>4, <1>5, <1>6 DEF Piece, Pieces
<1>8. Size(a) = 6 /\ Size(h) = 4 /\ Size(e) = 6 + n
  BY <1>5 DEF Piece, Size
<1>9. pending' = <<a, h, e>>
  BY <1>1, <1>3, <1>5 DEF AnswerOf
<1>10. Bytes(pending') = 16 + n
  <2>1. /\ <<a>> \in Seq(OnLine) /\ <<h>> \in Seq(OnLine) /\ <<e>> \in Seq(OnLine)
        /\ <<a, h>> \in Seq(OnLine)
        /\ <<a, h>> = <<a>> \o <<h>> /\ <<a, h, e>> = <<a, h>> \o <<e>>
    <3>1. a \in OnLine /\ h \in OnLine /\ e \in OnLine
      BY <1>7, PieceFacts
    <3>2. <<a, h>> = <<a>> \o <<h>>
      <4>1. PICK s \in Seq(OnLine), t \in Seq(OnLine) : s = <<a, h>> /\ t = <<a>> \o <<h>>
        <5>1. <<a>> \in Seq(OnLine) /\ <<h>> \in Seq(OnLine)
          BY <3>1
        <5>2. <<a, h>> \in Seq(OnLine)
          BY <3>1
        <5>3. <<a>> \o <<h>> \in Seq(OnLine)
          BY <5>1, ConcatProperties
        <5>4. QED
          BY <5>2, <5>3
      <4>2. Len(s) = 2 /\ s[1] = a /\ s[2] = h
        BY <4>1
      <4>3. Len(t) = 2 /\ t[1] = a /\ t[2] = h
        BY <4>1
      <4>4. \A i \in 1..2 : s[i] = t[i]
        <5>1. \A i \in 1..2 : i = 1 \/ i = 2
          OBVIOUS
        <5>2. QED
          BY <4>2, <4>3, <5>1
      <4>5. s = t
        BY <4>2, <4>3, <4>4, SeqEqual
      <4>6. QED
        BY <4>1, <4>5
    <3>3. <<a, h, e>> = <<a, h>> \o <<e>>
      OBVIOUS
    <3>4. QED
      BY <3>1, <3>2, <3>3
  <2>2. /\ Bytes(<<a, h>>) = Bytes(<<a>>) + Bytes(<<h>>)
        /\ Bytes(<<a, h, e>>) = Bytes(<<a, h>>) + Bytes(<<e>>)
    BY <2>1, BytesCat
  <2>3. Bytes(<<a>>) = Size(a) /\ Bytes(<<h>>) = Size(h) /\ Bytes(<<e>>) = Size(e)
    BY <1>7, PieceFacts, BytesOne
  <2>4. QED
    BY <1>2, <1>8, <1>9, <2>2, <2>3
<1>11. sent' \in Nat /\ sel' \in Selected
  BY DEF WriteCommand, Requests, Selected
<1>12. pending' \in Seq(Pieces)
  BY <1>7, <1>9
<1>13. QED
  BY <1>2, <1>10, <1>11, <1>12

\* The request: what CommandDone makes of it does not depend on the line.
LEMMA AskNext ==
  ASSUME AskInv, ret \in Int, [Next]_vars
  PROVE  AskInv'
<1> USE DEF AskInv
<1>1. NoReq \in Requests /\ NoReq.op = "none" /\ NoReq.len = 0 /\ NoReq.left = 0
  BY DEF NoReq, Requests, Ops, Names
<1>2. CASE UNCHANGED <<req, file>> /\ pc' \in Talking /\ pc \in Talking
  BY <1>2 DEF Asked, Talking
<1>3. CASE OpenNFCDev \/ InitWrite \/ InitRead
  <2>1. req' = NoReq /\ file' = <<>> /\ pc' \in {"init", "initread", "ready"}
    BY <1>1, <1>3 DEF OpenNFCDev, InitWrite, InitRead, caller, Asked
  <2>2. QED
    BY <1>1, <2>1 DEF Asked, Talking
<1>4. CASE GiveUp \/ CloseNFCDev \/ Crash
  <2>1. req' = NoReq /\ file' = <<>> /\ pc' = "closed"
    BY <1>4 DEF GiveUp, CloseNFCDev, Crash
  <2>2. QED
    BY <1>1, <2>1 DEF Asked, Talking
<1>5. CASE Request
  <2>1. pc' = "write" /\ file' = <<>>
    BY <1>5 DEF Request
  <2>2. CASE req' = [NoReq EXCEPT !.op = "cmd"]
    <3>1. req' \in Requests /\ req'.op = "cmd" /\ req'.len = 0
      BY <2>2 DEF NoReq, Requests, Ops, Names
    <3>2. QED
      BY <2>1, <3>1 DEF Asked, Talking
  <2>3. CASE \E name \in FilesOfCard, len \in FileLens :
               req' = [op |-> "select", name |-> name, len |-> len, left |-> len, at |-> 0]
    <3>1. /\ req' \in Requests /\ req'.op = "select" /\ req'.name \in FilesOfCard
          /\ req'.len \in FileLens /\ req'.left = req'.len /\ req'.at = 0
      BY <2>3, LensAssumption DEF Requests, Ops, Names
    <3>2. req'.at + req'.left = req'.len
      BY <3>1 DEF Requests
    <3>3. QED
      BY <2>1, <3>1, <3>2 DEF Asked, Talking
  <2>4. QED
    BY <1>5, <2>2, <2>3 DEF Request
<1>6. CASE CommandDone
  <2>1. /\ pc = "returned" /\ req.op \in {"cmd", "select", "read"}
        /\ pc' = IF req.op = "cmd" \/ req'.left = 0 THEN "ready" ELSE "write"
    BY <1>6 DEF CommandDone, Asked, Talking
  <2>2. CASE req.op = "cmd"
    <3>1. req' = NoReq /\ pc' = "ready" /\ file' = <<>>
      BY <1>6, <2>1, <2>2 DEF CommandDone, Asked
    <3>2. QED
      BY <1>1, <3>1 DEF Asked, Talking
  <2>3. CASE req.op = "select"
    <3>1. req' = [req EXCEPT !.op = "read"]
      BY <1>6, <2>3 DEF CommandDone
    <3>2. /\ req' \in Requests /\ req'.op = "read" /\ req'.len = req.len
          /\ req'.left = req.left /\ req'.at = req.at
      BY <3>1 DEF Requests, Ops
    <3>3. req.len \in FileLens /\ req.at + req.left = req.len /\ req.left > 0
      <4>1. /\ req.len \in FileLens /\ req.at + req.left = req.len /\ req.left = req.len
        BY <2>3 DEF Asked
      <4>2. QED
        <5>1. PICK l \in FileLens : l = req.len
          BY <4>1
        <5>2. l > 0
          BY LensAssumption
        <5>3. QED
          BY <4>1, <5>1, <5>2
    <3>4. pc' = "write"
      BY <2>1, <2>3, <3>2, <3>3
    <3>5. QED
      BY <3>2, <3>3, <3>4 DEF Asked, Talking
  <2>4. CASE req.op = "read"
    <3>1. req' = [req EXCEPT !.left = @ - (ret - 2), !.at = @ + (ret - 2)]
      BY <1>6, <2>4 DEF CommandDone
    <3>2. ret - 2 \in 1..req.left
      <4>1. Accepts(req, ret)
        BY <1>6 DEF CommandDone
      <4>2. QED
        BY <2>1, <2>4, <4>1, TakenChunk
    <3>3. /\ req' \in Requests /\ req'.op = "read" /\ req'.len = req.len
          /\ req'.left = req.left - (ret - 2) /\ req'.at = req.at + (ret - 2)
      <4>1. PICK n \in Nat : n = ret - 2 /\ n <= req.left
        BY <3>2
      <4>2. /\ req \in [op : Ops, name : Names, len : Nat, left : Nat, at : Nat]
            /\ req' = [req EXCEPT !.left = @ - n, !.at = @ + n]
        BY <3>1, <4>1 DEF Requests
      <4>3. req.left - n \in Nat /\ req.at + n \in Nat
        BY <4>1, <4>2
      <4>4. QED
        BY <2>4, <4>1, <4>2, <4>3 DEF Requests
    <3>4. req.len \in FileLens /\ req.at + req.left = req.len /\ req.at \in Nat /\ req.left \in Nat
      BY <2>4 DEF Asked, Requests
    <3>5. req'.at + req'.left = req'.len /\ req'.left \in Nat
      BY <3>2, <3>3, <3>4
    <3>6. (pc' = "ready" /\ req'.left = 0) \/ (pc' = "write" /\ req'.left > 0)
      BY <2>1, <2>4, <3>5
    <3>7. QED
      BY <3>3, <3>4, <3>5, <3>6 DEF Asked, Talking
  <2>5. QED
    BY <2>1, <2>2, <2>3, <2>4
<1>7. CASE CmdWrite \/ CmdReadNothing \/ Tick
  <2>1. UNCHANGED <<req, file>> /\ pc' \in Talking /\ pc \in Talking
    BY <1>7 DEF CmdWrite, CmdReadNothing, CmdReturns, Tick, caller, Talking
  <2>2. QED
    BY <1>2, <2>1 DEF Talking
<1>8. CASE CmdRead \/ CmdReadFails
  <2>1. pc = "read" /\ UNCHANGED <<req, file>>
    BY <1>8 DEF CmdRead, CmdReadFails, caller
  <2>2. pc' \in {"read", "returned", "overrun"}
    <3>1. CASE CmdRead
      BY <2>1, <3>1 DEF CmdRead, CopyAnswer, CmdReturns
    <3>2. CASE CmdReadFails
      BY <2>1, <3>2 DEF CmdReadFails, CmdReturns
    <3>3. QED
      BY <1>8, <3>1, <3>2
  <2>3. QED
    BY <1>2, <2>1, <2>2 DEF Talking
<1>9. CASE BoardSends \/ UNCHANGED vars
  <2>1. UNCHANGED <<req, file>> /\ pc' = pc
    BY <1>9 DEF BoardSends, caller, vars
  <2>2. QED
    BY <2>1 DEF Asked
<1>10. QED
  BY <1>3, <1>4, <1>5, <1>6, <1>7, <1>8, <1>9 DEF Next, Reader

LEMMA LineNext ==
  ASSUME TypeLine, AskInv, [Next]_vars
  PROVE  TypeLine'
<1> USE DEF TypeLine
<1>1. CASE InitWrite \/ CmdWrite
  <2>1. PICK r \in Requests : /\ WriteCommand(r) /\ wire' = wire
                              /\ r.op = "select" => r.name \in FilesOfCard
    <3>1. /\ [NoReq EXCEPT !.op = "init"] \in Requests /\ req \in Requests
          /\ [NoReq EXCEPT !.op = "init"].op = "init"
          /\ req.op = "select" => req.name \in FilesOfCard
      BY DEF NoReq, Requests, Ops, Names, AskInv, Asked
    <3>2. QED
      BY <1>1, <3>1 DEF InitWrite, CmdWrite
  <2>2. QED
    BY <2>1, WrittenPieces
<1>2. CASE OpenNFCDev
  BY <1>2 DEF OpenNFCDev
<1>3. CASE InitRead \/ CmdRead
  <2>1. UNCHANGED <<pending, sel, sent>>
    BY <1>3 DEF InitRead, CmdRead
  <2>2. PICK k \in Readable : wire' = SubSeq(wire, k + 1, Len(wire))
    BY <1>3 DEF InitRead, CmdRead
  <2>3. k \in 0..Len(wire)
    BY <2>2 DEF Readable
  <2>4. QED
    BY <2>1, <2>2, <2>3, BytesCut
<1>4. CASE BoardSends
  BY <1>4, BytesMove DEF BoardSends
<1>5. CASE CmdReadNothing \/ CmdReadFails \/ Tick \/ Request \/ CommandDone \/ GiveUp
             \/ CloseNFCDev \/ Crash \/ UNCHANGED vars
  <2>1. UNCHANGED board
    BY <1>5 DEF CmdReadNothing, CmdReadFails, Tick, Request, CommandDone, GiveUp,
                CloseNFCDev, Crash, vars
  <2>2. QED
    BY <2>1 DEF board
<1>6. QED
  BY <1>1, <1>2, <1>3, <1>4, <1>5 DEF Next, Reader

LEMMA CallerNext ==
  ASSUME TypeCaller, AskInv, TypeCmd, [Next]_vars
  PROVE  TypeCaller'
<1> USE DEF TypeCaller
<1>1. Port' = Port /\ MaxSessions[Port] \in Nat /\ MaxRequests[Port] \in Nat
  BY BoundsAssumption DEF Next, SamePort, vars
<1>2. CASE OpenNFCDev
  BY <1>1, <1>2 DEF OpenNFCDev, INITSTEPS
<1>3. CASE InitWrite
  BY <1>1, <1>3 DEF InitWrite, caller
<1>4. CASE InitRead
  BY <1>1, <1>4 DEF InitRead, INITSTEPS
<1>5. CASE Request
  BY <1>1, <1>5 DEF Request
<1>6. CASE GiveUp \/ CloseNFCDev \/ Crash
  <2>1. /\ pc' = "closed" /\ file' = <<>>
        /\ UNCHANGED <<step, sessions, requests>>
    BY <1>6 DEF GiveUp, CloseNFCDev, Crash
  <2>2. QED
    BY <1>1, <2>1
<1>7. CASE CommandDone
  <2>1. /\ pc = "returned" /\ pc' \in {"ready", "write"}
        /\ UNCHANGED <<step, sessions, requests>>
    BY <1>7 DEF CommandDone
  <2>2. file' \in Seq([at : Nat, n : 1..CHUNK, name : Names])
    <3>1. CASE req.op = "read"
      <4>1. ret \in Int /\ ans.at \in Nat /\ ans.name \in Names
        BY DEF TypeCmd, Pieces
      <4>2. Accepts(req, ret)
        BY <1>7 DEF CommandDone
      <4>3. ret - 2 \in 1..CHUNK
        BY <2>1, <3>1, <4>1, <4>2, TakenChunk
      <4>4. PICK e : e = [at |-> ans.at, n |-> ret - 2, name |-> ans.name]
        OBVIOUS
      <4>5. e \in [at : Nat, n : 1..CHUNK, name : Names]
        BY <4>1, <4>3, <4>4
      <4>6. file' = Append(file, e)
        BY <1>7, <3>1, <4>4 DEF CommandDone
      <4>7. QED
        BY <4>5, <4>6
    <3>2. CASE req.op # "read"
      BY <1>7, <3>2 DEF CommandDone
    <3>3. QED
      BY <3>1, <3>2
  <2>3. QED
    BY <1>1, <2>1, <2>2
<1>8. CASE CmdWrite \/ CmdReadNothing \/ Tick \/ CmdRead \/ CmdReadFails
  <2>1. UNCHANGED caller /\ pc' \in {"read", "returned", "overrun"}
    <3>1. CASE CmdRead
      BY <3>1 DEF CmdRead, CopyAnswer, CmdReturns
    <3>2. CASE CmdReadFails
      BY <3>2 DEF CmdReadFails, CmdReturns
    <3>3. CASE CmdWrite \/ CmdReadNothing \/ Tick
      BY <3>3 DEF CmdWrite, CmdReadNothing, Tick, CmdReturns
    <3>4. QED
      BY <1>8, <3>1, <3>2, <3>3
  <2>2. QED
    BY <1>1, <2>1 DEF caller
<1>9. CASE BoardSends \/ UNCHANGED vars
  BY <1>1, <1>9 DEF BoardSends, vars, caller
<1>10. QED
  BY <1>2, <1>3, <1>4, <1>5, <1>6, <1>7, <1>8, <1>9 DEF Next, Reader

LEMMA ThirdPiece == ASSUME NEW b \in Seq(Pieces), Len(b) = 3 PROVE b[3] \in Pieces
<1>1. 3 \in 1..3 /\ DOMAIN b = 1..3
  OBVIOUS
<1>2. QED
  BY <1>1

LEMMA NoPieceType == NoPiece \in Pieces
<1>1. -1 <= 0 /\ 0 <= CHUNK + 2 /\ 0 \in -1..(CHUNK + 2)
  BY DEF CHUNK
<1>2. QED
  BY <1>1 DEF NoPiece, Piece, NoReq, Pieces, Names

\* What a read that returned something makes of CmdRequest's variables.
LEMMA CmdReadTypes ==
  ASSUME TypeLine, TypeCmd, CmdRead, UNCHANGED Port
  PROVE  TypeCmd'
<1>1. PICK k \in Readable \ {0} :
        LET b == buff \o SubSeq(wire, 1, k)
            o == off + Bytes(SubSeq(wire, 1, k))
        IN  /\ buff' = b /\ off' = o
            /\ \/ Complete(b, o) /\ CopyAnswer(b[3])
               \/ Garbled(b, o) /\ CmdReturns(-1, "checksum", NoPiece)
               \/ ~Complete(b, o) /\ Full(o) /\ CmdReturns(-1, "full", NoPiece)
               \/ /\ ~Complete(b, o) /\ ~Full(o)
                  /\ UNCHANGED <<pc, ret, why, ans>>
  BY DEF CmdRead
<1>2. k \in 0..Len(wire)
  BY <1>1 DEF Readable, TypeLine
<1>3. PICK b, o : b = buff \o SubSeq(wire, 1, k) /\ o = off + Bytes(SubSeq(wire, 1, k))
  OBVIOUS
<1>4. /\ buff' = b /\ off' = o
      /\ \/ Complete(b, o) /\ CmdReturns(b[3].n, "answer", b[3])
         \/ pc' = "overrun" /\ UNCHANGED <<ret, why, ans>>
         \/ CmdReturns(-1, "checksum", NoPiece)
         \/ CmdReturns(-1, "full", NoPiece)
         \/ ~Full(o) /\ UNCHANGED <<pc, ret, why, ans>>
  BY <1>1, <1>3 DEF CopyAnswer
<1>5. b \in Seq(Pieces) /\ o \in Int
  <2>1. SubSeq(wire, 1, k) \in Seq(Pieces)
    BY <1>2, BytesCut DEF TypeLine
  <2>2. Bytes(SubSeq(wire, 1, k)) \in Nat
    BY <2>1, BytesNat
  <2>3. buff \in Seq(Pieces) /\ off \in Int
    BY DEF TypeCmd
  <2>4. b \in Seq(Pieces)
    BY <1>3, <2>1, <2>3
  <2>5. QED
    BY <1>3, <2>2, <2>3, <2>4
<1>6. /\ secs' = secs /\ secs \in Nat /\ secs <= RECV_TIMEOUT /\ pc = "read"
      /\ ret \in -1..(CHUNK + 2) /\ ans \in Pieces
      /\ why \in {"none", "answer", "checksum", "timeout", "full"}
  BY DEF CmdRead, TypeCmd
<1>7. CASE Complete(b, o) /\ CmdReturns(b[3].n, "answer", b[3])
  <2>1. Len(b) = 3
    BY <1>7 DEF Complete
  <2>2. b[3] \in Pieces
    BY <1>5, <2>1, ThirdPiece
  <2>3. b[3].n \in -1..(CHUNK + 2)
    BY <2>2, PieceFacts
  <2>4. pc' = "returned" /\ ret' = b[3].n /\ ans' = b[3] /\ why' = "answer"
    BY <1>7 DEF CmdReturns
  <2>5. QED
    BY <1>4, <1>5, <1>6, <2>2, <2>3, <2>4 DEF TypeCmd
<1>8. CASE CmdReturns(-1, "checksum", NoPiece) \/ CmdReturns(-1, "full", NoPiece)
  <2>1. /\ pc' = "returned" /\ ret' = -1 /\ ans' = NoPiece
        /\ why' \in {"none", "answer", "checksum", "timeout", "full"}
    BY <1>8 DEF CmdReturns
  <2>2. -1 \in -1..(CHUNK + 2)
    BY DEF CHUNK
  <2>3. QED
    BY <1>4, <1>5, <1>6, <2>1, <2>2, NoPieceType DEF TypeCmd
<1>9. CASE ~Full(o) /\ UNCHANGED <<pc, ret, why, ans>>
  <2>1. 0 <= o /\ o < BUFFSIZE
    BY <1>5, <1>9 DEF Full, BUFFSIZE
  <2>2. Port = "otg" => secs < RECV_TIMEOUT
    BY <1>6 DEF TypeCmd
  <2>3. QED
    BY <1>4, <1>5, <1>6, <1>9, <2>1, <2>2 DEF TypeCmd
<1>10. CASE pc' = "overrun" /\ UNCHANGED <<ret, why, ans>>
  BY <1>4, <1>5, <1>6, <1>10 DEF TypeCmd
<1>11. QED
  BY <1>4, <1>7, <1>8, <1>9, <1>10

LEMMA CmdNext ==
  ASSUME TypeCaller, TypeLine, TypeCmd, [Next]_vars
  PROVE  TypeCmd'
<1>1. Port' = Port /\ Port \in {"serial", "otg"}
  BY PortAssumption DEF Next, SamePort, vars, TypeCaller
<1>2. CASE CmdRead
  BY <1>1, <1>2, CmdReadTypes
<1>3. CASE NoLocals
  <2>1. /\ buff' = <<>> /\ off' = 0 /\ secs' = 0 /\ ret' = 0 /\ why' = "none" /\ ans' = NoPiece
    BY <1>3 DEF NoLocals
  <2>2. 0 \in -1..(CHUNK + 2)
    BY DEF CHUNK
  <2>3. <<>> \in Seq(Pieces)
    OBVIOUS
  <2>4. QED
    BY <2>1, <2>2, <2>3, NoPieceType DEF TypeCmd, BUFFSIZE, RECV_TIMEOUT
<1>4. ASSUME pc' = "returned", UNCHANGED buff, off' \in Int, secs' \in Nat,
             secs' <= RECV_TIMEOUT, ret' = -1, ans' = NoPiece,
             why' \in {"none", "answer", "checksum", "timeout", "full"}
      PROVE  TypeCmd'
  <2>1. -1 \in -1..(CHUNK + 2)
    BY DEF CHUNK
  <2>2. buff \in Seq(Pieces)
    BY DEF TypeCmd
  <2>3. QED
    BY <1>4, <2>1, <2>2, NoPieceType DEF TypeCmd
<1>5. CASE CmdReadNothing
  <2>1. /\ pc' = "returned" /\ ret' = -1 /\ ans' = NoPiece /\ why' = "timeout"
        /\ UNCHANGED <<buff, off, secs>>
    BY <1>5 DEF CmdReadNothing, CmdReturns
  <2>2. QED
    BY <1>4, <2>1 DEF TypeCmd
<1>6. CASE CmdReadFails
  <2>1. /\ pc = "read" /\ Port = "otg" /\ secs' = secs + 1 /\ UNCHANGED buff
        /\ off \in Int /\ secs \in Nat /\ secs < RECV_TIMEOUT
    BY <1>6 DEF CmdReadFails, TypeCmd
  <2>2. secs' \in Nat /\ secs' <= RECV_TIMEOUT
    BY <2>1 DEF RECV_TIMEOUT
  <2>3. CASE TimedOut(secs')
    <3>1. CmdReturns(-1, "timeout", NoPiece) /\ off' = off
      BY <1>6, <2>3 DEF CmdReadFails
    <3>2. QED
      BY <1>4, <2>1, <2>2, <3>1 DEF CmdReturns
  <2>4. CASE ~TimedOut(secs') /\ Full(off')
    <3>1. CmdReturns(-1, "full", NoPiece) /\ off' = off - 1
      BY <1>6, <2>4 DEF CmdReadFails
    <3>2. QED
      BY <1>4, <2>1, <2>2, <3>1 DEF CmdReturns
  <2>5. CASE ~TimedOut(secs') /\ ~Full(off')
    <3>1. UNCHANGED <<pc, ret, why, ans>> /\ off' = off - 1
      BY <1>6, <2>5 DEF CmdReadFails
    <3>2. off' \in Int /\ 0 <= off' /\ off' < BUFFSIZE
      BY <2>1, <2>5, <3>1 DEF Full, BUFFSIZE
    <3>3. secs' < RECV_TIMEOUT
      BY <2>2, <2>5 DEF TimedOut, RECV_TIMEOUT
    <3>4. QED
      BY <2>1, <2>2, <3>1, <3>2, <3>3 DEF TypeCmd
  <2>6. QED
    BY <2>3, <2>4, <2>5
<1>7. CASE Tick
  <2>1. /\ Port = "serial" /\ secs < RECV_TIMEOUT /\ secs' = secs + 1
        /\ UNCHANGED <<pc, buff, off, ret, why, ans>>
    BY <1>7 DEF Tick
  <2>2. secs' \in Nat /\ secs' <= RECV_TIMEOUT
    BY <2>1 DEF RECV_TIMEOUT, TypeCmd
  <2>3. QED
    BY <1>1, <2>1, <2>2 DEF TypeCmd
<1>8. CASE OpenNFCDev \/ InitWrite \/ InitRead \/ Request
  <2>1. UNCHANGED cmd /\ pc' # "read" /\ pc \notin {"read", "returned", "overrun"}
    BY <1>8 DEF OpenNFCDev, InitWrite, InitRead, Request
  <2>2. QED
    BY <2>1 DEF cmd, TypeCmd
<1>9. CASE BoardSends \/ UNCHANGED vars
  <2>1. UNCHANGED cmd /\ pc' = pc
    BY <1>9 DEF BoardSends, vars
  <2>2. QED
    BY <1>1, <2>1 DEF cmd, TypeCmd
<1>10. CASE CmdWrite \/ CommandDone \/ GiveUp \/ CloseNFCDev \/ Crash
  BY <1>3, <1>10 DEF CmdWrite, CommandDone, GiveUp, CloseNFCDev, Crash
<1>11. QED
  BY <1>2, <1>5, <1>6, <1>7, <1>8, <1>9, <1>10 DEF Next, Reader

LEMMA DrainedNext == ASSUME drained \in BOOLEAN, [Next]_vars
                     PROVE  drained' \in BOOLEAN
<1>1. UNCHANGED drained \/ OpenNFCDev \/ InitRead
  BY DEF Next, Reader, InitWrite, Request, CmdWrite, CmdRead, CmdReadNothing,
         CmdReadFails, Crash, CommandDone, GiveUp, CloseNFCDev, Tick, BoardSends,
         caller, vars
<1>2. QED
  BY <1>1 DEF OpenNFCDev, InitRead

LEMMA Types == Spec => [](TypeInv /\ AskInv)
<1>1. Init => TypeInv /\ AskInv
  <2> SUFFICES ASSUME Init PROVE TypeInv /\ AskInv
    OBVIOUS
  <2>1. TypeCaller
    <3>1. MaxSessions[Port] \in Nat /\ MaxRequests[Port] \in Nat
      BY BoundsAssumption DEF Init
    <3>2. file \in Seq([at : Nat, n : 1..CHUNK, name : Names])
      BY DEF Init
    <3>3. Port \in Ports /\ pc = "closed" /\ step = 0 /\ sessions = 0 /\ requests = 0
      BY DEF Init
    <3>4. step \in Nat /\ step <= INITSTEPS + 1
      BY <3>3 DEF INITSTEPS
    <3>5. QED
      BY <3>1, <3>2, <3>3, <3>4 DEF TypeCaller
  <2>2. TypeLine
    BY DEF Init, TypeLine, Selected
  <2>3. TypeCmd
    <3>1. 0 \in -1..(CHUNK + 2)
      BY DEF CHUNK
    <3>2. QED
      BY <3>1, NoPieceType DEF Init, TypeCmd, RECV_TIMEOUT
  <2>4. AskInv
    BY DEF Init, AskInv, Asked, Talking, NoReq, Requests, Ops, Names
  <2>5. drained \in BOOLEAN
    BY DEF Init
  <2>6. QED
    BY <2>1, <2>2, <2>3, <2>4, <2>5 DEF TypeInv
<1>2. TypeInv /\ AskInv /\ [Next]_vars => TypeInv' /\ AskInv'
  <2>1. TypeCmd => ret \in Int
    BY DEF TypeCmd
  <2>2. QED
    BY <2>1, AskNext, LineNext, CallerNext, CmdNext, DrainedNext DEF TypeInv
<1>3. QED
  BY <1>1, <1>2, PTL DEF Spec

\* Every variable has its type, on either port and whatever the card and the
\* line do: no answer is longer than it can be, and no file is read past its
\* end.
THEOREM TypeCorrect == Spec => []TypeOK
<1>1. TypeInv /\ AskInv => TypeOK
  <2> SUFFICES ASSUME TypeInv, AskInv PROVE TypeOK
    OBVIOUS
  <2>1. MaxSessions[Port] \in Nat /\ MaxRequests[Port] \in Nat
    BY BoundsAssumption DEF TypeInv, TypeCaller
  <2>2. /\ step \in 0..(INITSTEPS + 1) /\ secs \in 0..RECV_TIMEOUT
        /\ sessions \in 0..MaxSessions[Port] /\ requests \in 0..MaxRequests[Port]
    BY <2>1 DEF TypeInv, TypeCaller, TypeCmd, INITSTEPS, RECV_TIMEOUT
  <2>3. QED
    BY <2>2 DEF TypeInv, TypeCaller, TypeLine, TypeCmd, AskInv, TypeOK, Selected, Names
<1>2. QED
  BY <1>1, Types, PTL


-----------------------------------------------------------------------------
(* Every step                                                              *)

Inv == TypeInv /\ AskInv /\ IInv

\* The port stays, and a session is never taken back.
LEMMA Onwards ==
  ASSUME sessions \in Nat, [Next]_vars
  PROVE  UNCHANGED Port /\ sessions' \in Nat /\ sessions' >= sessions
<1>1. CASE OpenNFCDev /\ SamePort
  BY <1>1 DEF OpenNFCDev, SamePort
<1>2. CASE Request /\ SamePort
  BY <1>2 DEF Request, SamePort
<1>3. CASE Reader /\ SamePort
  <2>1. UNCHANGED sessions
    BY <1>3 DEF Reader, InitWrite, InitRead, CmdWrite, CmdRead, CmdReadNothing,
                CmdReadFails, Crash, CommandDone, GiveUp, CloseNFCDev, caller
  <2>2. QED
    BY <1>3, <2>1 DEF SamePort
<1>4. CASE (Tick \/ BoardSends) /\ SamePort
  BY <1>4 DEF Tick, BoardSends, caller, SamePort
<1>5. CASE UNCHANGED vars
  BY <1>5 DEF vars, caller
<1>6. QED
  BY <1>1, <1>2, <1>3, <1>4, <1>5 DEF Next

\* InitNFC has emptied the line: what an earlier session left is gone, and the
\* invariant begins to hold.
LEMMA DrainedInv ==
  ASSUME TypeInv, AskInv, TypeInv', AskInv', InitRead, ~Undisturbed, UNCHANGED Port,
         Undisturbed'
  PROVE  IInv'
<1>1. /\ pc = "initread" /\ sessions # 0 /\ UNCHANGED <<req, sessions, pending>>
      /\ drained' = (step = INITSTEPS /\ wire' = <<>> /\ pending = <<>>)
      /\ pc' = IF step = INITSTEPS THEN "ready" ELSE "init"
  BY DEF InitRead, Undisturbed
<1>2. pc' = "ready" /\ wire' = <<>> /\ pending' = <<>>
  BY <1>1 DEF Undisturbed
<1>3. TypeRequest'
  <2>1. /\ buff' \in Seq(OnLine) /\ wire' \in Seq(OnLine) /\ pending' \in Seq(OnLine)
    BY PiecesOnLine DEF TypeInv, TypeLine, TypeCmd
  <2>2. file' \in Seq([at : Nat, n : Int, name : Names])
    <3>1. [at : Nat, n : 1..CHUNK, name : Names] \subseteq [at : Nat, n : Int, name : Names]
      BY DEF CHUNK
    <3>2. file' \in Seq([at : Nat, n : 1..CHUNK, name : Names])
      BY DEF TypeInv, TypeCaller
    <3>3. PICK S, T : /\ S = [at : Nat, n : 1..CHUNK, name : Names]
                      /\ T = [at : Nat, n : Int, name : Names]
      OBVIOUS
    <3>4. S \subseteq T /\ file' \in Seq(S)
      BY <3>1, <3>2, <3>3
    <3>5. file' \in Seq(T)
      BY <3>4
    <3>6. QED
      BY <3>3, <3>5
  <2>3. ret' \in Int /\ req' \in [op : Ops, name : Names, len : Nat, left : Nat, at : Nat]
    BY DEF TypeInv, TypeCmd, AskInv, Requests
  <2>4. QED
    BY <2>1, <2>2, <2>3 DEF TypeInv, TypeCaller, TypeLine, TypeRequest
<1>4. Asked' /\ req'.op = "none" /\ file' = <<>>
  <2>1. Asked' /\ req' = NoReq
    BY <1>1 DEF AskInv, Asked
  <2>2. QED
    BY <2>1 DEF Asked, NoReq
<1>5. Pieced'
  BY <1>4 DEF Pieced
<1>6. LineClean' /\ AnswerComes' /\ ResultOf'
  BY <1>1, <1>2 DEF LineClean, Short, AnswerComes, ResultOf
<1>7. QED
  BY <1>3, <1>4, <1>5, <1>6 DEF IInv

\* Only the end of InitNFC can make a session an undisturbed one.
LEMMA OnlyInitNFC ==
  ASSUME TypeInv, [Next]_vars, ~Undisturbed, Undisturbed'
  PROVE  InitRead
<1>1. UNCHANGED Port /\ sessions \in Nat /\ sessions' \in Nat /\ sessions' >= sessions
  BY Onwards DEF TypeInv, TypeCaller
<1>2. drained' /\ ~drained
  BY <1>1 DEF Undisturbed
<1>3. ~(UNCHANGED drained) /\ ~OpenNFCDev
  BY <1>2 DEF OpenNFCDev
<1>4. \/ UNCHANGED drained \/ OpenNFCDev \/ InitRead
  BY DEF Next, Reader, InitWrite, Request, CmdWrite, CmdRead, CmdReadNothing,
         CmdReadFails, Crash, CommandDone, GiveUp, CloseNFCDev, Tick, BoardSends,
         caller, vars
<1>5. QED
  BY <1>3, <1>4

LEMMA NextInv ==
  ASSUME TypeInv, AskInv, TypeInv', AskInv', IInv, [Next]_vars
  PROVE  IInv'
<1>1. UNCHANGED Port /\ sessions \in Nat /\ sessions' \in Nat /\ sessions' >= sessions
  BY Onwards DEF TypeInv, TypeCaller
<1>2. SUFFICES ASSUME Undisturbed' PROVE IInv'
  BY DEF IInv
<1>3. SUFFICES ASSUME Undisturbed PROVE IInv'
  <2>1. ~Undisturbed => InitRead
    BY <1>2, OnlyInitNFC
  <2>2. QED
    BY <1>1, <1>2, <2>1, DrainedInv
<1>4. CASE OpenNFCDev
  BY <1>1, <1>2, <1>3, <1>4, OpenInv
<1>5. CASE Request
  BY <1>1, <1>3, <1>5, RequestInv
<1>6. CASE Reader
  <2>1. CASE InitWrite
    BY <1>1, <1>3, <2>1, InitWriteInv
  <2>2. CASE InitRead
    BY <1>1, <1>3, <2>2, InitReadInv
  <2>3. CASE CmdWrite
    BY <1>1, <1>3, <2>3, CmdWriteInv
  <2>4. CASE CmdRead
    BY <1>1, <1>3, <2>4, CmdReadInv
  <2>5. CASE CmdReadNothing \/ CmdReadFails
    BY <1>1, <1>3, <2>5, CmdWaitsInv
  <2>6. CASE CommandDone
    BY <1>1, <1>3, <2>6, AnsweredInv, ChunkInv
  <2>7. CASE GiveUp \/ CloseNFCDev \/ Crash
    BY <1>1, <1>3, <2>7, CloseInv
  <2>8. QED
    BY <1>6, <2>1, <2>2, <2>3, <2>4, <2>5, <2>6, <2>7 DEF Reader
<1>7. CASE Tick
  BY <1>1, <1>3, <1>7, CmdWaitsInv
<1>8. CASE BoardSends
  BY <1>1, <1>3, <1>8, BoardSendsInv
<1>9. CASE UNCHANGED vars
  <2>1. UNCHANGED <<pc, step, req, file, sessions, buff, ret, ans, wire, pending, sel, sent, Port>>
    BY <1>9 DEF vars, caller, cmd, board
  <2>2. /\ TypeRequest' <=> TypeRequest
        /\ Asked' <=> Asked
        /\ Pieced' <=> Pieced
    BY <2>1 DEF TypeRequest, Asked, Pieced
  <2>3. /\ LineClean' <=> LineClean
        /\ AnswerComes' <=> AnswerComes
        /\ ResultOf' <=> ResultOf
    BY <2>1 DEF LineClean, Short, AnswerComes, Mine, Last, ResultOf
  <2>4. QED
    BY <1>3, <2>2, <2>3 DEF IInv
<1>10. QED
  BY <1>4, <1>5, <1>6, <1>7, <1>8, <1>9 DEF Next

LEMMA Invariance == Spec => []Inv
<1>1. TypeInv /\ AskInv /\ TypeInv' /\ AskInv' /\ IInv /\ [Next]_vars => IInv'
  BY NextInv
<1>2. TypeInv /\ AskInv /\ IInv => Inv
  BY DEF Inv
<1>3. QED
  BY <1>1, <1>2, InitInv, Types, PTL DEF Spec

\* In an undisturbed session an answer that CReadCard accepts is the answer to
\* the command it has just sent: on a serial port in every session, on an OTG
\* cable in the first one and in any later one whose InitNFC has read all that
\* the board had sent.  A late answer is never taken for that of a later command.
THEOREM AnswersOwn == Spec => []AnswerOwn
<1>1. Inv => AnswerOwn
  BY Accepted DEF Inv, AnswerOwn
<1>2. QED
  BY <1>1, Invariance, PTL

-----------------------------------------------------------------------------
(* The file read implements FileReadSpec                                   *)

HaveOf(f) == IF f = <<>> THEN 0
             ELSE IF \A i \in 1..Len(f) : f[i].at = (i - 1) * CHUNK
                    THEN f[Len(f)].at + f[Len(f)].n ELSE -1
SrcOf(f)  == IF f = <<>> THEN "none"
             ELSE IF \A i \in 1..Len(f) : f[i].name = f[1].name THEN f[1].name ELSE "mixed"
PhaseOf(op, p) == IF op \notin {"select", "read"} THEN "idle"
                  ELSE IF p = "ready" THEN "whole" ELSE "reading"

LEMMA Mapping ==
  /\ (/\ PhaseOf(req.op, pc)' = PhaseOf(req.op, pc) /\ req'.len = req.len
      /\ HaveOf(file)' = HaveOf(file) /\ SrcOf(file)' = SrcOf(file)) =>
       UNCHANGED FileRead!vars
  /\ FileRead!Begin <=>
       /\ PhaseOf(req.op, pc) # "reading"
       /\ PhaseOf(req.op, pc)' = "reading" /\ req'.len \in FileLens
       /\ HaveOf(file)' = 0 /\ SrcOf(file)' = "none"
  /\ FileRead!Fetch <=>
       /\ PhaseOf(req.op, pc) = "reading"
       /\ HaveOf(file)' \in (HaveOf(file) + 1)..req.len
       /\ SrcOf(file)' \in IF SrcOf(file) = "none" THEN FilesOfCard ELSE {SrcOf(file)}
       /\ PhaseOf(req.op, pc)' = IF HaveOf(file)' = req.len THEN "whole" ELSE "reading"
       /\ req'.len = req.len
  /\ FileRead!Nothing <=> /\ PhaseOf(req.op, pc)' = "idle" /\ req'.len = 0
                          /\ HaveOf(file)' = 0 /\ SrcOf(file)' = "none"
<1> USE DEF HaveOf, SrcOf, PhaseOf, Together, OneSource
<1>1. (/\ PhaseOf(req.op, pc)' = PhaseOf(req.op, pc) /\ req'.len = req.len
       /\ HaveOf(file)' = HaveOf(file) /\ SrcOf(file)' = SrcOf(file)) =>
        UNCHANGED FileRead!vars
  BY DEF FileRead!vars
<1>2. FileRead!Begin <=>
        /\ PhaseOf(req.op, pc) # "reading"
        /\ PhaseOf(req.op, pc)' = "reading" /\ req'.len \in FileLens
        /\ HaveOf(file)' = 0 /\ SrcOf(file)' = "none"
  BY DEF FileRead!Begin
<1>3. FileRead!Fetch <=>
        /\ PhaseOf(req.op, pc) = "reading"
        /\ HaveOf(file)' \in (HaveOf(file) + 1)..req.len
        /\ SrcOf(file)' \in IF SrcOf(file) = "none" THEN FilesOfCard ELSE {SrcOf(file)}
        /\ PhaseOf(req.op, pc)' = IF HaveOf(file)' = req.len THEN "whole" ELSE "reading"
        /\ req'.len = req.len
  BY DEF FileRead!Fetch
<1>4. FileRead!Nothing <=> /\ PhaseOf(req.op, pc)' = "idle" /\ req'.len = 0
                           /\ HaveOf(file)' = 0 /\ SrcOf(file)' = "none"
  BY DEF FileRead!Nothing
<1>5. QED
  BY <1>1, <1>2, <1>3, <1>4

\* A file in whole chunks, all of them from s.
LEMMA Whole ==
  ASSUME NEW f \in Seq([at : Nat, n : Int, name : Names]), NEW s, f # <<>>,
         \A i \in DOMAIN f : f[i].at = (i - 1) * CHUNK /\ f[i].name = s
  PROVE  HaveOf(f) = f[Len(f)].at + f[Len(f)].n /\ SrcOf(f) = s
<1>1. DOMAIN f = 1..Len(f) /\ 1 \in DOMAIN f
  OBVIOUS
<1>2. HaveOf(f) = f[Len(f)].at + f[Len(f)].n
  BY <1>1 DEF HaveOf
<1>3. SrcOf(f) = s
  BY <1>1 DEF SrcOf
<1>4. QED
  BY <1>2, <1>3

\* As much of the file as the request has asked for.
LEMMA Mapped ==
  ASSUME TypeRequest, Asked, Pieced
  PROVE  /\ HaveOf(file) = IF req.op = "read" /\ file # <<>> THEN req.at ELSE 0
         /\ req.op = "read" /\ file = <<>> => req.at = 0
         /\ SrcOf(file) = IF file = <<>> THEN "none" ELSE sel
         /\ file # <<>> => sel \in FilesOfCard /\ req.op = "read"
<1>1. CASE file = <<>>
  BY <1>1 DEF HaveOf, SrcOf, Pieced
<1>2. CASE file # <<>>
  <2>1. file \in Seq([at : Nat, n : Int, name : Names])
    BY DEF TypeRequest
  <2>2. \A i \in DOMAIN file : file[i].at = (i - 1) * CHUNK /\ file[i].name = sel
    BY DEF Pieced
  <2>3. HaveOf(file) = file[Len(file)].at + file[Len(file)].n /\ SrcOf(file) = sel
    BY <1>2, <2>1, <2>2, Whole
  <2>4. 1 \in DOMAIN file
    BY <1>2, <2>1
  <2>5. req.op = "read" /\ sel \in FilesOfCard /\ req.at = file[Len(file)].at + file[Len(file)].n
    BY <1>2, <2>4 DEF Asked, Pieced
  <2>6. QED
    BY <1>2, <2>3, <2>5
<1>3. QED
  BY <1>1, <1>2

LEMMA StartMaps == Init => FileRead!Init
BY DEF Init, FileRead!Init, NoReq

\* A step that leaves the request and the file alone.
LEMMA StutterMaps ==
  ASSUME UNCHANGED <<req, file>>,
         (pc = "ready" <=> pc' = "ready") \/ req.op \notin {"select", "read"}
  PROVE  UNCHANGED FileRead!vars
<1>1. /\ PhaseOf(req.op, pc)' = PhaseOf(req.op, pc) /\ req'.len = req.len
      /\ HaveOf(file)' = HaveOf(file) /\ SrcOf(file)' = SrcOf(file)
  BY DEF PhaseOf, HaveOf, SrcOf
<1>2. QED
  BY <1>1, Mapping

LEMMA RequestMaps ==
  ASSUME Inv, Undisturbed, Request
  PROVE  [FileRead!Next]_(FileRead!vars)
<1>1. TypeRequest /\ Asked /\ Pieced
  BY DEF Inv, IInv
<1>2. pc = "ready" /\ pc' = "write" /\ file' = <<>>
  BY DEF Request
<1>3. HaveOf(file)' = 0 /\ SrcOf(file)' = "none"
  BY <1>2 DEF HaveOf, SrcOf
<1>4. PhaseOf(req.op, pc) = IF req.op = "read" THEN "whole" ELSE "idle"
  <2>1. req.op = "none" \/ req.op = "read"
    BY <1>1, <1>2 DEF Asked
  <2>2. QED
    BY <1>2, <2>1 DEF PhaseOf
<1>5. CASE \E name \in FilesOfCard, len \in FileLens :
             req' = [op |-> "select", name |-> name, len |-> len, left |-> len, at |-> 0]
  <2>1. req'.op = "select" /\ req'.len \in FileLens
    BY <1>5
  <2>2. PhaseOf(req.op, pc)' = "reading"
    BY <1>2, <2>1 DEF PhaseOf
  <2>3. FileRead!Begin
    BY <1>3, <1>4, <2>1, <2>2, Mapping
  <2>4. QED
    BY <2>3 DEF FileRead!Next
<1>6. CASE req' = [NoReq EXCEPT !.op = "cmd"]
  <2>1. req'.op = "cmd" /\ req'.len = 0
    BY <1>6 DEF NoReq
  <2>2. PhaseOf(req.op, pc)' = "idle"
    BY <2>1 DEF PhaseOf
  <2>3. FileRead!Nothing
    BY <1>3, <2>1, <2>2, Mapping
  <2>4. CASE req.op = "read"
    BY <1>4, <2>3, <2>4, Mapping DEF FileRead!Next, FileRead!Forget, PhaseOf
  <2>5. CASE req.op # "read"
    <3>1. req.op = "none" /\ req.len = 0 /\ HaveOf(file) = 0 /\ SrcOf(file) = "none"
      BY <1>1, <1>2, <2>5, Mapped DEF Asked
    <3>2. QED
      <4>1. /\ PhaseOf(req.op, pc)' = PhaseOf(req.op, pc) /\ req'.len = req.len
            /\ HaveOf(file)' = HaveOf(file) /\ SrcOf(file)' = SrcOf(file)
        BY <1>3, <1>4, <2>1, <2>2, <2>5, <3>1
      <4>2. QED
        BY <4>1, Mapping
  <2>6. QED
    BY <2>4, <2>5
<1>7. QED
  BY <1>5, <1>6 DEF Request

\* The end of a read, good or bad.
LEMMA EndMaps ==
  ASSUME Inv, Undisturbed, GiveUp \/ CloseNFCDev \/ Crash
  PROVE  [FileRead!Next]_(FileRead!vars)
<1>1. TypeRequest /\ Asked /\ Pieced
  BY DEF Inv, IInv
<1>2. req' = NoReq /\ file' = <<>> /\ pc \in {"ready", "returned", "overrun"}
  BY DEF GiveUp, CloseNFCDev, Crash
<1>3. /\ HaveOf(file)' = 0 /\ SrcOf(file)' = "none"
      /\ PhaseOf(req.op, pc)' = "idle" /\ req'.len = 0
  BY <1>2 DEF HaveOf, SrcOf, PhaseOf, NoReq
<1>4. FileRead!Nothing
  BY <1>3, Mapping
<1>5. CASE req.op \in {"select", "read"}
  <2>1. PhaseOf(req.op, pc) = "reading" \/ PhaseOf(req.op, pc) = "whole"
    BY <1>5 DEF PhaseOf
  <2>2. FileRead!Fail \/ FileRead!Forget
    BY <1>4, <2>1 DEF FileRead!Fail, FileRead!Forget, PhaseOf
  <2>3. QED
    BY <2>2 DEF FileRead!Next
<1>6. CASE req.op \notin {"select", "read"}
  <2>1. req.len = 0
    BY <1>1, <1>2, <1>6 DEF Asked, Talking
  <2>2. HaveOf(file) = 0 /\ SrcOf(file) = "none" /\ PhaseOf(req.op, pc) = "idle"
    BY <1>1, <1>6, Mapped DEF PhaseOf
  <2>3. /\ PhaseOf(req.op, pc)' = PhaseOf(req.op, pc) /\ req'.len = req.len
        /\ HaveOf(file)' = HaveOf(file) /\ SrcOf(file)' = SrcOf(file)
    BY <1>3, <2>1, <2>2
  <2>4. QED
    BY <2>3, Mapping
<1>7. QED
  BY <1>5, <1>6

\* A command that is not a read changes nothing that is promised.
LEMMA AnsweredMaps ==
  ASSUME Inv, Undisturbed, CommandDone, req.op # "read"
  PROVE  [FileRead!Next]_(FileRead!vars)
<1>1. TypeRequest /\ Asked /\ Pieced
  BY DEF Inv, IInv
<1>2. /\ pc = "returned" /\ file' = file /\ file = <<>> /\ req.op \in {"cmd", "select"}
      /\ pc' = IF req.op = "cmd" \/ req'.left = 0 THEN "ready" ELSE "write"
  BY <1>1 DEF CommandDone, Asked, Talking, Pieced
<1>3. HaveOf(file)' = HaveOf(file) /\ SrcOf(file)' = SrcOf(file)
  BY <1>2 DEF HaveOf, SrcOf
<1>4. CASE req.op = "cmd"
  <2>1. req' = NoReq /\ req.len = 0
    BY <1>1, <1>4 DEF CommandDone, Asked
  <2>2. PhaseOf(req.op, pc)' = PhaseOf(req.op, pc) /\ req'.len = req.len
    BY <1>4, <2>1 DEF PhaseOf, NoReq
  <2>3. QED
    BY <1>3, <2>2, Mapping
<1>5. CASE req.op = "select"
  <2>1. req' = [req EXCEPT !.op = "read"]
    BY <1>5 DEF CommandDone
  <2>2. req \in [op : Ops, name : Names, len : Nat, left : Nat, at : Nat]
    BY <1>1 DEF TypeRequest
  <2>3. req'.op = "read" /\ req'.len = req.len /\ req'.left = req.left
    BY <2>1, <2>2
  <2>4. req.left # 0
    BY <1>1, <1>5, LensAssumption DEF Asked
  <2>5. PhaseOf(req.op, pc)' = PhaseOf(req.op, pc)
    BY <1>2, <1>5, <2>3, <2>4 DEF PhaseOf
  <2>6. QED
    BY <1>3, <2>3, <2>5, Mapping
<1>6. QED
  BY <1>2, <1>4, <1>5

\* A chunk is one Fetch.
LEMMA ChunkMaps ==
  ASSUME Inv, Inv', Undisturbed, CommandDone, req.op = "read", UNCHANGED Port
  PROVE  [FileRead!Next]_(FileRead!vars)
<1>0. Undisturbed'
  BY DEF CommandDone, Undisturbed
<1>1. TypeRequest /\ Asked /\ Pieced /\ TypeRequest' /\ Pieced'
  BY <1>0 DEF Inv, IInv
<1>2. /\ pc = "returned" /\ sel' = sel
      /\ pc' = IF req'.left = 0 THEN "ready" ELSE "write"
  BY DEF CommandDone, board
<1>3. PICK n \in 1..req.left, e \in [at : Nat, n : Int, name : Names] :
        /\ e.at = req.at /\ e.n = n /\ e.name = sel /\ sel \in FilesOfCard
        /\ file' = Append(file, e) /\ file \in Seq([at : Nat, n : Int, name : Names])
        /\ req'.op = "read" /\ req'.len = req.len
        /\ req'.left = req.left - n /\ req'.at = req.at + n
  BY Chunk DEF Inv
<1>4. /\ req.left \in Nat /\ req.at \in Nat /\ req.len \in Nat
      /\ req.at + req.left = req.len
  BY <1>1 DEF TypeRequest, Asked
<1>5. HaveOf(file) = req.at /\ SrcOf(file) = IF file = <<>> THEN "none" ELSE sel
  BY <1>1, Mapped
<1>6. PICK f \in Seq([at : Nat, n : Int, name : Names]) :
        f = file' /\ f # <<>> /\ f[Len(f)] = e
  <2>1. /\ Append(file, e) \in Seq([at : Nat, n : Int, name : Names])
        /\ Append(file, e) # <<>> /\ Append(file, e)[Len(Append(file, e))] = e
    BY <1>3
  <2>2. QED
    BY <1>3, <2>1
<1>7. HaveOf(file)' = req.at + n /\ SrcOf(file)' = sel
  <2>1. \A i \in DOMAIN f : f[i].at = (i - 1) * CHUNK /\ f[i].name = sel
    BY <1>1, <1>2, <1>6 DEF Pieced
  <2>2. HaveOf(f) = e.at + e.n /\ SrcOf(f) = sel
    BY <1>6, <2>1, Whole
  <2>3. QED
    BY <1>3, <1>6, <2>2 DEF HaveOf, SrcOf
<1>8. HaveOf(file)' \in (HaveOf(file) + 1)..req.len
  BY <1>3, <1>4, <1>5, <1>7
<1>9. SrcOf(file)' \in IF SrcOf(file) = "none" THEN FilesOfCard ELSE {SrcOf(file)}
  BY <1>3, <1>5, <1>7
<1>10. PhaseOf(req.op, pc)' = IF HaveOf(file)' = req.len THEN "whole" ELSE "reading"
  <2>1. req'.left = 0 <=> HaveOf(file)' = req.len
    BY <1>3, <1>4, <1>7
  <2>2. QED
    BY <1>2, <1>3, <2>1 DEF PhaseOf
<1>11. PhaseOf(req.op, pc) = "reading"
  BY <1>2 DEF PhaseOf
<1>12. FileRead!Fetch
  BY <1>3, <1>8, <1>9, <1>10, <1>11, Mapping
<1>13. QED
  BY <1>12 DEF FileRead!Next

LEMMA StepMaps ==
  ASSUME Inv, Inv', Undisturbed, [Next]_vars
  PROVE  [FileRead!Next]_(FileRead!vars)
<1>1. CASE OpenNFCDev
  BY <1>1, StutterMaps DEF OpenNFCDev
<1>2. CASE Request
  BY <1>2, RequestMaps
<1>3. CASE InitWrite
  BY <1>3, StutterMaps DEF InitWrite, caller
<1>4. CASE InitRead
  <2>1. req.op \notin {"select", "read"}
    BY <1>4 DEF InitRead, Inv, IInv, Asked, NoReq
  <2>2. QED
    BY <1>4, <2>1, StutterMaps DEF InitRead
<1>5. CASE CmdWrite
  BY <1>5, StutterMaps DEF CmdWrite, caller
<1>6. CASE CmdRead
  <2>1. pc = "read" /\ pc' \in {"read", "returned", "overrun"} /\ UNCHANGED <<req, file>>
    BY <1>6 DEF CmdRead, CopyAnswer, CmdReturns, caller
  <2>2. QED
    BY <2>1, StutterMaps
<1>7. CASE CmdReadNothing
  BY <1>7, StutterMaps DEF CmdReadNothing, CmdReturns, caller
<1>8. CASE CmdReadFails
  <2>1. pc = "read" /\ UNCHANGED <<req, file>>
    BY <1>8 DEF CmdReadFails, caller
  <2>2. pc' \in {"read", "returned"}
    BY <1>8, <2>1 DEF CmdReadFails, CmdReturns
  <2>3. QED
    BY <2>1, <2>2, StutterMaps
<1>9. CASE CommandDone
  <2>1. UNCHANGED Port
    BY DEF Next, SamePort, vars
  <2>2. QED
    BY <1>9, <2>1, AnsweredMaps, ChunkMaps
<1>10. CASE GiveUp \/ CloseNFCDev \/ Crash
  BY <1>10, EndMaps
<1>11. CASE Tick \/ BoardSends
  <2>1. UNCHANGED <<pc, req, file>>
    BY <1>11 DEF Tick, BoardSends, caller
  <2>2. QED
    BY <2>1, StutterMaps
<1>12. CASE UNCHANGED vars
  BY <1>12, StutterMaps DEF vars, caller
<1>13. QED
  BY <1>1, <1>2, <1>3, <1>4, <1>5, <1>6, <1>7, <1>8, <1>9, <1>10, <1>11, <1>12
  DEF Next, Reader

\* NFC_CMD_SELRDFILE implements FileReadSpec in undisturbed sessions: what it
\* returns is whole, its chunks follow each other and are of one file, or it
\* returns nothing, whatever is late, lost or refused.
THEOREM ReadsWhole == Spec => ImplementsFileRead
<1>1. Init => FileRead!Init
  BY StartMaps
<1>2. Inv /\ Inv' /\ [Next]_vars => [Undisturbed => FileRead!Next]_(FileRead!vars)
  BY StepMaps
<1>3. QED
  BY <1>1, <1>2, Invariance, PTL DEF Spec, ImplementsFileRead

\* A reader that hangs on nothing but a serial port implements it without any
\* condition.
COROLLARY SerialReadsWhole ==
  ASSUME Ports = {"serial"} PROVE Spec => FileRead!Spec
<1>1. Init => FileRead!Init
  BY StartMaps
<1>2. Inv /\ Inv' /\ [Next]_vars => [FileRead!Next]_(FileRead!vars)
  <2>1. Inv => Undisturbed
    BY DEF Inv, TypeInv, TypeCaller, Undisturbed
  <2>2. QED
    BY <2>1, StepMaps
<1>3. QED
  BY <1>1, <1>2, Invariance, PTL DEF Spec, FileRead!Spec

-----------------------------------------------------------------------------
(* The room in the buffer                                                  *)

LEMMA RoomNat == ASSUME TypeLine, TypeCmd
                 PROVE  Bytes(wire) \in Nat /\ Bytes(pending) \in Nat /\ Bytes(buff) \in Nat
BY BytesNat DEF TypeLine, TypeCmd

\* The line's variables stay.
LEMMA SameWaiting == ASSUME UNCHANGED <<wire, pending>> PROVE Waiting' = Waiting
BY DEF Waiting

LEMMA OpenRoom ==
  ASSUME TypeCaller, TypeLine, TypeCmd, IInv, Undisturbed, Undisturbed', UNCHANGED Port, RoomInv, OpenNFCDev
  PROVE  RoomInv'
<1>1. pc' = "init" /\ step' = 1 /\ off' = off /\ off <= 130
  BY DEF OpenNFCDev, cmd, RoomInv
<1>2. Port = "otg" => Waiting' = 0
  <2>1. SUFFICES ASSUME Port = "otg" PROVE Waiting' = 0
    OBVIOUS
  <2>2. sessions = 0
    BY <2>1 DEF Undisturbed, OpenNFCDev, TypeCaller
  <2>3. wire = <<>> /\ pending = <<>>
    BY <2>2 DEF IInv, LineClean
  <2>4. wire' = <<>> /\ pending' = <<>>
    BY <2>1, <2>3 DEF OpenNFCDev
  <2>5. QED
    BY <2>4, BytesNone DEF Waiting
<1>3. Port' = Port
  OBVIOUS
<1>4. QED
  BY <1>1, <1>2, <1>3 DEF RoomInv

LEMMA InitWriteRoom ==
  ASSUME TypeCaller, TypeLine, TypeCmd, UNCHANGED Port, RoomInv, InitWrite
  PROVE  RoomInv'
<1>1. PICK r \in Requests : r = [NoReq EXCEPT !.op = "init"]
  BY DEF NoReq, Requests, Ops, Names
<1>2. r.op = "init" /\ WriteCommand(r)
  BY <1>1 DEF InitWrite, NoReq
<1>3. Bytes(pending') <= 15 /\ pending' \in Seq(Pieces)
  BY <1>2, WrittenPieces DEF TypeLine
<1>4. Bytes(pending') \in Nat /\ Bytes(wire) \in Nat /\ Bytes(pending) \in Nat
  BY <1>3, BytesNat, RoomNat
<1>5. /\ pc = "init" /\ pc' = "initread" /\ step' = step /\ step \in Nat
      /\ off' = off /\ wire' = wire /\ Port' = Port
  BY DEF InitWrite, caller, cmd, TypeCaller
<1>6. Waiting' = Bytes(wire) + Bytes(pending')
  BY <1>5 DEF Waiting
<1>7. Port = "otg" \/ step > 1 => Waiting' <= 15 * step
  BY <1>3, <1>4, <1>5, <1>6 DEF RoomInv, Waiting
<1>8. QED
  BY <1>3, <1>5, <1>7 DEF RoomInv

LEMMA InitReadRoom ==
  ASSUME TypeCaller, TypeLine, TypeCmd, UNCHANGED Port, RoomInv, InitRead
  PROVE  RoomInv'
<1>1. PICK k \in Readable : wire' = SubSeq(wire, k + 1, Len(wire))
  BY DEF InitRead
<1>2. k \in 0..Len(wire)
  BY DEF Readable, TypeLine
<1>3. /\ wire' \in Seq(Pieces) /\ SubSeq(wire, 1, k) \in Seq(Pieces)
      /\ Bytes(wire) = Bytes(SubSeq(wire, 1, k)) + Bytes(wire')
  BY <1>1, <1>2, BytesCut DEF TypeLine
<1>4. PICK t \in Nat : t = Bytes(SubSeq(wire, 1, k))
  BY <1>3, BytesNat
<1>5. Bytes(wire') \in Nat /\ Bytes(wire) \in Nat /\ Bytes(pending) \in Nat
  BY <1>3, BytesNat, RoomNat
<1>6. /\ pc = "initread" /\ step' = step + 1 /\ step \in Nat /\ step > 0 /\ off' = off
      /\ pending' = pending /\ Port' = Port
      /\ pc' = IF step = 5 THEN "ready" ELSE "init"
  BY DEF InitRead, cmd, TypeCaller, INITSTEPS
<1>7. Port = "serial" => Bytes(wire') = 0
  <2>1. SUFFICES ASSUME Port = "serial" PROVE Bytes(wire') = 0
    OBVIOUS
  <2>2. k = Len(wire) /\ Len(wire) \in Nat
    BY <2>1 DEF Readable, TypeLine
  <2>3. wire' = <<>>
    BY <1>1, <2>2 DEF TypeLine
  <2>4. QED
    BY <2>3, BytesNone
<1>8. Waiting' = Bytes(wire') + Bytes(pending) /\ Waiting' <= Waiting
  BY <1>3, <1>4, <1>5, <1>6 DEF Waiting
<1>9. Waiting' <= 15 * step
  <2>1. CASE Port = "otg" \/ step > 1
    BY <1>5, <1>6, <1>8, <2>1 DEF RoomInv, Waiting
  <2>2. CASE Port = "serial" /\ step = 1
    BY <1>5, <1>6, <1>7, <1>8, <2>2 DEF RoomInv
  <2>3. Port \in {"serial", "otg"}
    BY PortAssumption DEF TypeCaller
  <2>4. QED
    BY <1>6, <2>1, <2>2, <2>3
<1>10. CASE step = 5
  BY <1>6, <1>9, <1>10 DEF RoomInv
<1>11. CASE step # 5
  BY <1>6, <1>9, <1>11 DEF RoomInv
<1>12. QED
  BY <1>10, <1>11

LEMMA RequestRoom ==
  ASSUME UNCHANGED Port, RoomInv, Request
  PROVE  RoomInv'
<1>1. /\ pc = "ready" /\ pc' = "write" /\ off' = off /\ UNCHANGED <<wire, pending>>
  BY DEF Request, cmd, board
<1>2. req'.op \in {"cmd", "select"}
  BY DEF Request, NoReq
<1>3. Waiting' = Waiting
  BY <1>1, SameWaiting
<1>4. QED
  BY <1>1, <1>2, <1>3 DEF RoomInv

LEMMA CmdWriteRoom ==
  ASSUME TypeCaller, TypeLine, TypeCmd, AskInv, UNCHANGED Port, RoomInv, CmdWrite
  PROVE  RoomInv'
<1>1. WriteCommand(req) /\ pc = "write" /\ pc' = "read" /\ wire' = wire /\ buff' = <<>> /\ off' = 0
  BY DEF CmdWrite, NoLocals
<1>2. req \in Requests /\ req.op \in {"cmd", "select", "read"}
  BY <1>1 DEF AskInv, Asked, Talking
<1>3. /\ pending' \in Seq(Pieces)
      /\ Bytes(pending') <= CASE req.op = "init" -> 15 [] req.op = "read" -> 130 [] OTHER -> 18
  <2>1. req.op = "select" => req.name \in FilesOfCard
    BY DEF AskInv, Asked
  <2>2. QED
    BY <1>1, <1>2, <2>1, WrittenPieces DEF TypeLine
<1>4. Bytes(pending') \in Nat /\ Bytes(wire) \in Nat /\ Bytes(pending) \in Nat /\ Bytes(buff') = 0
  BY <1>1, <1>3, BytesNat, BytesNone, RoomNat
<1>5. Waiting' = Bytes(wire) + Bytes(pending')
  BY <1>1 DEF Waiting
<1>6. Waiting' <= 130
  <2>1. CASE req.op = "read"
    <3>1. Bytes(pending') <= 130
      BY <1>3, <2>1
    <3>2. Bytes(wire) + Bytes(pending) = 0
      BY <1>1, <2>1 DEF RoomInv, Waiting
    <3>3. QED
      BY <1>4, <1>5, <3>1, <3>2
  <2>2. CASE req.op # "read"
    <3>1. Bytes(pending') <= 18
      BY <1>2, <1>3, <2>2
    <3>2. Bytes(wire) + Bytes(pending) <= 75
      BY <1>1 DEF RoomInv, Waiting
    <3>3. QED
      BY <1>4, <1>5, <3>1, <3>2
  <2>3. QED
    BY <2>1, <2>2
<1>7. 0 + Waiting' <= 130
  BY <1>4, <1>5, <1>6
<1>8. QED
  BY <1>1, <1>4, <1>7 DEF RoomInv

LEMMA CmdReadRoom ==
  ASSUME TypeCaller, TypeLine, TypeCmd, UNCHANGED Port, RoomInv, CmdRead
  PROVE  RoomInv'
<1>1. PICK k \in Readable \ {0} :
        /\ wire' = SubSeq(wire, k + 1, Len(wire))
        /\ buff' = buff \o SubSeq(wire, 1, k)
        /\ off' = off + Bytes(SubSeq(wire, 1, k))
  BY DEF CmdRead
<1>2. k \in 0..Len(wire)
  BY DEF Readable, TypeLine
<1>3. /\ wire' \in Seq(Pieces) /\ SubSeq(wire, 1, k) \in Seq(Pieces)
      /\ Bytes(wire) = Bytes(SubSeq(wire, 1, k)) + Bytes(wire')
  BY <1>1, <1>2, BytesCut DEF TypeLine
<1>4. Bytes(buff') = Bytes(buff) + Bytes(SubSeq(wire, 1, k))
  <2>1. buff \in Seq(OnLine) /\ SubSeq(wire, 1, k) \in Seq(OnLine)
    BY <1>3, PiecesOnLine DEF TypeCmd
  <2>2. QED
    BY <1>1, <2>1, BytesCat
<1>5. PICK t \in Nat : t = Bytes(SubSeq(wire, 1, k))
  BY <1>3, BytesNat
<1>6. Bytes(wire') \in Nat /\ Bytes(wire) \in Nat /\ Bytes(pending) \in Nat /\ Bytes(buff) \in Nat
  BY <1>3, BytesNat, RoomNat
<1>7. pc = "read" /\ off \in Int /\ pending' = pending
  BY DEF CmdRead, TypeCmd
<1>8. off <= Bytes(buff) /\ Bytes(buff) + (Bytes(wire) + Bytes(pending)) <= 130
  BY <1>7 DEF RoomInv, Waiting
<1>9. Waiting' = Bytes(wire') + Bytes(pending)
  BY <1>7 DEF Waiting
<1>10. /\ off' <= Bytes(buff') /\ Bytes(buff') + Waiting' <= 130 /\ off' <= 130
  <2>1. off' = off + t /\ Bytes(buff') = Bytes(buff) + t /\ Bytes(wire) = t + Bytes(wire')
    BY <1>1, <1>3, <1>4, <1>5
  <2>2. QED
    BY <1>6, <1>7, <1>8, <1>9, <2>1
<1>11. pc' \in {"read", "returned", "overrun"}
  BY <1>7 DEF CmdRead, CopyAnswer, CmdReturns
<1>12. QED
  BY <1>10, <1>11 DEF RoomInv

LEMMA CmdWaitsRoom ==
  ASSUME TypeLine, TypeCmd, UNCHANGED Port, RoomInv, CmdReadNothing \/ CmdReadFails \/ Tick
  PROVE  RoomInv'
<1>1. /\ pc = "read" /\ UNCHANGED <<buff, wire, pending>> /\ off \in Int
      /\ off' = off \/ off' = off - 1
  BY DEF CmdReadNothing, CmdReadFails, Tick, board, TypeCmd
<1>2. pc' \in {"read", "returned"}
  BY <1>1 DEF CmdReadNothing, CmdReadFails, Tick, CmdReturns
<1>3. Waiting' = Waiting
  BY <1>1, SameWaiting
<1>4. Bytes(buff) \in Nat /\ off <= 130 /\ off <= Bytes(buff) /\ Bytes(buff) + Waiting <= 130
  BY <1>1, RoomNat DEF RoomInv
<1>5. off' <= 130 /\ off' <= Bytes(buff)
  BY <1>1, <1>4
<1>6. Bytes(buff') = Bytes(buff)
  BY <1>1
<1>7. QED
  BY <1>2, <1>3, <1>4, <1>5, <1>6 DEF RoomInv

LEMMA SendsRoom ==
  ASSUME TypeCaller, TypeLine, TypeCmd, UNCHANGED Port, RoomInv, BoardSends
  PROVE  RoomInv'
<1>1. /\ Bytes(wire') + Bytes(pending') = Bytes(wire) + Bytes(pending)
      /\ Bytes(pending') <= Bytes(pending) /\ pending' \in Seq(Pieces)
  BY BytesMove DEF TypeLine, BoardSends
<1>2. Bytes(pending') \in Nat /\ Bytes(pending) \in Nat
  BY <1>1, BytesNat, RoomNat
<1>3. Waiting' = Waiting
  BY <1>1 DEF Waiting
<1>4. UNCHANGED <<pc, step, req, off, buff>> /\ Port' = Port
  BY DEF BoardSends, caller, cmd
<1>5. Bytes(buff') = Bytes(buff)
  BY <1>4
<1>6. pc = "initread" => Bytes(pending') <= 15
  BY <1>1, <1>2 DEF RoomInv
<1>7. QED
  BY <1>3, <1>4, <1>5, <1>6 DEF RoomInv

LEMMA DoneRoom ==
  ASSUME IInv, Undisturbed, UNCHANGED Port, RoomInv, CommandDone
  PROVE  RoomInv'
<1>1. wire = <<>> /\ pending = <<>>
  BY Accepted DEF CommandDone
<1>2. /\ UNCHANGED <<wire, pending>> /\ off' = 0 /\ pc' \in {"ready", "write"}
  BY DEF CommandDone, board, NoLocals
<1>3. Waiting' = 0
  BY <1>1, <1>2, BytesNone DEF Waiting
<1>4. QED
  BY <1>2, <1>3 DEF RoomInv

LEMMA CloseRoom ==
  ASSUME RoomInv, GiveUp \/ CloseNFCDev \/ Crash
  PROVE  RoomInv'
BY DEF GiveUp, CloseNFCDev, Crash, NoLocals, RoomInv

\* InitNFC has emptied the line.
LEMMA DrainedRoom ==
  ASSUME TypeCmd, InitRead, ~Undisturbed, UNCHANGED Port, Undisturbed'
  PROVE  RoomInv'
<1>1. /\ pc = "initread" /\ off' = off /\ sessions' = sessions
      /\ drained' = (step = INITSTEPS /\ wire' = <<>> /\ pending = <<>>)
      /\ pending' = pending
      /\ pc' = IF step = INITSTEPS THEN "ready" ELSE "init"
  BY DEF InitRead, cmd
<1>2. pc' = "ready" /\ wire' = <<>> /\ pending' = <<>>
  BY <1>1 DEF Undisturbed
<1>3. Waiting' = 0
  BY <1>2, BytesNone DEF Waiting
<1>4. off' = 0
  BY <1>1 DEF TypeCmd
<1>5. QED
  BY <1>2, <1>3, <1>4 DEF RoomInv

LEMMA RoomNext ==
  ASSUME TypeInv, AskInv, IInv, Undisturbed, Undisturbed', RoomInv, [Next]_vars
  PROVE  RoomInv'
<1>1. TypeCaller /\ TypeLine /\ TypeCmd
  BY DEF TypeInv
<1>2. UNCHANGED Port
  BY DEF Next, SamePort, vars
<1>3. CASE OpenNFCDev
  BY <1>1, <1>2, <1>3, OpenRoom
<1>4. CASE Request
  BY <1>2, <1>4, RequestRoom
<1>5. CASE Reader
  <2>1. CASE InitWrite
    BY <1>1, <1>2, <2>1, InitWriteRoom
  <2>2. CASE InitRead
    BY <1>1, <1>2, <2>2, InitReadRoom
  <2>3. CASE CmdWrite
    BY <1>1, <1>2, <2>3, CmdWriteRoom
  <2>4. CASE CmdRead
    BY <1>1, <1>2, <2>4, CmdReadRoom
  <2>5. CASE CmdReadNothing \/ CmdReadFails
    BY <1>1, <1>2, <2>5, CmdWaitsRoom
  <2>6. CASE CommandDone
    BY <1>2, <2>6, DoneRoom
  <2>7. CASE GiveUp \/ CloseNFCDev \/ Crash
    BY <2>7, CloseRoom
  <2>8. QED
    BY <1>5, <2>1, <2>2, <2>3, <2>4, <2>5, <2>6, <2>7 DEF Reader
<1>6. CASE Tick
  BY <1>1, <1>2, <1>6, CmdWaitsRoom
<1>7. CASE BoardSends
  BY <1>1, <1>2, <1>7, SendsRoom
<1>8. CASE UNCHANGED vars
  <2>1. UNCHANGED <<pc, step, req, off, buff, wire, pending, Port>>
    BY <1>8 DEF vars, caller, cmd, board
  <2>2. Waiting' = Waiting /\ Bytes(buff') = Bytes(buff) /\ Bytes(pending') = Bytes(pending)
    BY <2>1, SameWaiting
  <2>3. QED
    BY <2>1, <2>2 DEF RoomInv
<1>9. QED
  BY <1>3, <1>4, <1>5, <1>6, <1>7, <1>8 DEF Next

LEMMA Rooms == Spec => [](Undisturbed => RoomInv)
<1>1. Init => (Undisturbed => RoomInv)
  BY DEF Init, RoomInv
<1>2. /\ Inv /\ TypeInv /\ AskInv /\ (Undisturbed => RoomInv) /\ [Next]_vars
      => (Undisturbed => RoomInv)'
  <2> SUFFICES ASSUME Inv, TypeInv, AskInv, Undisturbed => RoomInv, [Next]_vars, Undisturbed'
               PROVE  RoomInv'
    OBVIOUS
  <2>1. IInv
    BY DEF Inv
  <2>2. UNCHANGED Port
    BY DEF Next, SamePort, vars
  <2>3. CASE Undisturbed
    BY <2>1, <2>3, RoomNext
  <2>4. CASE ~Undisturbed
    BY <2>2, <2>4, OnlyInitNFC, DrainedRoom DEF TypeInv
  <2>5. QED
    BY <2>3, <2>4
<1>3. QED
  BY <1>1, <1>2, Invariance, Types, PTL DEF Spec

\* However often its reads fail, and each failure takes one off off, no read
\* of CmdRequest starts outside the buffer.
THEOREM StartsInBuffer == Spec => []StartsInside
<1>1. TypeInv /\ AskInv => StartsInside
  <2>1. SUFFICES ASSUME TypeCmd, pc = "read" PROVE off \in 0..(BUFFSIZE - 1)
    BY DEF TypeInv, StartsInside
  <2>2. QED
    BY <2>1 DEF TypeCmd, BUFFSIZE
<1>2. QED
  BY <1>1, Types, PTL

\* The pieces of answers that have a length to be copied.
Long == {p \in Pieces : p.n >= 0}

\* When InitNFC has left nothing on the line, no answer to one of its commands
\* reaches a command of the caller.
CopyInv ==
  drained =>
    /\ pc \notin {"init", "initread", "overrun"}
    /\ wire \in Seq(Long) /\ pending \in Seq(Long)
    /\ pc = "read" => buff \in Seq(Long)

LEMMA WrittenLong ==
  ASSUME NEW r \in Requests, r.op # "init", r.op = "select" => r.name \in FilesOfCard,
         sel \in Selected, sent \in Nat, WriteCommand(r)
  PROVE  pending' \in Seq(Long)
<1>1. PICK n \in Answers(r) :
        pending' = AnswerOf(sent + 1, n, [r EXCEPT !.name =
                              IF r.op = "read" THEN sel ELSE r.name])
  BY DEF WriteCommand
<1>2. n \in Int /\ n >= 0
  <2>1. Want(r) \in Int /\ 2 <= Want(r)
    BY DEF Want, RdLen, CHUNK, Requests
  <2>2. n \in {Want(r), 0, 2}
    BY DEF Answers
  <2>3. QED
    BY <2>1, <2>2
<1>3. PICK a, h, e : /\ pending' = <<a, h, e>>
                     /\ a.n = n /\ h.n = n /\ e.n = n
  BY <1>1 DEF AnswerOf, Piece
<1>4. pending' \in Seq(Pieces)
  BY WrittenPieces
<1>5. a \in Pieces /\ h \in Pieces /\ e \in Pieces
  <2>1. /\ Len(pending') = 3 /\ pending'[1] = a /\ pending'[2] = h /\ pending'[3] = e
    BY <1>3
  <2>2. \A i \in 1..3 : pending'[i] \in Pieces
    <3>1. DOMAIN pending' = 1..3
      BY <1>4, <2>1
    <3>2. QED
      BY <1>4, <3>1
  <2>3. QED
    BY <2>1, <2>2
<1>6. a \in Long /\ h \in Long /\ e \in Long
  BY <1>2, <1>3, <1>5 DEF Long
<1>7. QED
  BY <1>3, <1>6

\* What is read of a long line, and what is left of it.
LEMMA LongCut ==
  ASSUME NEW s \in Seq(Long), NEW b \in Seq(Long), NEW k \in 0..Len(s)
  PROVE  /\ SubSeq(s, k + 1, Len(s)) \in Seq(Long)
         /\ b \o SubSeq(s, 1, k) \in Seq(Long)
<1>1. SubSeq(s, 1, k) \in Seq(Long) /\ SubSeq(s, k + 1, Len(s)) \in Seq(Long)
  OBVIOUS
<1>2. QED
  BY <1>1

LEMMA CmdReadCopy ==
  ASSUME TypeInv, CopyInv, CmdRead
  PROVE  CopyInv'
<1>1. SUFFICES ASSUME drained PROVE CopyInv'
  BY DEF CmdRead, caller, CopyInv
<1>2. /\ wire \in Seq(Long) /\ pending \in Seq(Long) /\ buff \in Seq(Long)
      /\ pc = "read" /\ pending' = pending
  BY <1>1 DEF CopyInv, CmdRead
<1>0. PICK k \in Readable \ {0} :
        LET b == buff \o SubSeq(wire, 1, k)
            o == off + Bytes(SubSeq(wire, 1, k))
        IN  /\ wire' = SubSeq(wire, k + 1, Len(wire)) /\ buff' = b
            /\ \/ Complete(b, o) /\ CopyAnswer(b[3])
               \/ pc' \in {"read", "returned"}
  BY <1>2 DEF CmdRead, CmdReturns
<1>3. PICK b, o :
        /\ b = buff \o SubSeq(wire, 1, k)
        /\ wire' = SubSeq(wire, k + 1, Len(wire)) /\ buff' = b
        /\ \/ Complete(b, o) /\ CopyAnswer(b[3])
           \/ pc' \in {"read", "returned"}
  BY <1>0
<1>4. k \in 0..Len(wire)
  BY <1>2 DEF Readable
<1>5. wire' \in Seq(Long) /\ b \in Seq(Long)
  BY <1>2, <1>3, <1>4, LongCut
<1>6. pc' \in {"read", "returned"}
  <2>1. CASE Complete(b, o) /\ CopyAnswer(b[3])
    <3>1. Len(b) = 3
      BY <2>1 DEF Complete
    <3>2. b[3] \in Long
      <4>1. 3 \in DOMAIN b
        BY <1>5, <3>1
      <4>2. QED
        BY <1>5, <4>1
    <3>3. ~(b[3].n < 0)
      BY <3>2 DEF Long, Pieces
    <3>4. QED
      BY <2>1, <3>3 DEF CopyAnswer, CmdReturns
  <2>2. QED
    BY <1>3, <2>1
<1>7. QED
  BY <1>2, <1>3, <1>5, <1>6 DEF CopyInv

LEMMA CopyNext ==
  ASSUME TypeInv, AskInv, CopyInv, [Next]_vars
  PROVE  CopyInv'
<1>1. CASE CmdRead
  BY <1>1, CmdReadCopy
<1>2. CASE OpenNFCDev
  BY <1>2 DEF OpenNFCDev, CopyInv
<1>3. CASE InitWrite
  BY <1>3 DEF InitWrite, caller, CopyInv
<1>4. CASE InitRead
  <2>1. drained' => wire' = <<>> /\ pending' = <<>> /\ pc' = "ready"
    BY <1>4 DEF InitRead
  <2>2. QED
    BY <2>1 DEF CopyInv
<1>5. CASE CmdWrite
  <2>1. /\ pc = "write" /\ pc' = "read" /\ buff' = <<>> /\ wire' = wire /\ drained' = drained
        /\ WriteCommand(req)
    BY <1>5 DEF CmdWrite, NoLocals, caller
  <2>2. pending' \in Seq(Long)
    BY <2>1, WrittenLong DEF AskInv, Asked, Talking, TypeInv, TypeLine
  <2>3. QED
    BY <2>1, <2>2 DEF CopyInv
<1>6. CASE BoardSends
  <2>1. /\ pending # <<>> /\ wire' = Append(wire, Head(pending)) /\ pending' = Tail(pending)
        /\ UNCHANGED <<pc, drained, buff>>
    BY <1>6 DEF BoardSends, caller, cmd
  <2>2. ASSUME drained PROVE wire' \in Seq(Long) /\ pending' \in Seq(Long)
    <3>1. wire \in Seq(Long) /\ pending \in Seq(Long)
      BY <2>2 DEF CopyInv
    <3>2. Head(pending) \in Long /\ Tail(pending) \in Seq(Long)
      BY <2>1, <3>1
    <3>3. QED
      BY <2>1, <3>1, <3>2
  <2>3. QED
    BY <2>1, <2>2 DEF CopyInv
<1>7. CASE Request \/ CommandDone \/ GiveUp \/ CloseNFCDev \/ Crash
  <2>1. /\ UNCHANGED <<drained, wire, pending>>
        /\ pc' \in {"write", "ready", "closed"}
    BY <1>7 DEF Request, CommandDone, GiveUp, CloseNFCDev, Crash, board
  <2>2. QED
    BY <2>1 DEF CopyInv
<1>8. CASE CmdReadNothing \/ CmdReadFails \/ Tick
  <2>1. /\ UNCHANGED <<drained, wire, pending, buff>> /\ pc = "read"
    BY <1>8 DEF CmdReadNothing, CmdReadFails, Tick, caller, board
  <2>2. pc' \in {"read", "returned"}
    BY <1>8, <2>1 DEF CmdReadNothing, CmdReadFails, Tick, CmdReturns
  <2>3. QED
    BY <2>1, <2>2 DEF CopyInv
<1>9. CASE UNCHANGED vars
  <2>1. UNCHANGED <<pc, drained, wire, pending, buff>>
    BY <1>9 DEF vars, caller, cmd, board
  <2>2. QED
    BY <2>1 DEF CopyInv
<1>10. QED
  BY <1>1, <1>2, <1>3, <1>4, <1>5, <1>6, <1>7, <1>8, <1>9 DEF Next, Reader

LEMMA Copies == Spec => []CopyInv
<1>1. Init => CopyInv
  BY DEF Init, CopyInv
<1>2. QED
  BY <1>1, CopyNext, Types, PTL DEF Spec

\* The receive loop stays inside its buffers.  Every read starts in them.  In
\* undisturbed sessions no read gets more bytes than there are, although each
\* is offered sizeof(buff): at most 130 of the 156 can arrive, the ACK and the
\* answer of the longest chunk; the 75 bytes that InitNFC may leave on the line
\* are gone by then, read with the answer of an earlier and shorter command.
\* And what is copied has a length when InitNFC has left nothing on the line.
\* That last condition is one on the serial port too: an answer of InitNFC's
\* that is read late is copied with the length -1.
THEOREM StaysInside == Spec => []InsideBuffer
<1>1. (Undisturbed => RoomInv) /\ TypeInv => BufferHolds
  <2>1. SUFFICES ASSUME RoomInv, TypeCmd PROVE off <= BUFFSIZE
    BY DEF TypeInv, BufferHolds
  <2>2. off \in Int /\ off <= 130
    BY <2>1 DEF TypeCmd, RoomInv
  <2>3. QED
    BY <2>2 DEF BUFFSIZE
<1>2. CopyInv => CopyHolds
  BY DEF CopyInv, CopyHolds
<1>3. StartsInside /\ BufferHolds /\ CopyHolds => InsideBuffer
  BY DEF InsideBuffer
<1>4. QED
  BY <1>1, <1>2, <1>3, Rooms, Types, StartsInBuffer, Copies, PTL

-----------------------------------------------------------------------------
(* A request gets shorter with every step                                  *)

\* More than the steps that are left of a request: of its commands, of the
\* one under way, of the wait for it, and of what is on the line.  A file needs
\* at most a command for each of its bytes.
CommandsLeft == CASE req.op = "select" -> req.left + 1
                  [] req.op = "read"   -> req.left
                  [] OTHER             -> 1
Stage     == CASE pc = "write" -> 12 [] pc = "read" -> 1 [] OTHER -> 0
OnTheLine == 2 * Len(pending) + Len(wire)
Remaining == 20 * CommandsLeft + Stage + (RECV_TIMEOUT - secs) + OnTheLine

Shortens ==
  pc \in Talking => pc' \in {"ready", "closed"} \/ Remaining' \in 0..(Remaining - 1)

Measured ==
  /\ CommandsLeft \in Nat /\ Stage \in 0..12
  /\ secs \in 0..2 /\ OnTheLine \in Nat

LEMMA MeasuredAlways == TypeInv /\ AskInv => Measured
<1> SUFFICES ASSUME TypeInv, AskInv PROVE Measured
  OBVIOUS
<1>1. req.left \in Nat
  BY DEF AskInv, Requests
<1>2. CommandsLeft \in Nat
  BY <1>1 DEF CommandsLeft
<1>3. Len(pending) \in Nat /\ Len(wire) \in Nat
  BY DEF TypeInv, TypeLine
<1>4. OnTheLine \in Nat
  BY <1>3 DEF OnTheLine
<1>5. secs \in 0..2
  BY DEF TypeInv, TypeCmd, RECV_TIMEOUT
<1>6. Stage \in 0..12
  BY DEF Stage
<1>7. QED
  BY <1>2, <1>4, <1>5, <1>6 DEF Measured

LEMMA MeasuredNext == TypeInv' /\ AskInv' => Measured'
BY MeasuredAlways, PTL

\* The step of each kind: a wait or a piece of the line, the end of a command,
\* the start of one, the next command.
LEMMA LeavesLess ==
  ASSUME Measured, Measured',
         \/ /\ CommandsLeft' = CommandsLeft /\ Stage' <= Stage
            /\ \/ secs' = secs /\ OnTheLine' < OnTheLine
               \/ secs' = secs + 1 /\ OnTheLine' = OnTheLine
         \/ /\ CommandsLeft' = CommandsLeft /\ Stage' < Stage
            /\ secs' >= secs /\ OnTheLine' <= OnTheLine
         \/ /\ CommandsLeft' = CommandsLeft /\ Stage = 12 /\ Stage' = 1
            /\ OnTheLine' <= OnTheLine + 6
         \/ /\ CommandsLeft' < CommandsLeft /\ Stage' <= 12
            /\ OnTheLine' = OnTheLine
  PROVE  Remaining' \in 0..(Remaining - 1)
<1>1. PICK c \in Nat, s \in 0..12, t \in 0..2, l \in Nat :
        c = CommandsLeft /\ s = Stage /\ t = secs /\ l = OnTheLine
  BY DEF Measured
<1>2. PICK c2 \in Nat, s2 \in 0..12, t2 \in 0..2, l2 \in Nat :
        c2 = CommandsLeft' /\ s2 = Stage' /\ t2 = secs' /\ l2 = OnTheLine'
  BY DEF Measured
<1>3. Remaining = 20 * c + s + (2 - t) + l
  BY <1>1 DEF Remaining, RECV_TIMEOUT
<1>4. Remaining' = 20 * c2 + s2 + (2 - t2) + l2
  BY <1>2 DEF Remaining, RECV_TIMEOUT
<1>5. \/ c2 = c /\ s2 <= s /\ ((t2 = t /\ l2 < l) \/ (t2 = t + 1 /\ l2 = l))
      \/ c2 = c /\ s2 < s /\ t2 >= t /\ l2 <= l
      \/ c2 = c /\ s = 12 /\ s2 = 1 /\ l2 <= l + 6
      \/ c2 < c /\ s2 <= 12 /\ l2 = l
  BY <1>1, <1>2
<1>6. 20 * c2 + s2 + (2 - t2) + l2 \in 0..(20 * c + s + (2 - t) + l - 1)
  BY <1>5
<1>7. QED
  BY <1>3, <1>4, <1>6

LEMMA ReadTakes ==
  ASSUME TypeInv, CmdRead
  PROVE  /\ OnTheLine' < OnTheLine /\ secs' = secs /\ req' = req
         /\ pc = "read" /\ pc' \in {"read", "returned", "overrun"}
<1>1. PICK k \in Readable \ {0} : wire' = SubSeq(wire, k + 1, Len(wire))
  BY DEF CmdRead
<1>2. k \in 1..Len(wire) /\ wire \in Seq(Pieces)
  BY <1>1 DEF Readable, TypeInv, TypeLine
<1>3. Len(wire') = Len(wire) - k
  BY <1>1, <1>2
<1>4. pending' = pending /\ Len(pending) \in Nat
  BY DEF CmdRead, TypeInv, TypeLine
<1>5. OnTheLine' < OnTheLine
  <2>1. PICK w \in Nat, w2 \in Nat, p \in Nat :
          /\ w = Len(wire) /\ w2 = Len(wire') /\ p = Len(pending) /\ w2 < w
    BY <1>2, <1>3, <1>4
  <2>2. QED
    BY <1>4, <2>1 DEF OnTheLine
<1>6. pc = "read" /\ pc' \in {"read", "returned", "overrun"}
  BY DEF CmdRead, CopyAnswer, CmdReturns
<1>7. QED
  BY <1>5, <1>6 DEF CmdRead, caller

LEMMA SendingTakes ==
  ASSUME TypeInv, BoardSends
  PROVE  OnTheLine' < OnTheLine /\ UNCHANGED <<secs, req, pc>>
<1>1. /\ pending # <<>> /\ wire' = Append(wire, Head(pending)) /\ pending' = Tail(pending)
      /\ wire \in Seq(Pieces) /\ pending \in Seq(Pieces)
  BY DEF BoardSends, TypeInv, TypeLine
<1>2. Len(wire') = Len(wire) + 1 /\ Len(pending') = Len(pending) - 1
  BY <1>1
<1>3. PICK w \in Nat, p \in Nat : w = Len(wire) /\ p = Len(pending)
  BY <1>1
<1>4. OnTheLine' = 2 * (p - 1) + (w + 1) /\ OnTheLine = 2 * p + w
  BY <1>2, <1>3 DEF OnTheLine
<1>5. QED
  BY <1>3, <1>4 DEF BoardSends, caller, cmd

LEMMA WritingAdds ==
  ASSUME TypeInv, AskInv, CmdWrite
  PROVE  /\ OnTheLine' <= OnTheLine + 6
         /\ pc = "write" /\ pc' = "read" /\ req' = req
<1>1. WriteCommand(req) /\ wire' = wire /\ pc = "write" /\ pc' = "read" /\ req' = req
  BY DEF CmdWrite, caller
<1>2. PICK n, r : pending' = AnswerOf(sent + 1, n, r)
  BY <1>1 DEF WriteCommand
<1>3. Len(pending') = 3
  BY <1>2 DEF AnswerOf
<1>4. PICK w \in Nat, p \in Nat : w = Len(wire) /\ p = Len(pending)
  BY DEF TypeInv, TypeLine
<1>5. OnTheLine' = 6 + w /\ OnTheLine = 2 * p + w
  BY <1>1, <1>3, <1>4 DEF OnTheLine
<1>6. QED
  BY <1>1, <1>4, <1>5

LEMMA DoneTakes ==
  ASSUME TypeInv, AskInv, CommandDone, pc' # "ready"
  PROVE  /\ CommandsLeft' < CommandsLeft
         /\ UNCHANGED <<wire, pending>>
<1>1. /\ pc = "returned" /\ Accepts(req, ret) /\ pc' = "write" /\ req.op # "cmd"
      /\ UNCHANGED <<wire, pending>>
  BY DEF CommandDone, board
<1>2. req \in Requests /\ req.left \in Nat /\ req.op \in {"select", "read"}
  BY <1>1 DEF AskInv, Asked, Talking, Requests
<1>3. CASE req.op = "select"
  <2>1. req' = [req EXCEPT !.op = "read"]
    BY <1>3 DEF CommandDone
  <2>2. req'.op = "read" /\ req'.left = req.left
    BY <1>2, <2>1 DEF Requests
  <2>3. QED
    BY <1>1, <1>2, <1>3, <2>2 DEF CommandsLeft
<1>4. CASE req.op = "read"
  <2>1. ret - 2 \in 1..req.left
    BY <1>1, <1>4, TakenChunk DEF TypeInv, TypeCmd
  <2>2. req' = [req EXCEPT !.left = @ - (ret - 2), !.at = @ + (ret - 2)]
    BY <1>4 DEF CommandDone
  <2>3. req'.op = "read" /\ req'.left = req.left - (ret - 2)
    BY <1>2, <1>4, <2>2 DEF Requests
  <2>4. PICK d \in Int, n \in Nat : d = ret - 2 /\ n = req.left /\ 1 <= d
    BY <1>2, <2>1
  <2>5. req'.left < req.left
    BY <2>3, <2>4
  <2>6. QED
    BY <1>1, <1>4, <2>3, <2>5 DEF CommandsLeft
<1>5. QED
  BY <1>2, <1>3, <1>4

LEMMA ShortensStep ==
  TypeInv /\ AskInv /\ TypeInv' /\ AskInv' /\ [Next]_vars => [Shortens]_vars
<1> SUFFICES ASSUME TypeInv, AskInv, TypeInv', AskInv', Next,
                    pc \in Talking, pc' \notin {"ready", "closed"}
             PROVE  Remaining' \in 0..(Remaining - 1)
  BY DEF Shortens
<1>0. Measured /\ Measured'
  BY MeasuredAlways, MeasuredNext
<1>1. CASE CmdWrite
  <2>1. CommandsLeft' = CommandsLeft /\ Stage = 12 /\ Stage' = 1
    BY <1>1, WritingAdds DEF CommandsLeft, Stage
  <2>2. QED
    BY <1>0, <1>1, <2>1, WritingAdds, LeavesLess
<1>2. CASE CmdRead
  <2>1. CommandsLeft' = CommandsLeft /\ Stage = 1 /\ (Stage' = 0 \/ Stage' = 1)
    BY <1>2, ReadTakes DEF CommandsLeft, Stage
  <2>2. QED
    BY <1>0, <1>2, <2>1, ReadTakes, LeavesLess
<1>3. CASE CmdReadNothing \/ CmdReadFails \/ Tick
  <2>1. /\ pc = "read" /\ UNCHANGED <<req, wire, pending>>
        /\ \/ secs' = secs + 1 /\ pc' = "read"
           \/ secs' = secs + 1 /\ pc' = "returned"
           \/ secs' = secs /\ pc' = "returned"
    BY <1>3 DEF CmdReadNothing, CmdReadFails, Tick, CmdReturns, caller, board
  <2>2. CommandsLeft' = CommandsLeft /\ OnTheLine' = OnTheLine
    BY <2>1 DEF CommandsLeft, OnTheLine
  <2>3. Stage = 1 /\ Stage' = IF pc' = "read" THEN 1 ELSE 0
    BY <2>1 DEF Stage
  <2>4. OnTheLine \in Nat /\ secs \in Int
    BY <1>0 DEF Measured
  <2>5. QED
    BY <1>0, <2>1, <2>2, <2>3, <2>4, LeavesLess
<1>4. CASE CommandDone
  <2>1. CommandsLeft' < CommandsLeft /\ UNCHANGED <<wire, pending>>
    BY <1>4, DoneTakes
  <2>2. OnTheLine' = OnTheLine /\ Stage' <= 12
    BY <1>0, <2>1 DEF OnTheLine, Measured
  <2>3. QED
    BY <1>0, <2>1, <2>2, LeavesLess
<1>5. CASE BoardSends
  <2>1. CommandsLeft' = CommandsLeft /\ Stage' = Stage
    BY <1>5, SendingTakes DEF CommandsLeft, Stage
  <2>2. Stage \in Int
    BY <1>0 DEF Measured
  <2>3. QED
    BY <1>0, <1>5, <2>1, <2>2, SendingTakes, LeavesLess
<1>6. /\ ~OpenNFCDev /\ ~Request /\ ~InitWrite /\ ~InitRead
      /\ ~GiveUp /\ ~CloseNFCDev /\ ~Crash
  BY DEF OpenNFCDev, Request, InitWrite, InitRead, GiveUp, CloseNFCDev, Crash, Talking
<1>7. QED
  BY <1>1, <1>2, <1>3, <1>4, <1>5, <1>6 DEF Next, Reader

\* Nothing that a request does can be repeated for ever: every step of CmdRequest,
\* of its caller, of the board and of the clock ends the request or leaves
\* fewer commands of it, less time or less on the line, on either port and
\* whatever the card answers.
THEOREM EveryStepShortens == Spec => [][Shortens]_vars
<1>1. QED
  BY ShortensStep, Types, PTL DEF Spec

=============================================================================
