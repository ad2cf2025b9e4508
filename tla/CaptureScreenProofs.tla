------------------------- MODULE CaptureScreenProofs -------------------------
(***************************************************************************)
(* Proofs about CaptureScreen, for any servers, faults and numbers of taps *)
(* and events: its types, that the screen shows the latest tap, that reads *)
(* go to the stored server, and what may end the application.              *)
(*                                                                         *)
(* All of it depends on the order of the messages that wait: the inductive *)
(* invariant says what may stand before and behind each of them.           *)
(***************************************************************************)
EXTENDS CaptureScreen, SequenceTheorems, TLAPS

Showing  == {"READ_IDCARD_SUCCESS", "READ_PHOTO_SUCCESS", "NFC_READCARD_FAIL",
             "READ_PHOTO_ERROR"}
Whats    == {"newintent", "pause", "resume", "result", "relaunch",
             "MESSAGE_VALID_NFCBUTTON"} \cup Showing
Intents  == [card : Nat, tech : BOOLEAN]
Messages == [what : Whats, intent : Intents, act : Nat]

\* A card, or a tag of another kind, that was tapped; or no intent at all.
Tapped(in) == in.card \in Cards /\ (in.tech => in.card # 0)

TypeServer ==
  /\ prefs \in Servers /\ license \in {"absent", "part", "whole"}
  /\ server \in Servers /\ server.port # NoNumber
  /\ native.port \in Ports

TypeShown ==
  /\ fields \in Cards /\ idimg \in Cards /\ tapped \in Cards
  /\ connected \subseteq Cards
  /\ Readingtext \in [text : {"reading", "NFC_READCARD_FAIL", "READ_PHOTO_ERROR"},
                      visible : BOOLEAN]
  /\ outcome.result \in Told \cup {"none", "untold"}

TypeThread ==
  /\ phase \in {"down", "resumed", "paused"}
  /\ pc \in {"ui", "connect", "read", "copy", "copying", "photo", "finish"}
  /\ pc # "ui" => phase = "resumed" /\ intent.tech /\ intent.card # 0

TypeQueue ==
  /\ queue \in Seq(Messages)
  /\ \A i \in DOMAIN queue :
       /\ Tapped(queue[i].intent)
       /\ queue[i].what = "newintent" => queue[i].intent.card # 0

TypeRest ==
  /\ intent \in Intents /\ Tapped(intent) /\ act \in Nat
  /\ taps \in Nat /\ top \in BOOLEAN /\ dialog \in BOOLEAN
  /\ phase = "down" => queue = <<>> /\ pc = "ui" /\ ~top /\ ~dialog

-----------------------------------------------------------------------------
(* The order of the messages                                               *)

Is(i, what) == queue[i].what = what

\* The activity is resumed when the messages before the i-th are handled.
ResumedAt(i) ==
  /\ phase = "resumed" \/ \E k \in 1..(i - 1) : Is(k, "resume")
  /\ \A j \in 1..(i - 1) :
       Is(j, "pause") => \E k \in (j + 1)..(i - 1) : Is(k, "resume")

\* The system takes taps only for an activity that it resumes before.
TapsResumed ==
  /\ top => ResumedAt(Len(queue) + 1)
  /\ \A i \in DOMAIN queue : Is(i, "newintent") => ResumedAt(i)

\* While the dialog is open nothing resumes the activity.
DialogPauses ==
  dialog => /\ ~top
            /\ \A i \in DOMAIN queue :
                 Is(i, "resume") => \E j \in (i + 1)..Len(queue) : Is(j, "pause")

\* An activity that does not know the stored server gets the result of the
\* dialog before it is resumed.
ResultComes ==
  prefs # server /\ phase # "down" =>
    /\ phase = "paused"
    /\ \E i \in DOMAIN queue : /\ Is(i, "result")
                               /\ \A j \in 1..i : ~Is(j, "resume")

Leaving == {"pause", "relaunch"}

\* Unless the user left while a tap was on its way, nothing that takes the
\* screen from the activity comes between the tap and the read.
StaysForTap ==
  "left" \notin risks =>
    /\ \A i, j \in DOMAIN queue :
         Is(i, "newintent") /\ i < j => queue[j].what \notin Leaving
    /\ \A i \in DOMAIN queue :
         Is(i, "MESSAGE_VALID_NFCBUTTON") =>
           /\ phase = "resumed" /\ queue[i].act = act
           /\ \A j \in 1..i : queue[j].what \notin Leaving

Tapping == {"newintent", "MESSAGE_VALID_NFCBUTTON"}

\* Unless a tap came before the one before was taken up, one tap at most is
\* waiting, and its tag is not connected yet.
OneTap ==
  "taps" \notin risks =>
    /\ \A i, j \in DOMAIN queue :
         queue[i].what \in Tapping /\ queue[j].what \in Tapping => i = j
    /\ \A i \in DOMAIN queue :
         /\ Is(i, "newintent") => queue[i].intent.card \notin connected \cup {intent.card}
         /\ Is(i, "MESSAGE_VALID_NFCBUTTON") =>
              pc = "ui" /\ (intent.tech => intent.card \notin connected)
    /\ pc = "connect" => intent.card \notin connected

PortStored == prefs.port = NoNumber => "port" \in risks

-----------------------------------------------------------------------------
(* What is shown                                                           *)

NothingToShow == \A i \in DOMAIN queue : queue[i].what \notin Showing

\* Of the messages that change the screen, the last is this one.
ShownLast(m) ==
  \E p \in DOMAIN queue :
    queue[p] = m /\ \A j \in DOMAIN queue : p < j => queue[j].what \notin Showing

\* The read of the latest tap is over at most once, and what it says is on
\* the screen or will be the last to be shown.
OutcomeShown ==
  /\ intent.card = tapped /\ outcome.card = tapped
  /\ phase # "down" =>
       /\ pc \notin {"ui", "connect"} => intent.card \in connected
       /\ outcome.result \in Told =>
            intent.tech /\ intent.card \in connected /\ pc \in {"ui", "connect"}
       /\ outcome.result = "READ_IDCARD_SUCCESS" =>
            \/ ShownLast(Msg("READ_IDCARD_SUCCESS", intent, act))
            \/ NothingToShow /\ fields = tapped /\ ~Readingtext.visible
       /\ outcome.result = "NFC_READCARD_FAIL" =>
            \/ ShownLast(Msg("NFC_READCARD_FAIL", intent, act))
            \/ NothingToShow /\ Readingtext = Line("NFC_READCARD_FAIL", TRUE)

IInv ==
  /\ TypeServer /\ TypeShown /\ TypeThread /\ TypeQueue /\ TypeRest
  /\ TapsResumed /\ DialogPauses /\ ResultComes /\ LatestServer
  /\ StaysForTap /\ OneTap /\ PortStored /\ EndsOnlyFor
  /\ OutcomeShown

-----------------------------------------------------------------------------
(* The queue: a step takes the first p messages, one or none, and puts new *)
(* ones behind the others                                                  *)

Moves(p, new) ==
  /\ p \in {0, 1} /\ p <= Len(queue)
  /\ queue' \in Seq(Messages)
  /\ Len(queue') = Len(queue) - p + Len(new)
  /\ \A i \in 1..(Len(queue) - p) : queue'[i] = queue[i + p]
  /\ \A i \in 1..Len(new) : queue'[Len(queue) - p + i] = new[i]

\* What is in the queue after a step was there before, or is new.
LEMMA MovedFrom ==
  ASSUME TypeQueue, NEW p, NEW new \in Seq(Messages), Moves(p, new),
         NEW i \in DOMAIN queue'
  PROVE  \/ i \in 1..(Len(queue) - p) /\ i + p \in DOMAIN queue /\ queue'[i] = queue[i + p]
         \/ \E k \in 1..Len(new) : i = Len(queue) - p + k /\ queue'[i] = new[k]
<1>1. Len(queue) \in Nat /\ Len(new) \in Nat /\ Len(queue') \in Nat
      /\ DOMAIN queue' = 1..Len(queue') /\ DOMAIN queue = 1..Len(queue)
  BY DEF TypeQueue, Moves
<1>2. CASE i <= Len(queue) - p
  <2>1. i \in 1..(Len(queue) - p) /\ i + p \in 1..Len(queue)
    BY <1>1, <1>2 DEF Moves
  <2>2. queue'[i] = queue[i + p]
    BY <2>1 DEF Moves
  <2>3. QED
    BY <1>1, <2>1, <2>2
<1>3. CASE i > Len(queue) - p
  <2>1. i - (Len(queue) - p) \in 1..Len(new)
    BY <1>1, <1>3 DEF Moves
  <2>2. i = Len(queue) - p + (i - (Len(queue) - p))
    BY <1>1 DEF Moves
  <2>3. QED
    BY <2>1, <2>2 DEF Moves
<1>4. QED
  BY <1>1, <1>2, <1>3 DEF Moves

LEMMA Stays ==
  ASSUME TypeQueue, UNCHANGED queue
  PROVE  Moves(0, <<>>)
BY DEF TypeQueue, Moves

LEMMA Posts ==
  ASSUME TypeQueue, NEW new \in Seq(Messages), Post(new)
  PROVE  Moves(0, new)
<1>1. queue \in Seq(Messages) /\ queue' = queue \o new
  BY DEF TypeQueue, Post
<1>2. queue' \in Seq(Messages) /\ Len(queue') = Len(queue) + Len(new)
  BY <1>1
<1>3. \A i \in 1..Len(queue) : queue'[i] = queue[i]
  BY <1>1
<1>4. \A i \in 1..Len(new) : queue'[Len(queue) + i] = new[i]
  BY <1>1
<1>5. QED
  BY <1>1, <1>2, <1>3, <1>4 DEF Moves

LEMMA Takes ==
  ASSUME TypeQueue, queue # <<>>, queue' = Tail(queue)
  PROVE  Moves(1, <<>>)
BY DEF TypeQueue, Moves

LEMMA Passes ==
  ASSUME TypeQueue, queue # <<>>, NEW m \in Messages, queue' = Append(Tail(queue), m)
  PROVE  Moves(1, <<m>>)
<1>1. /\ Tail(queue) \in Seq(Messages) /\ Len(Tail(queue)) = Len(queue) - 1
      /\ Len(queue) \in Nat \ {0}
      /\ \A i \in 1..(Len(queue) - 1) : Tail(queue)[i] = queue[i + 1]
  BY DEF TypeQueue
<1>2. /\ queue' \in Seq(Messages) /\ Len(queue') = Len(queue)
      /\ \A i \in 1..(Len(queue) - 1) : queue'[i] = Tail(queue)[i]
      /\ queue'[Len(queue)] = m
  BY <1>1
<1>3. QED
  BY <1>1, <1>2 DEF Moves

\* The message that is handled.
LEMMA First ==
  ASSUME TypeQueue, NEW what, Handles(what)
  PROVE  /\ queue # <<>> /\ Head(queue) = queue[1] /\ Is(1, what)
         /\ 1 \in DOMAIN queue /\ Head(queue) \in Messages
         /\ Tapped(Head(queue).intent)
         /\ phase # "down" /\ pc = "ui"
BY DEF TypeQueue, Handles, Is

\* The messages that the system and the activity send.
LEMMA SentMessages ==
  ASSUME TypeRest, NEW what \in Whats
  PROVE  /\ Sys(what) \in Messages /\ Tapped(Sys(what).intent)
         /\ Msg(what, intent, act) \in Messages
         /\ Sys(what).what = what /\ Sys(what).act = act
         /\ Msg(what, intent, act).what = what
         /\ Msg(what, intent, act).intent = intent
BY DEF TypeRest, Sys, Msg, NoIntent, Intent, Messages, Intents, Tapped, Cards

\* The types of the queue, when cards only get more.
LEMMA QueueTyped ==
  ASSUME TypeQueue, NEW p, NEW new \in Seq(Messages), Moves(p, new),
         Cards \subseteq Cards',
         \A k \in 1..Len(new) :
           /\ Tapped(new[k].intent)'
           /\ new[k].what = "newintent" => new[k].intent.card # 0
  PROVE  TypeQueue'
<1>1. queue' \in Seq(Messages)
  BY DEF Moves
<1>2. ASSUME NEW i \in DOMAIN queue'
      PROVE  /\ Tapped(queue[i].intent)'
             /\ queue'[i].what = "newintent" => queue'[i].intent.card # 0
  <2>1. CASE \E k \in DOMAIN queue : queue'[i] = queue[k]
    BY <2>1 DEF TypeQueue, Tapped
  <2>2. CASE \E k \in 1..Len(new) : queue'[i] = new[k]
    BY <2>2 DEF Tapped
  <2>3. QED
    BY <1>2, <2>1, <2>2, MovedFrom
<1>3. QED
  BY <1>1, <1>2 DEF TypeQueue

\* The lengths and indices that the facts below count with.
LEMMA Lengths ==
  ASSUME TypeQueue, NEW p, NEW new \in Seq(Messages), Moves(p, new)
  PROVE  /\ Len(queue) \in Nat /\ Len(queue') \in Nat /\ Len(new) \in Nat
         /\ DOMAIN queue = 1..Len(queue) /\ DOMAIN queue' = 1..Len(queue')
         /\ p \in {0, 1} /\ p <= Len(queue)
         /\ Len(queue') = Len(queue) - p + Len(new)
BY DEF TypeQueue, Moves

-----------------------------------------------------------------------------
(* A tap finds the activity resumed                                        *)

\* The phase after the p messages that a step takes.
PhaseNext(p) ==
  IF p = 0 THEN phase
  ELSE IF Is(1, "pause") THEN "paused"
  ELSE IF Is(1, "resume") THEN "resumed" ELSE phase

LEMMA ResumedMoves ==
  ASSUME TypeQueue, NEW p, NEW new \in Seq(Messages), Moves(p, new),
         phase' = PhaseNext(p), NEW i \in 1..(Len(queue) - p + 1), ResumedAt(i + p)
  PROVE  ResumedAt(i)'
<1>1. /\ Len(queue) \in Nat /\ i \in Nat
      /\ \A k \in 1..(i - 1) : queue'[k] = queue[k + p]
  BY Lengths DEF Moves
<1>2. CASE p = 0
  BY <1>1, <1>2 DEF ResumedAt, PhaseNext, Is
<1>3. CASE p = 1
  <2>1. phase' = "resumed" \/ \E k \in 1..(i - 1) : Is(k, "resume")'
    <3>1. CASE Is(1, "pause")
      <4>1. PICK k \in 2..i : Is(k, "resume")
        BY <1>1, <1>3, <3>1 DEF ResumedAt
      <4>2. k - 1 \in 1..(i - 1) /\ queue'[k - 1] = queue[k]
        BY <1>1, <1>3
      <4>3. QED
        BY <4>1, <4>2 DEF Is
    <3>2. CASE ~Is(1, "pause") /\ phase' # "resumed"
      <4>1. PICK k \in 1..i : Is(k, "resume")
        BY <1>1, <1>3, <3>2 DEF ResumedAt, PhaseNext
      <4>2. k # 1
        BY <1>3, <3>2, <4>1 DEF PhaseNext
      <4>3. k - 1 \in 1..(i - 1) /\ queue'[k - 1] = queue[k]
        BY <1>1, <1>3, <4>2
      <4>4. QED
        BY <4>1, <4>3 DEF Is
    <3>3. QED
      BY <3>1, <3>2
  <2>2. ASSUME NEW j \in 1..(i - 1), Is(j, "pause")'
        PROVE  \E k \in (j + 1)..(i - 1) : Is(k, "resume")'
    <3>1. j + 1 \in 1..i /\ Is(j + 1, "pause")
      BY <1>1, <1>3, <2>2 DEF Is
    <3>2. PICK k \in (j + 2)..i : Is(k, "resume")
      BY <1>1, <1>3, <3>1 DEF ResumedAt
    <3>3. k - 1 \in (j + 1)..(i - 1) /\ queue'[k - 1] = queue[k]
      BY <1>1, <1>3
    <3>4. QED
      BY <3>2, <3>3 DEF Is
  <2>3. QED
    BY <2>1, <2>2 DEF ResumedAt
<1>4. QED
  BY <1>2, <1>3, Lengths

\* The step of a tap: the activity stays on top, or is taken off it, or
\* comes back with a resume behind everything else.
LEMMA TapsResumedStep ==
  ASSUME TypeQueue, TapsResumed, NEW p, NEW new \in Seq(Messages), Moves(p, new),
         phase' = PhaseNext(p),
         \/ /\ top' = top /\ Len(new) <= 1
            /\ \A k \in 1..Len(new) : /\ new[k].what # "pause"
                                      /\ new[k].what = "newintent" => top
         \/ /\ ~top'
            /\ \A k \in 1..Len(new) : new[k].what # "newintent"
         \/ /\ Len(new) > 0 /\ new[Len(new)].what = "resume"
            /\ \A k \in 1..Len(new) : new[k].what # "newintent"
  PROVE  TapsResumed'
<1> SUFFICES ASSUME NEW n, n = Len(queue) - p + 1, NEW l, l = Len(queue')
             PROVE  TapsResumed'
  OBVIOUS
<1>a. /\ Len(new) \in Nat /\ p \in {0, 1} /\ Len(queue) \in Nat /\ p <= Len(queue)
      /\ l \in Nat /\ l = Len(queue) - p + Len(new)
      /\ DOMAIN queue = 1..Len(queue) /\ DOMAIN queue' = 1..l
  BY Lengths
<1>0. /\ n \in Nat \ {0} /\ l \in Nat /\ l = n - 1 + Len(new) /\ Len(new) \in Nat
      /\ p \in {0, 1} /\ Len(queue) \in Nat
      /\ DOMAIN queue = 1..Len(queue) /\ Len(queue) + 1 = n + p
      /\ DOMAIN queue' = 1..l
  BY <1>a
<1>1. top => ResumedAt(n)'
  <2>1. top => ResumedAt(n + p)
    BY <1>0 DEF TapsResumed
  <2>2. n \in 1..(Len(queue) - p + 1)
    BY <1>0
  <2>3. QED
    BY <2>1, <2>2, ResumedMoves
<1>2. ASSUME NEW i \in DOMAIN queue', Is(i, "newintent")'
      PROVE  ResumedAt(i)'
  <2>1. CASE i \in 1..(Len(queue) - p) /\ i + p \in DOMAIN queue /\ queue'[i] = queue[i + p]
    <3>1. ResumedAt(i + p)
      BY <1>2, <2>1 DEF TapsResumed, Is
    <3>2. i \in 1..(Len(queue) - p + 1)
      BY <1>0, <2>1
    <3>3. QED
      BY <3>1, <3>2, ResumedMoves
  <2>2. CASE \E k \in 1..Len(new) : i = Len(queue) - p + k /\ queue'[i] = new[k]
    <3>1. PICK k \in 1..Len(new) : i = Len(queue) - p + k /\ queue'[i] = new[k]
      BY <2>2
    <3>2. new[k].what = "newintent"
      BY <1>2, <3>1 DEF Is
    <3>3. Len(new) <= 1 /\ top
      BY <3>2
    <3>4. i = n
      BY <1>0, <3>1, <3>3
    <3>5. QED
      BY <1>1, <3>3, <3>4
  <2>3. QED
    BY <2>1, <2>2, MovedFrom
<1>3. ASSUME top' PROVE ResumedAt(l + 1)'
  <2>1. CASE /\ top /\ Len(new) <= 1
             /\ \A k \in 1..Len(new) : new[k].what # "pause"
    <3>1. CASE Len(new) = 0
      BY <1>0, <1>1, <2>1, <3>1
    <3>2. CASE Len(new) = 1
      <4>1. l = n
        BY <1>0, <3>2
      <4>2. ~Is(l, "pause")'
        BY <1>0, <2>1, <3>2, <4>1 DEF Moves, Is
      <4>3. ResumedAt(n)'
        BY <1>1, <2>1
      <4>4. phase' = "resumed" \/ \E k \in 1..n : Is(k, "resume")'
        BY <1>0, <4>3 DEF ResumedAt
      <4>5. ASSUME NEW j \in 1..n, Is(j, "pause")'
            PROVE  \E k \in (j + 1)..n : Is(k, "resume")'
        <5>1. j \in 1..(n - 1)
          BY <1>0, <4>1, <4>2, <4>5 DEF Is
        <5>2. QED
          BY <1>0, <4>3, <4>5, <5>1 DEF ResumedAt
      <4>6. (l + 1) - 1 = n
        BY <1>0, <4>1
      <4>7. QED
        BY <4>4, <4>5, <4>6, Zenon DEF ResumedAt
    <3>3. Len(new) = 0 \/ Len(new) = 1
      <4>1. Len(new) \in Nat /\ Len(new) <= 1
        BY <1>0, <2>1, Zenon
      <4>2. \A x \in Nat : x <= 1 => x = 0 \/ x = 1
        OBVIOUS
      <4>3. QED
        BY <4>1, <4>2, Zenon
    <3>4. QED
      BY <3>1, <3>2, <3>3
  <2>2. CASE Len(new) > 0 /\ new[Len(new)].what = "resume"
    <3>1. l \in Nat \ {0} /\ Is(l, "resume")'
      BY <1>0, <2>2 DEF Moves, Is
    <3>2. ~Is(l, "pause")'
      BY <3>1 DEF Is
    <3>3. QED
      BY <3>1, <3>2 DEF ResumedAt
  <2>3. QED
    BY <1>3, <2>1, <2>2
<1>4. (top => ResumedAt(Len(queue) + 1))'
  BY <1>3
<1>5. QED
  BY <1>2, <1>4 DEF TapsResumed

-----------------------------------------------------------------------------
(* The settings dialog                                                     *)

LEMMA DialogPausesStep ==
  ASSUME TypeQueue, DialogPauses, NEW p, NEW new \in Seq(Messages), Moves(p, new),
         \/ ~dialog'
         \/ ~top' /\ new = <<Sys("pause")>>
         \/ /\ dialog' = dialog /\ top' = top
            /\ \A k \in 1..Len(new) : new[k].what # "resume"
  PROVE  DialogPauses'
<1> SUFFICES ASSUME dialog'
             PROVE  /\ ~top'
                    /\ \A i \in DOMAIN queue' :
                         Is(i, "resume")' =>
                           \E j \in (i + 1)..Len(queue') : Is(j, "pause")'
  BY DEF DialogPauses
<1> SUFFICES ASSUME NEW l, l = Len(queue')
             PROVE  /\ ~top'
                    /\ \A i \in DOMAIN queue' :
                         Is(i, "resume")' => \E j \in (i + 1)..l : Is(j, "pause")'
  OBVIOUS
<1>0. /\ Len(queue) \in Nat /\ Len(new) \in Nat /\ p \in {0, 1} /\ p <= Len(queue)
      /\ l = Len(queue) - p + Len(new)
      /\ DOMAIN queue = 1..Len(queue) /\ DOMAIN queue' = 1..l
  BY Lengths
<1>1. CASE ~top' /\ new = <<Sys("pause")>>
  <2>1. Len(new) = 1 /\ new[1].what = "pause"
    BY <1>1 DEF Sys, Msg
  <2>2. Is(l, "pause")'
    BY <1>0, <2>1 DEF Moves, Is
  <2>3. ASSUME NEW i \in DOMAIN queue', Is(i, "resume")'
        PROVE  l \in (i + 1)..l
    <3>1. i # l
      BY <2>2, <2>3 DEF Is
    <3>2. QED
      BY <1>0, <3>1
  <2>4. QED
    BY <1>1, <2>2, <2>3
<1>2. CASE /\ dialog' = dialog /\ top' = top
           /\ \A k \in 1..Len(new) : new[k].what # "resume"
  <2>1. dialog
    BY <1>2
  <2>2. ASSUME NEW i \in DOMAIN queue', Is(i, "resume")'
        PROVE  \E j \in (i + 1)..l : Is(j, "pause")'
    <3>1. /\ i \in 1..(Len(queue) - p) /\ i + p \in DOMAIN queue
          /\ Is(i + p, "resume")
      BY <1>2, <2>2, MovedFrom DEF Is
    <3>2. PICK j \in (i + p + 1)..Len(queue) : Is(j, "pause")
      BY <2>1, <3>1 DEF DialogPauses
    <3>3. j - p \in 1..(Len(queue) - p) /\ j - p + p = j
      BY <1>0, <3>1
    <3>4. queue'[j - p] = queue[j]
      BY <3>3 DEF Moves
    <3>5. j - p \in (i + 1)..l
      BY <1>0, <3>1
    <3>6. QED
      BY <3>2, <3>4, <3>5 DEF Is
  <2>3. QED
    BY <1>2, <2>1, <2>2 DEF DialogPauses
<1>3. QED
  BY <1>1, <1>2

LEMMA ResultComesStep ==
  ASSUME TypeQueue, ResultComes, NEW p, NEW new \in Seq(Messages), Moves(p, new),
         \/ server' = prefs' \/ phase' = "down"
         \/ /\ UNCHANGED <<prefs, server>> /\ phase # "down"
            /\ phase' = PhaseNext(p)
            /\ p = 1 => ~Is(1, "result")
  PROVE  ResultComes'
<1> SUFFICES ASSUME UNCHANGED <<prefs, server>>, phase # "down",
                    phase' = PhaseNext(p), p = 1 => ~Is(1, "result"),
                    prefs # server
             PROVE  /\ phase' = "paused"
                    /\ \E i \in DOMAIN queue' :
                         Is(i, "result")' /\ \A j \in 1..i : ~Is(j, "resume")'
  BY DEF ResultComes
<1>0. /\ Len(queue) \in Nat /\ Len(new) \in Nat /\ p \in {0, 1} /\ p <= Len(queue)
      /\ Len(queue') = Len(queue) - p + Len(new)
      /\ DOMAIN queue = 1..Len(queue) /\ DOMAIN queue' = 1..Len(queue')
  BY Lengths
<1>1. phase = "paused"
  BY DEF ResultComes
<1>2. PICK i \in DOMAIN queue : Is(i, "result") /\ \A j \in 1..i : ~Is(j, "resume")
  BY DEF ResultComes
<1>3. ~Is(1, "resume")
  BY <1>0, <1>2
<1>4. phase' = "paused"
  BY <1>0, <1>1, <1>3 DEF PhaseNext
<1> SUFFICES ASSUME NEW k, k = i - p
             PROVE  /\ phase' = "paused"
                    /\ \E m \in DOMAIN queue' :
                         Is(m, "result")' /\ \A j \in 1..m : ~Is(j, "resume")'
  OBVIOUS
<1>5. k \in 1..(Len(queue) - p) /\ k + p = i
  <2>1. CASE p = 0
    BY <1>0, <2>1
  <2>2. CASE p = 1
    <3>1. i # 1
      BY <1>2, <2>2
    <3>2. QED
      BY <1>0, <2>2, <3>1
  <2>3. QED
    BY <1>0, <2>1, <2>2
<1>6. Is(k, "result")'
  <2>1. queue'[k] = queue[i]
    BY <1>5 DEF Moves
  <2>2. QED
    BY <1>2, <2>1 DEF Is
<1>7. ASSUME NEW j \in 1..k PROVE ~Is(j, "resume")'
  <2>1. j \in 1..(Len(queue) - p) /\ j + p \in 1..i
    BY <1>0, <1>5
  <2>2. queue'[j] = queue[j + p]
    BY <2>1 DEF Moves
  <2>3. QED
    BY <1>2, <2>1, <2>2 DEF Is
<1>8. k \in DOMAIN queue'
  BY <1>0, <1>5
<1>9. QED
  BY <1>4, <1>6, <1>7, <1>8

-----------------------------------------------------------------------------
(* A tap on its way to the activity                                        *)

LEMMA StaysForTapStep ==
  ASSUME TypeQueue, StaysForTap, NEW p, NEW new \in Seq(Messages), Moves(p, new),
         risks \subseteq risks',
         \/ UNCHANGED act /\ phase' = PhaseNext(p)
         \/ p = 1 /\ Is(1, "relaunch"),
         \/ "left" \in risks'
         \/ \A k \in 1..Len(new) :
              new[k].what \notin Leaving \cup {"MESSAGE_VALID_NFCBUTTON"}
         \/ Len(new) = 1 /\ new[1].what \in Leaving /\ ~Waits("newintent")
         \/ /\ Len(new) = 1 /\ new[1].what = "MESSAGE_VALID_NFCBUTTON"
            /\ new[1].act = act /\ UNCHANGED act
            /\ p = 1 /\ Is(1, "newintent") /\ phase' = "resumed"
  PROVE  StaysForTap'
<1> SUFFICES ASSUME "left" \notin risks'
             PROVE  StaysForTap'
  BY DEF StaysForTap
<1>a. /\ Len(new) \in Nat /\ p \in {0, 1} /\ Len(queue) \in Nat /\ p <= Len(queue)
      /\ DOMAIN queue = 1..Len(queue) /\ DOMAIN queue' = 1..Len(queue')
      /\ Len(queue') \in Nat /\ Len(queue') = Len(queue) - p + Len(new)
  BY Lengths
<1>b. /\ \A i, j \in DOMAIN queue :
           Is(i, "newintent") /\ i < j => queue[j].what \notin Leaving
      /\ \A i \in DOMAIN queue :
           Is(i, "MESSAGE_VALID_NFCBUTTON") =>
             /\ phase = "resumed" /\ queue[i].act = act
             /\ \A j \in 1..i : queue[j].what \notin Leaving
  BY DEF StaysForTap
<1>1. ASSUME NEW i \in DOMAIN queue', NEW j \in DOMAIN queue',
             Is(i, "newintent")', i < j
      PROVE  queue'[j].what \notin Leaving
  <2>1. CASE j \in 1..(Len(queue) - p)
    <3>1. /\ i \in 1..(Len(queue) - p) /\ i + p \in DOMAIN queue
          /\ j + p \in DOMAIN queue /\ i + p < j + p
      BY <1>a, <1>1, <2>1
    <3>2. queue'[i] = queue[i + p] /\ queue'[j] = queue[j + p]
      BY <2>1, <3>1 DEF Moves
    <3>3. QED
      BY <1>b, <1>1, <3>1, <3>2 DEF Is
  <2>2. ASSUME NEW k \in 1..Len(new), j = Len(queue) - p + k, queue'[j] = new[k],
               new[k].what \in Leaving
        PROVE  FALSE
    <3>1. Len(new) = 1 /\ ~Waits("newintent")
      BY <2>2 DEF Leaving
    <3>2. i \in 1..(Len(queue) - p) /\ i + p \in DOMAIN queue
      BY <1>a, <1>1, <2>2, <3>1
    <3>3. queue'[i] = queue[i + p]
      BY <3>2 DEF Moves
    <3>4. QED
      BY <1>1, <3>1, <3>2, <3>3 DEF Waits, Is
  <2>3. QED
    BY <2>1, <2>2, MovedFrom
<1>2. ASSUME NEW i \in DOMAIN queue', Is(i, "MESSAGE_VALID_NFCBUTTON")'
      PROVE  /\ phase' = "resumed" /\ queue'[i].act = act'
             /\ \A j \in 1..i : queue'[j].what \notin Leaving
  <2>1. CASE i \in 1..(Len(queue) - p)
    <3>1. i + p \in DOMAIN queue /\ queue'[i] = queue[i + p]
      <4>1. i + p \in 1..Len(queue)
        BY <1>a, <2>1
      <4>2. QED
        BY <1>a, <2>1, <4>1 DEF Moves
    <3>2. /\ phase = "resumed" /\ queue[i + p].act = act
          /\ \A j \in 1..(i + p) : queue[j].what \notin Leaving
      BY <1>b, <1>2, <3>1 DEF Is
    <3>3. queue[1].what \notin Leaving
      BY <1>a, <3>1, <3>2
    <3>4. phase' = "resumed" /\ act' = act
      BY <1>a, <3>2, <3>3 DEF PhaseNext, Is, Leaving
    <3>5. ASSUME NEW j \in 1..i PROVE queue'[j].what \notin Leaving
      <4>1. j \in 1..(Len(queue) - p) /\ j + p \in 1..(i + p)
        BY <1>a, <2>1
      <4>2. queue'[j] = queue[j + p]
        BY <4>1 DEF Moves
      <4>3. QED
        BY <3>2, <4>1, <4>2
    <3>6. QED
      BY <3>1, <3>2, <3>4, <3>5
  <2>2. ASSUME NEW k \in 1..Len(new), i = Len(queue) - p + k, queue'[i] = new[k]
        PROVE  /\ phase' = "resumed" /\ queue'[i].act = act'
               /\ \A j \in 1..i : queue'[j].what \notin Leaving
    <3>1. new[k].what = "MESSAGE_VALID_NFCBUTTON"
      BY <1>2, <2>2 DEF Is
    <3>2. /\ Len(new) = 1 /\ new[1].act = act /\ UNCHANGED act
          /\ p = 1 /\ Is(1, "newintent") /\ phase' = "resumed"
      BY <3>1 DEF Leaving
    <3>3. k = 1 /\ i = Len(queue)
      BY <1>a, <2>2, <3>2
    <3>4. ASSUME NEW j \in 1..i, j # i PROVE queue'[j].what \notin Leaving
      <4>1. /\ j \in 1..(Len(queue) - p) /\ j + 1 \in DOMAIN queue /\ 1 < j + 1
            /\ 1 \in DOMAIN queue
        <5>1. p = 1 /\ j \in 1..Len(queue) /\ j # Len(queue) /\ Len(queue) \in Nat
          BY <1>a, <3>2, <3>3, <3>4
        <5>2. j \in 1..(Len(queue) - 1) /\ j + 1 \in 1..Len(queue) /\ 1 < j + 1
              /\ 1 \in 1..Len(queue)
          BY <5>1
        <5>3. QED
          BY <1>a, <5>1, <5>2
      <4>2. queue'[j] = queue[j + 1]
        BY <3>2, <4>1 DEF Moves
      <4>3. QED
        BY <1>b, <3>2, <4>1, <4>2
    <3>5. queue'[i].what \notin Leaving
      BY <2>2, <3>1 DEF Leaving
    <3>6. QED
      BY <2>2, <3>2, <3>3, <3>4, <3>5
  <2>3. QED
    BY <1>2, <2>1, <2>2, MovedFrom
<1>3. QED
  BY <1>1, <1>2 DEF StaysForTap

\* What a step may do to the taps on their way.
TapComes(p, new) ==  \* a tap, when none is waiting
  /\ p = 0 /\ Len(new) = 1 /\ new[1].what = "newintent"
  /\ \A i \in DOMAIN queue : queue[i].what \notin Tapping
  /\ new[1].intent.card \notin connected \cup {intent.card}
  /\ UNCHANGED <<connected, intent, pc>>

TapTaken(p, new) ==  \* the intent is stored
  /\ p = 1 /\ Is(1, "newintent")
  /\ Len(new) = 1 /\ new[1].what = "MESSAGE_VALID_NFCBUTTON"
  /\ intent' = queue[1].intent /\ UNCHANGED connected /\ pc' = "ui"

NoTap(p, new) ==     \* anything else
  /\ \A k \in 1..Len(new) : new[k].what \notin Tapping
  /\ \/ UNCHANGED <<connected, intent, pc>>
     \/ UNCHANGED <<connected, intent>> /\ pc' # "connect" /\ (pc = "ui" => pc' = "ui")
     \/ /\ p = 1 /\ Is(1, "MESSAGE_VALID_NFCBUTTON") /\ UNCHANGED <<connected, intent>>
        /\ pc' = "connect" => intent.tech
     \/ /\ pc = "connect" /\ pc' # "connect" /\ UNCHANGED intent
        /\ connected' = connected \cup {intent.card}
     \/ intent' = NoIntent /\ UNCHANGED connected /\ pc = "ui" /\ pc' = "ui"

LEMMA OneTapStep ==
  ASSUME TypeQueue, OneTap, NEW p, NEW new \in Seq(Messages), Moves(p, new),
         risks \subseteq risks',
         "taps" \in risks' \/ TapComes(p, new) \/ TapTaken(p, new) \/ NoTap(p, new)
  PROVE  OneTap'
<1> SUFFICES ASSUME "taps" \notin risks'
             PROVE  OneTap'
  BY DEF OneTap
<1>a. /\ Len(new) \in Nat /\ p \in {0, 1} /\ Len(queue) \in Nat /\ p <= Len(queue)
      /\ DOMAIN queue = 1..Len(queue) /\ DOMAIN queue' = 1..Len(queue')
      /\ Len(queue') \in Nat /\ Len(queue') = Len(queue) - p + Len(new)
  BY Lengths
<1>b. /\ \A i, j \in DOMAIN queue :
           queue[i].what \in Tapping /\ queue[j].what \in Tapping => i = j
      /\ \A i \in DOMAIN queue :
           /\ Is(i, "newintent") => queue[i].intent.card \notin connected \cup {intent.card}
           /\ Is(i, "MESSAGE_VALID_NFCBUTTON") =>
                pc = "ui" /\ (intent.tech => intent.card \notin connected)
      /\ pc = "connect" => intent.card \notin connected
  BY DEF OneTap
<1>c. \A i \in 1..(Len(queue) - p) : i + p \in DOMAIN queue /\ queue'[i] = queue[i + p]
  BY <1>a DEF Moves
<1>1. CASE TapComes(p, new)
  <2>1. \A i \in DOMAIN queue' :
          \/ i \in 1..(Len(queue) - p) /\ queue'[i].what \notin Tapping
          \/ i = Len(queue) + 1 /\ queue'[i] = new[1]
    BY <1>1, <1>a, <1>c, MovedFrom DEF TapComes
  <2>2. new[1].what # "MESSAGE_VALID_NFCBUTTON"
    BY <1>1 DEF TapComes
  <2>3. \A i, j \in DOMAIN queue' :
          queue'[i].what \in Tapping /\ queue'[j].what \in Tapping => i = j
    BY <2>1
  <2>4. \A i \in DOMAIN queue' :
          /\ Is(i, "newintent")' => queue'[i].intent.card \notin connected \cup {intent.card}
          /\ ~Is(i, "MESSAGE_VALID_NFCBUTTON")'
    BY <1>1, <2>1, <2>2 DEF TapComes, Is, Tapping
  <2>5. QED
    BY <1>1, <1>b, <2>3, <2>4 DEF TapComes, OneTap
<1>2. CASE TapTaken(p, new)
  <2>1. /\ p = 1 /\ Is(1, "newintent") /\ 1 \in DOMAIN queue
        /\ intent' = queue[1].intent /\ UNCHANGED connected /\ pc' = "ui"
        /\ Len(new) = 1 /\ new[1].what = "MESSAGE_VALID_NFCBUTTON"
    BY <1>2, <1>a DEF TapTaken
  <2>2. \A i \in DOMAIN queue' :
          \/ i \in 1..(Len(queue) - 1) /\ queue'[i].what \notin Tapping
          \/ i = Len(queue) /\ queue'[i] = new[1]
    <3>1. ASSUME NEW i \in 1..(Len(queue) - 1) PROVE queue'[i].what \notin Tapping
      <4>1. i + 1 \in DOMAIN queue /\ i + 1 # 1 /\ queue'[i] = queue[i + 1]
        BY <1>a, <1>c, <2>1
      <4>2. QED
        BY <1>b, <2>1, <4>1 DEF Is, Tapping
    <3>2. ASSUME NEW i \in DOMAIN queue', i \notin 1..(Len(queue) - 1)
          PROVE  i = Len(queue) /\ queue'[i] = new[1]
      <4>1. i = Len(queue)
        BY <1>a, <2>1, <3>2
      <4>2. queue'[Len(queue) - p + 1] = new[1]
        BY <2>1 DEF Moves
      <4>3. QED
        BY <1>a, <2>1, <4>1, <4>2
    <3>3. QED
      BY <3>1, <3>2
  <2>3. \A i, j \in DOMAIN queue' :
          queue'[i].what \in Tapping /\ queue'[j].what \in Tapping => i = j
    BY <2>2
  <2>4. intent'.card \notin connected'
    BY <1>b, <2>1
  <2>5. \A i \in DOMAIN queue' : ~Is(i, "newintent")'
    BY <2>1, <2>2 DEF Is, Tapping
  <2>6. QED
    BY <2>1, <2>3, <2>4, <2>5 DEF OneTap
<1>3. CASE NoTap(p, new)
  <2>1. \A i \in DOMAIN queue' :
          queue'[i].what \in Tapping =>
            /\ i \in 1..(Len(queue) - p) /\ i + p \in DOMAIN queue
            /\ queue'[i] = queue[i + p]
    BY <1>3, MovedFrom DEF NoTap
  <2>2. ASSUME NEW i \in DOMAIN queue', NEW j \in DOMAIN queue',
               queue'[i].what \in Tapping, queue'[j].what \in Tapping
        PROVE  i = j
    <3>1. i + p = j + p
      BY <1>b, <2>1, <2>2
    <3>2. QED
      BY <1>a, <3>1
  <2>3. ASSUME NEW i \in DOMAIN queue', Is(i, "newintent")'
        PROVE  queue'[i].intent.card \notin connected' \cup {intent'.card}
    <3>1. i + p \in DOMAIN queue /\ queue'[i] = queue[i + p] /\ Is(i + p, "newintent")
      BY <2>1, <2>3 DEF Is, Tapping
    <3>2. queue'[i].intent.card \notin connected \cup {intent.card, 0}
      BY <1>b, <3>1 DEF TypeQueue, Is
    <3>3. QED
      BY <1>3, <3>2 DEF NoTap, NoIntent, Intent
  <2>4. ASSUME NEW i \in DOMAIN queue', Is(i, "MESSAGE_VALID_NFCBUTTON")'
        PROVE  pc' = "ui" /\ (intent'.tech => intent'.card \notin connected')
    <3>1. /\ i \in 1..(Len(queue) - p) /\ i + p \in DOMAIN queue
          /\ queue'[i] = queue[i + p] /\ Is(i + p, "MESSAGE_VALID_NFCBUTTON")
      BY <2>1, <2>4 DEF Is, Tapping
    <3>2. pc = "ui" /\ (intent.tech => intent.card \notin connected)
      BY <1>b, <3>1
    <3>3. ~(p = 1 /\ Is(1, "MESSAGE_VALID_NFCBUTTON"))
      <4>1. p = 1 => i + p # 1 /\ 1 \in DOMAIN queue
        BY <1>a, <3>1
      <4>2. QED
        BY <1>b, <3>1, <4>1 DEF Is, Tapping
    <3>4. QED
      BY <1>3, <3>2, <3>3 DEF NoTap, NoIntent, Intent
  <2>5. pc' = "connect" => intent'.card \notin connected'
    <3>1. p = 1 /\ Is(1, "MESSAGE_VALID_NFCBUTTON") =>
            (intent.tech => intent.card \notin connected)
      BY <1>a, <1>b
    <3>2. QED
      BY <1>3, <1>b, <3>1 DEF NoTap
  <2>6. QED
    BY <2>2, <2>3, <2>4, <2>5 DEF OneTap
<1>4. QED
  BY <1>1, <1>2, <1>3

-----------------------------------------------------------------------------
(* The last message that shows something                                   *)

\* A step that adds nothing to be shown takes at most the message itself.
LEMMA ShownStep ==
  ASSUME TypeQueue, NEW p, NEW new \in Seq(Messages), Moves(p, new),
         \A k \in 1..Len(new) : new[k].what \notin Showing
  PROVE  /\ NothingToShow => NothingToShow'
         /\ \A m : ShownLast(m) =>
              ShownLast(m)' \/ (p = 1 /\ queue[1] = m /\ NothingToShow')
<1>a. /\ Len(new) \in Nat /\ p \in {0, 1} /\ Len(queue) \in Nat /\ p <= Len(queue)
      /\ DOMAIN queue = 1..Len(queue) /\ DOMAIN queue' = 1..Len(queue')
      /\ Len(queue') \in Nat /\ Len(queue') = Len(queue) - p + Len(new)
  BY Lengths
<1>1. \A i \in DOMAIN queue' :
        queue'[i].what \in Showing =>
          /\ i \in 1..(Len(queue) - p) /\ i + p \in DOMAIN queue
          /\ queue'[i] = queue[i + p]
  BY MovedFrom
<1>2. NothingToShow => NothingToShow'
  BY <1>1 DEF NothingToShow
<1>3. ASSUME NEW m, ShownLast(m)
      PROVE  ShownLast(m)' \/ (p = 1 /\ queue[1] = m /\ NothingToShow')
  <2>1. PICK q \in DOMAIN queue :
          queue[q] = m /\ \A j \in DOMAIN queue : q < j => queue[j].what \notin Showing
    BY <1>3 DEF ShownLast
  <2>2. CASE q = 1 /\ p = 1
    <3>1. \A i \in DOMAIN queue' : queue'[i].what \notin Showing
      BY <1>a, <1>1, <2>1, <2>2
    <3>2. QED
      BY <2>1, <2>2, <3>1 DEF NothingToShow
  <2>3. CASE ~(q = 1 /\ p = 1)
    <3>1. PICK i \in 1..(Len(queue) - p) : i + p = q
      <4>1. CASE p = 0
        BY <1>a, <2>1, <4>1
      <4>2. CASE p = 1
        <5>1. q - 1 \in 1..(Len(queue) - p) /\ (q - 1) + p = q
          BY <1>a, <2>1, <2>3, <4>2
        <5>2. QED
          BY <5>1
      <4>3. QED
        BY <1>a, <4>1, <4>2
    <3>2. i \in DOMAIN queue' /\ queue'[i] = m
      BY <1>a, <2>1, <3>1 DEF Moves
    <3>3. ASSUME NEW j \in DOMAIN queue', i < j, queue'[j].what \in Showing
          PROVE  FALSE
      <4>1. j + p \in DOMAIN queue /\ queue'[j] = queue[j + p] /\ q < j + p
        BY <1>a, <1>1, <3>1, <3>3
      <4>2. QED
        BY <2>1, <3>3, <4>1
    <3>4. QED
      BY <3>2, <3>3 DEF ShownLast
  <2>4. QED
    BY <2>2, <2>3
<1>4. QED
  BY <1>2, <1>3

\* What is sent last is shown last.
LEMMA ShownSent ==
  ASSUME TypeQueue, NEW m \in Messages, Moves(0, <<m>>)
  PROVE  ShownLast(m)'
<1>1. /\ Len(queue) \in Nat /\ DOMAIN queue' = 1..Len(queue')
      /\ Len(queue') = Len(queue) + 1 /\ queue'[Len(queue) + 1] = m
  BY Lengths DEF Moves
<1>2. QED
  BY <1>1 DEF ShownLast

-----------------------------------------------------------------------------
(* The end of the process, and its beginning                               *)

LEMMA DiesInv ==
  ASSUME IInv, NEW why, Dies(why),
         why \in risks \cup (Faults \cap {"throws", "unread"}) \cup {"none"},
         taps' = taps, prefs' = prefs
  PROVE  IInv'
<1>1. /\ phase' = "down" /\ pc' = "ui" /\ queue' = <<>> /\ connected' = {}
      /\ native' = Address("none", 0) /\ cause' = why
      /\ top' = FALSE /\ dialog' = FALSE
      /\ UNCHANGED <<license, server, intent, act, fields, idimg, Readingtext,
                     tapped, outcome, risks>>
  BY DEF Dies, disk, activity, views, reads
<1>2. Cards' = Cards
  BY DEF Cards
<1>3. TypeServer'
  <2>1. TypeServer
    BY DEF IInv
  <2>2. native'.port \in Ports
    BY <1>1 DEF Address, Ports
  <2>3. QED
    BY <1>1, <2>1, <2>2 DEF TypeServer
<1>4. TypeShown'
  <2>1. TypeShown
    BY DEF IInv
  <2>2. QED
    BY <1>1, <1>2, <2>1 DEF TypeShown
<1>5. TypeThread' /\ TypeQueue'
  BY <1>1 DEF TypeThread, TypeQueue
<1>6. TypeRest'
  <2>1. top' \in BOOLEAN /\ dialog' \in BOOLEAN /\ ~top' /\ ~dialog'
    BY <1>1, Zenon
  <2>2. TypeRest
    BY DEF IInv
  <2>3. QED
    BY <1>1, <1>2, <2>1, <2>2 DEF TypeRest, Tapped
<1>7. TapsResumed' /\ DialogPauses' /\ ResultComes' /\ LatestServer'
  <2>1. TapsResumed'
    BY <1>1 DEF TapsResumed
  <2>2. DialogPauses' /\ ResultComes' /\ LatestServer'
    BY <1>1 DEF DialogPauses, ResultComes, LatestServer
  <2>3. QED
    BY <2>1, <2>2
<1>8. StaysForTap' /\ OneTap'
  BY <1>1 DEF StaysForTap, OneTap
<1>9. PortStored' /\ EndsOnlyFor'
  BY <1>1 DEF IInv, PortStored, EndsOnlyFor
<1>10. OutcomeShown'
  <2>1. OutcomeShown
    BY DEF IInv
  <2>2. QED
    BY <1>1, <2>1 DEF OutcomeShown
<1>11. QED
  BY <1>3, <1>4, <1>5, <1>6, <1>7, <1>8, <1>9, <1>10 DEF IInv

\* An exception that no action of the user brought about ends the process.
LEMMA ThrowsInv ==
  ASSUME IInv, NEW why \in Faults \cap {"throws", "unread"}, Throws(why)
  PROVE  IInv'
<1>1. Dies(why) /\ taps' = taps /\ prefs' = prefs
  BY DEF Throws, Dies, disk
<1>2. QED
  BY <1>1, DiesInv

LEMMA InitInv == Init => IInv
<1> SUFFICES ASSUME Init PROVE IInv
  OBVIOUS
<1> USE DEF Init
<1>1. TypeServer
  BY DEF TypeServer, Address, Ports
<1>2. TypeShown
  BY DEF TypeShown, Cards, Line, Ended
<1>3. TypeThread /\ TypeQueue
  BY DEF TypeThread, TypeQueue
<1>4. TypeRest
  <2>1. top \in BOOLEAN /\ dialog \in BOOLEAN
    BY Zenon
  <2>2. intent \in Intents /\ Tapped(intent)
    BY DEF NoIntent, Intent, Intents, Tapped, Cards
  <2>3. QED
    BY <2>1, <2>2 DEF TypeRest
<1>5. TapsResumed /\ DialogPauses /\ ResultComes /\ LatestServer
  BY DEF TapsResumed, ResumedAt, DialogPauses, ResultComes, LatestServer
<1>6. StaysForTap /\ OneTap /\ PortStored /\ EndsOnlyFor
  BY DEF StaysForTap, OneTap, PortStored, EndsOnlyFor
<1>7. OutcomeShown
  BY DEF OutcomeShown, NoIntent, Intent, Ended, Told
<1>8. QED
  BY <1>1, <1>2, <1>3, <1>4, <1>5, <1>6, <1>7 DEF IInv

\* onCreate, by Launch or by Relaunch: nothing is known of any card.
LEMMA Created ==
  ASSUME IInv, onCreate, prefs.port # NoNumber, UNCHANGED <<prefs, taps>>
  PROVE  /\ Cards' = Cards /\ 0 \in Cards
         /\ server' = prefs' /\ server' \in Servers /\ server'.port # NoNumber
         /\ Readingtext' \in [text : {"reading", "NFC_READCARD_FAIL", "READ_PHOTO_ERROR"},
                              visible : BOOLEAN]
         /\ outcome'.result = "none" /\ outcome'.card = 0
         /\ fields' = 0 /\ idimg' = 0 /\ tapped' = 0
         /\ intent' = NoIntent /\ intent' \in Intents /\ Tapped(intent)'
         /\ intent'.card = 0 /\ ~intent'.tech
<1>1. Cards' = Cards /\ 0 \in Cards
  BY DEF IInv, TypeRest, Cards
<1>2. server' = prefs' /\ server' \in Servers /\ server'.port # NoNumber
  BY DEF onCreate, IInv, TypeServer
<1>3. Readingtext' \in [text : {"reading", "NFC_READCARD_FAIL", "READ_PHOTO_ERROR"},
                        visible : BOOLEAN]
  BY DEF onCreate, Line
<1>4. /\ outcome'.result = "none" /\ outcome'.card = 0
      /\ fields' = 0 /\ idimg' = 0 /\ tapped' = 0
  BY DEF onCreate, Ended
<1>5. /\ intent' = NoIntent /\ intent' \in Intents
      /\ intent'.card = 0 /\ ~intent'.tech
  BY DEF onCreate, NoIntent, Intent, Intents
<1>6. Tapped(intent)'
  BY <1>1, <1>5 DEF Tapped
<1>7. QED
  BY <1>1, <1>2, <1>3, <1>4, <1>5, <1>6

LEMMA LaunchInv == IInv /\ (Launch \/ LaunchFails) => IInv'
<1> SUFFICES ASSUME IInv, Launch \/ LaunchFails PROVE IInv'
  OBVIOUS
<1>1. CASE LaunchFails
  <2>1. Dies("port") /\ "port" \in risks /\ taps' = taps
    BY <1>1 DEF IInv, LaunchFails, Throws, PortStored
  <2>2. prefs' = prefs
    BY <2>1 DEF Dies, disk
  <2>3. QED
    BY <2>1, <2>2, DiesInv
<1>2. CASE Launch
  <2>1. /\ phase = "down" /\ phase' = "resumed" /\ top' = TRUE /\ prefs.port # NoNumber
        /\ act' = act + 1 /\ onCreate
        /\ cause' = "none" /\ risks' = {}
        /\ UNCHANGED <<prefs, license, pc, queue, connected, native, dialog, taps>>
    BY <1>2 DEF Launch, disk, process
  <2>2. TypeRest /\ TypeShown /\ TypeServer
    BY DEF IInv
  <2>3. /\ queue = <<>> /\ pc = "ui" /\ ~dialog /\ queue' = <<>> /\ pc' = "ui"
        /\ ~dialog'
    BY <2>1, <2>2 DEF TypeRest
  <2>4. TypeServer'
    BY <2>1, <2>2, Created DEF TypeServer
  <2>5. TypeShown'
    BY <2>1, <2>2, Created DEF TypeShown
  <2>6. TypeThread' /\ TypeQueue'
    BY <2>1, <2>3 DEF TypeThread, TypeQueue
  <2>7. TypeRest'
    <3>1. top' \in BOOLEAN /\ dialog' \in BOOLEAN
      BY <2>1, <2>2, Zenon DEF TypeRest
    <3>2. act' \in Nat /\ taps' \in Nat /\ phase' # "down"
      BY <2>1, <2>2 DEF TypeRest
    <3>3. QED
      BY <2>1, <3>1, <3>2, Created DEF TypeRest
  <2>8. TapsResumed'
    BY <2>1, <2>3 DEF TapsResumed, ResumedAt
  <2>9. DialogPauses' /\ LatestServer'
    BY <2>1, <2>3 DEF DialogPauses, LatestServer
  <2>10. ResultComes'
    BY <2>1, Created DEF ResultComes
  <2>11. StaysForTap' /\ OneTap'
    BY <2>1, <2>3 DEF StaysForTap, OneTap
  <2>12. PortStored' /\ EndsOnlyFor'
    BY <2>1 DEF PortStored, EndsOnlyFor
  <2>13. OutcomeShown'
    BY <2>1, <2>3, Created DEF OutcomeShown, Told
  <2>14. QED
    BY <2>4, <2>5, <2>6, <2>7, <2>8, <2>9, <2>10, <2>11, <2>12, <2>13 DEF IInv
<1>3. QED
  BY <1>1, <1>2

-----------------------------------------------------------------------------
(* The system and the user                                                 *)

\* What is shown stays as it is, or is still to come, in a step that leaves
\* the outcome alone and handles nothing that shows something.
LEMMA OutcomeKept ==
  ASSUME TypeQueue, OutcomeShown, NEW p, NEW new \in Seq(Messages), Moves(p, new),
         \A k \in 1..Len(new) : new[k].what \notin Showing,
         p = 1 => queue[1].what \notin Showing,
         UNCHANGED <<intent, act, tapped, outcome, fields, Readingtext, connected>>,
         phase # "down", pc' = pc \/ (pc' = "connect" /\ intent.tech) \/ pc' = "ui"
  PROVE  OutcomeShown'
<1>1. NothingToShow => NothingToShow'
  BY ShownStep
<1>2. \A m : ShownLast(m) /\ m.what \in Showing => ShownLast(m)'
  BY ShownStep
<1>3. /\ Msg("READ_IDCARD_SUCCESS", intent, act).what \in Showing
      /\ Msg("NFC_READCARD_FAIL", intent, act).what \in Showing
  BY DEF Msg, Showing
<1>4. /\ ShownLast(Msg("READ_IDCARD_SUCCESS", intent, act)) =>
           ShownLast(Msg("READ_IDCARD_SUCCESS", intent, act))'
      /\ ShownLast(Msg("NFC_READCARD_FAIL", intent, act)) =>
           ShownLast(Msg("NFC_READCARD_FAIL", intent, act))'
  <2>1. PICK a, b : /\ a = Msg("READ_IDCARD_SUCCESS", intent, act)
                    /\ b = Msg("NFC_READCARD_FAIL", intent, act)
    OBVIOUS
  <2>2. /\ a = Msg("READ_IDCARD_SUCCESS", intent, act)'
        /\ b = Msg("NFC_READCARD_FAIL", intent, act)'
    BY <2>1 DEF Msg
  <2>3. (ShownLast(a) => ShownLast(a)') /\ (ShownLast(b) => ShownLast(b)')
    BY <1>2, <1>3, <2>1
  <2>4. QED
    BY <2>1, <2>2, <2>3 DEF ShownLast
<1>5. QED
  BY <1>1, <1>4, Zenon DEF OutcomeShown, Line


\* What the system posts leaves the fields, the views and the read alone.
LEMMA Posted ==
  ASSUME IInv, NEW new \in Seq(Messages), Post(new), phase # "down",
         UNCHANGED <<license, activity, views, phase, pc, process, reads, cause>>,
         prefs' \in Servers, risks \subseteq risks', taps' \in Nat, taps <= taps',
         \A k \in 1..Len(new) : new[k].what \notin Showing
  PROVE  /\ Moves(0, new) /\ phase' = PhaseNext(0) /\ Cards \subseteq Cards'
         /\ TypeServer' /\ TypeShown' /\ TypeThread'
         /\ intent' \in Intents /\ Tapped(intent)' /\ act' \in Nat /\ phase' # "down"
         /\ EndsOnlyFor' /\ OutcomeShown'
<1> USE DEF activity, views, process, reads
<1>1. TypeServer /\ TypeShown /\ TypeThread /\ TypeQueue /\ TypeRest
  BY DEF IInv
<1>2. Moves(0, new)
  BY <1>1, Posts
<1>3. Cards \subseteq Cards'
  BY <1>1 DEF TypeRest, Cards
<1>4. TypeServer'
  BY <1>1 DEF TypeServer
<1>5. TypeShown'
  BY <1>1, <1>3 DEF TypeShown
<1>6. TypeThread'
  BY <1>1 DEF TypeThread
<1>7. /\ intent' \in Intents /\ Tapped(intent)' /\ act' \in Nat /\ phase' # "down"
      /\ phase' = PhaseNext(0)
  BY <1>1, <1>3 DEF TypeRest, Tapped, PhaseNext
<1>8. EndsOnlyFor'
  BY DEF IInv, EndsOnlyFor
<1>9. OutcomeShown'
  <2>1. OutcomeShown
    BY DEF IInv
  <2>2. UNCHANGED <<intent, act, tapped, outcome, fields, Readingtext, connected>>
    OBVIOUS
  <2>3. pc' = pc
    OBVIOUS
  <2>4. QED
    BY <1>1, <1>2, <2>1, <2>2, <2>3, OutcomeKept
<1>10. QED
  BY <1>2, <1>3, <1>4, <1>5, <1>6, <1>7, <1>8, <1>9

LEMMA TapInv == IInv /\ Tap => IInv'
<1> SUFFICES ASSUME IInv, Tap PROVE IInv'
  OBVIOUS
<1>1. /\ TypeQueue /\ TypeRest /\ TypeShown /\ TapsResumed /\ DialogPauses /\ ResultComes
      /\ LatestServer /\ StaysForTap /\ OneTap /\ PortStored
  BY DEF IInv
<1>2. PICK m \in Messages : /\ Post(<<m>>) /\ m.what = "newintent"
                            /\ m.intent.card = taps + 1
  <2>1. PICK tech \in BOOLEAN : Post(<<Msg("newintent", Intent(taps + 1, tech), act)>>)
    BY DEF Tap
  <2>2. PICK in : in = Intent(taps + 1, tech)
    OBVIOUS
  <2>3. in \in Intents /\ in.card = taps + 1
    BY <1>1, <2>1, <2>2 DEF TypeRest, Intent, Intents
  <2>4. /\ Msg("newintent", in, act) \in Messages
        /\ Msg("newintent", in, act).what = "newintent"
        /\ Msg("newintent", in, act).intent = in
    BY <1>1, <2>3 DEF TypeRest, Messages, Msg, Whats
  <2>5. QED
    BY <2>1, <2>2, <2>3, <2>4
<1>3. taps \in Nat
  BY <1>1 DEF TypeRest
<1>4. /\ top /\ phase # "down" /\ taps' = taps + 1
      /\ UNCHANGED <<prefs, license, activity, views, phase, pc, process, top, dialog>>
      /\ UNCHANGED <<reads, cause>> /\ risks \subseteq risks'
      /\ "taps" \in risks' \/ ~(Waits("newintent") \/ Waits("MESSAGE_VALID_NFCBUTTON"))
  BY DEF Tap, Risk, disk, history
<1>5. UNCHANGED <<prefs, server, intent, act, phase, pc, connected, native, top, dialog>>
  BY <1>4 DEF activity, process
<1>6. /\ <<m>> \in Seq(Messages) /\ Len(<<m>>) = 1 /\ <<m>>[1] = m
      /\ \A k \in 1..1 : <<m>>[k] = m
  OBVIOUS
<1>7. \A k \in 1..Len(<<m>>) : <<m>>[k].what = "newintent"
  BY <1>2, <1>6
<1>8. /\ Moves(0, <<m>>) /\ phase' = PhaseNext(0) /\ Cards \subseteq Cards'
      /\ TypeServer' /\ TypeShown' /\ TypeThread'
      /\ intent' \in Intents /\ Tapped(intent)' /\ act' \in Nat /\ phase' # "down"
      /\ EndsOnlyFor' /\ OutcomeShown'
  <2>1. prefs' \in Servers /\ taps' \in Nat /\ taps <= taps'
    BY <1>3, <1>4 DEF IInv, TypeServer
  <2>2. \A k \in 1..Len(<<m>>) : <<m>>[k].what \notin Showing
    BY <1>7 DEF Showing
  <2>3. QED
    BY <1>2, <1>4, <1>6, <2>1, <2>2, Posted
<1>9. TypeQueue'
  <2>1. Tapped(m.intent)'
    BY <1>2, <1>3, <1>4 DEF Tapped, Cards
  <2>2. m.intent.card # 0
    BY <1>2, <1>3
  <2>3. QED
    BY <1>1, <1>6, <1>8, <2>1, <2>2, QueueTyped
<1>10. TypeRest'
  BY <1>1, <1>3, <1>4, <1>8 DEF TypeRest
<1>11. TapsResumed'
  <2>1. /\ top' = top /\ Len(<<m>>) <= 1
        /\ \A k \in 1..Len(<<m>>) : /\ <<m>>[k].what # "pause"
                                    /\ <<m>>[k].what = "newintent" => top
    BY <1>4, <1>5, <1>6, <1>7
  <2>2. QED
    BY <1>1, <1>6, <1>8, <2>1, TapsResumedStep
<1>12. DialogPauses'
  BY <1>1, <1>4, <1>6, <1>7, <1>8, DialogPausesStep
<1>13. ResultComes'
  <2>1. 0 # 1
    OBVIOUS
  <2>2. QED
    BY <1>1, <1>4, <1>5, <1>6, <1>8, <2>1, ResultComesStep
<1>14. LatestServer' /\ PortStored'
  <2>1. LatestServer'
    BY <1>1, <1>5, Zenon DEF LatestServer
  <2>2. PortStored'
    BY <1>1, <1>4, <1>5 DEF PortStored
  <2>3. QED
    BY <2>1, <2>2
<1>15. StaysForTap'
  <2>1. \A k \in 1..Len(<<m>>) :
          <<m>>[k].what \notin Leaving \cup {"MESSAGE_VALID_NFCBUTTON"}
    BY <1>7 DEF Leaving
  <2>2. QED
    BY <1>1, <1>4, <1>5, <1>6, <1>8, <2>1, StaysForTapStep
<1>16. OneTap'
  <2>1. CASE "taps" \in risks'
    BY <1>1, <1>4, <1>6, <1>8, <2>1, OneTapStep
  <2>2. CASE ~(Waits("newintent") \/ Waits("MESSAGE_VALID_NFCBUTTON"))
    <3>1. \A i \in DOMAIN queue : queue[i].what \notin Tapping
      BY <2>2 DEF Waits, Tapping
    <3>2. m.intent.card \notin connected \cup {intent.card}
      BY <1>1, <1>2, <1>3 DEF TypeShown, TypeRest, Tapped, Cards
    <3>3. TapComes(0, <<m>>)
      BY <1>2, <1>5, <1>6, <3>1, <3>2 DEF TapComes
    <3>4. QED
      BY <1>1, <1>4, <1>6, <1>8, <3>3, OneTapStep
  <2>3. QED
    BY <1>4, <2>1, <2>2
<1>17. QED
  BY <1>8, <1>9, <1>10, <1>11, <1>12, <1>13, <1>14, <1>15, <1>16 DEF IInv

LEMMA Single ==
  ASSUME NEW m \in Messages
  PROVE  /\ <<m>> \in Seq(Messages) /\ Len(<<m>>) = 1 /\ <<m>>[1] = m
         /\ \A k \in 1..Len(<<m>>) : <<m>>[k] = m
OBVIOUS

\* The user leaves, returns or turns the screen: one message comes last.
LEMMA SystemPosts ==
  ASSUME IInv, NEW what \in {"pause", "resume", "relaunch"}, phase # "down",
         Post(<<Sys(what)>>),
         UNCHANGED <<disk, activity, views, phase, pc, process, reads, cause, taps>>,
         top' \in BOOLEAN, dialog' \in BOOLEAN, risks \subseteq risks',
         what \in Leaving => "left" \in risks' \/ ~Waits("newintent"),
         \/ what = "pause" /\ ~top'
         \/ what = "resume" /\ ~dialog'
         \/ what = "relaunch" /\ top' = top /\ dialog' = dialog
  PROVE  IInv'
<1>1. /\ TypeQueue /\ TypeRest /\ TypeServer /\ TapsResumed /\ DialogPauses /\ ResultComes
      /\ LatestServer /\ StaysForTap /\ OneTap /\ PortStored
  BY DEF IInv
<1>2. PICK m \in Messages : m = Sys(what)
  BY <1>1, SentMessages DEF Whats
<1>3. /\ m.what = what /\ Tapped(m.intent)' /\ Post(<<m>>)
  <2>1. m.intent.card = 0 /\ ~m.intent.tech
    BY <1>2 DEF Sys, Msg, NoIntent, Intent
  <2>2. 0 \in Cards'
    BY <1>1 DEF TypeRest, Cards
  <2>3. m.what = what /\ Post(<<m>>)
    BY <1>2 DEF Sys, Msg
  <2>4. QED
    BY <2>1, <2>2, <2>3 DEF Tapped
<1>4. /\ <<m>> \in Seq(Messages) /\ Len(<<m>>) = 1 /\ Len(<<m>>) <= 1 /\ Len(<<m>>) > 0
      /\ <<m>>[1] = m /\ <<m>>[Len(<<m>>)] = m
      /\ \A k \in 1..Len(<<m>>) : <<m>>[k] = m
  BY Single
<1>5. UNCHANGED <<prefs, license, server, intent, act, phase, pc, connected, native>>
  BY DEF disk, activity, process
<1>6. taps \in Nat /\ taps <= taps' /\ taps' \in Nat /\ prefs' \in Servers
  BY <1>1, <1>5 DEF TypeRest, TypeServer
<1>7. /\ what \notin Showing \cup Tapping /\ what # "newintent" /\ what # "result"
      /\ what # "MESSAGE_VALID_NFCBUTTON"
  BY DEF Showing, Tapping
<1>8. /\ Moves(0, <<m>>) /\ phase' = PhaseNext(0) /\ Cards \subseteq Cards'
      /\ TypeServer' /\ TypeShown' /\ TypeThread'
      /\ intent' \in Intents /\ Tapped(intent)' /\ act' \in Nat /\ phase' # "down"
      /\ EndsOnlyFor' /\ OutcomeShown'
  <2>1. \A k \in 1..Len(<<m>>) : <<m>>[k].what \notin Showing
    BY <1>3, <1>4, <1>7
  <2>2. UNCHANGED <<license, activity, views, phase, pc, process, reads, cause>>
    BY DEF disk
  <2>3. QED
    BY <1>3, <1>4, <1>6, <2>1, <2>2, Posted
<1>9. TypeQueue'
  BY <1>1, <1>3, <1>4, <1>7, <1>8, QueueTyped
<1>10. TypeRest'
  BY <1>1, <1>6, <1>8 DEF TypeRest
<1>11. TapsResumed'
  <2>1. \A k \in 1..Len(<<m>>) : <<m>>[k].what = what
    BY <1>3, <1>4
  <2>2. \/ /\ top' = top /\ Len(<<m>>) <= 1
           /\ \A k \in 1..Len(<<m>>) : /\ <<m>>[k].what # "pause"
                                       /\ <<m>>[k].what = "newintent" => top
        \/ /\ ~top'
           /\ \A k \in 1..Len(<<m>>) : <<m>>[k].what # "newintent"
        \/ /\ Len(<<m>>) > 0 /\ <<m>>[Len(<<m>>)].what = "resume"
           /\ \A k \in 1..Len(<<m>>) : <<m>>[k].what # "newintent"
    BY <1>3, <1>4, <1>7, <2>1
  <2>3. QED
    BY <1>1, <1>4, <1>8, <2>2, TapsResumedStep
<1>12. DialogPauses'
  <2>1. \/ ~dialog'
        \/ ~top' /\ <<m>> = <<Sys("pause")>>
        \/ /\ dialog' = dialog /\ top' = top
           /\ \A k \in 1..Len(<<m>>) : <<m>>[k].what # "resume"
    BY <1>2, <1>3, <1>4
  <2>2. QED
    BY <1>1, <1>4, <1>8, <2>1, DialogPausesStep
<1>13. ResultComes'
  <2>1. 0 # 1
    OBVIOUS
  <2>2. QED
    BY <1>1, <1>4, <1>5, <1>8, <2>1, ResultComesStep
<1>14. LatestServer'
  BY <1>1, <1>5 DEF LatestServer
<1>15. PortStored'
  BY <1>1, <1>5 DEF PortStored
<1>16. StaysForTap'
  <2>1. \/ "left" \in risks'
        \/ \A k \in 1..Len(<<m>>) :
             <<m>>[k].what \notin Leaving \cup {"MESSAGE_VALID_NFCBUTTON"}
        \/ Len(<<m>>) = 1 /\ <<m>>[1].what \in Leaving /\ ~Waits("newintent")
    BY <1>3, <1>4, <1>7
  <2>2. QED
    BY <1>1, <1>4, <1>5, <1>8, <2>1, StaysForTapStep
<1>17. OneTap'
  <2>1. NoTap(0, <<m>>)
    BY <1>3, <1>4, <1>5, <1>7 DEF NoTap
  <2>2. QED
    BY <1>1, <1>4, <1>8, <2>1, OneTapStep
<1>18. QED
  BY <1>8, <1>9, <1>10, <1>11, <1>12, <1>13, <1>14, <1>15, <1>16, <1>17 DEF IInv

LEMMA LeavesInv == IInv /\ (Leave \/ Return \/ Turn) => IInv'
<1> SUFFICES ASSUME IInv, Leave \/ Return \/ Turn PROVE IInv'
  OBVIOUS
<1>1. top \in BOOLEAN /\ dialog \in BOOLEAN
  BY DEF IInv, TypeRest
<1> USE DEF Event, Risk, history, Leaving
<1>2. CASE Leave
  <2>1. /\ phase # "down" /\ Post(<<Sys("pause")>>) /\ top' = FALSE /\ ~top'
        /\ UNCHANGED <<disk, activity, views, phase, pc, process, reads, cause, taps>>
        /\ risks \subseteq risks' /\ ("left" \in risks' \/ ~Waits("newintent"))
    BY <1>2 DEF Leave
  <2>2. dialog' \in BOOLEAN
    BY <1>2, Zenon DEF Leave
  <2>3. top' \in BOOLEAN
    BY <2>1, Zenon
  <2>4. QED
    BY <2>1, <2>2, <2>3, SystemPosts
<1>3. CASE Return
  <2>1. /\ phase # "down" /\ Post(<<Sys("resume")>>) /\ ~dialog /\ UNCHANGED dialog /\ ~dialog'
        /\ UNCHANGED <<disk, activity, views, phase, pc, process, reads, cause, taps>>
        /\ risks \subseteq risks' /\ top' = TRUE
    BY <1>3 DEF Return
  <2>2. top' \in BOOLEAN /\ dialog' \in BOOLEAN
    BY <1>1, <2>1, Zenon
  <2>3. QED
    BY <2>1, <2>2, SystemPosts
<1>4. CASE Turn
  <2>1. /\ phase # "down" /\ Post(<<Sys("relaunch")>>) /\ UNCHANGED <<top, dialog>>
        /\ UNCHANGED <<disk, activity, views, phase, pc, process, reads, cause, taps>>
        /\ risks \subseteq risks' /\ ("left" \in risks' \/ ~Waits("newintent"))
    BY <1>4 DEF Turn
  <2>2. top' \in BOOLEAN /\ dialog' \in BOOLEAN
    BY <1>1, <2>1, Zenon
  <2>3. QED
    BY <2>1, <2>2, SystemPosts
<1>5. QED
  BY <1>2, <1>3, <1>4

LEMMA KillInv == IInv /\ Kill => IInv'
BY DiesInv DEF Kill, Dies, disk


\* The result comes before the resume, and nothing in the queue resumes the
\* activity before: the dialog was open.
LEMMA CloseSettingsInv == IInv /\ CloseSettings => IInv'
<1> SUFFICES ASSUME IInv, CloseSettings PROVE IInv'
  OBVIOUS
<1>1. /\ TypeQueue /\ TypeRest /\ TypeServer /\ TapsResumed /\ DialogPauses /\ ResultComes
      /\ LatestServer /\ StaysForTap /\ OneTap /\ PortStored
  BY DEF IInv
<1>2. PICK a \in Messages, b \in Messages : a = Sys("result") /\ b = Sys("resume")
  BY <1>1, SentMessages DEF Whats
<1>3. PICK new : new = <<a, b>>
  OBVIOUS
<1>4. /\ new \in Seq(Messages) /\ Len(new) = 2 /\ new[1] = a /\ new[2] = b
      /\ \A k \in 1..Len(new) : new[k] = a \/ new[k] = b
  BY <1>3
<1>5. a.what = "result" /\ b.what = "resume"
  BY <1>2 DEF Sys, Msg
<1>6. Tapped(a.intent)' /\ Tapped(b.intent)'
  <2>1. a.intent.card = 0 /\ ~a.intent.tech /\ b.intent.card = 0 /\ ~b.intent.tech
    BY <1>2 DEF Sys, Msg, NoIntent, Intent
  <2>2. 0 \in Cards'
    BY <1>1 DEF TypeRest, Cards, CloseSettings
  <2>3. QED
    BY <2>1, <2>2 DEF Tapped
<1>7. /\ phase = "paused" /\ dialog /\ pc = "ui" /\ dialog' = FALSE /\ top' = TRUE
      /\ \A i \in DOMAIN queue : queue[i].what # "pause"
      /\ prefs' \in Servers /\ (prefs'.port = NoNumber => "port" \in risks')
      /\ risks \subseteq risks' /\ UNCHANGED taps
      /\ UNCHANGED <<license, activity, views, phase, pc, process, reads, cause>>
  BY DEF CloseSettings, Risk, history
<1>8. Post(new)
  BY <1>2, <1>3 DEF CloseSettings
<1>9. UNCHANGED <<license, server, intent, act, phase, pc, connected, native>>
  BY <1>7 DEF activity, process
<1>10. taps \in Nat /\ taps <= taps' /\ taps' \in Nat
  BY <1>1, <1>7 DEF TypeRest
<1>11. \A k \in 1..Len(new) :
         /\ new[k].what \in {"result", "resume"}
         /\ new[k].what \notin Showing \cup Tapping \cup Leaving
         /\ Tapped(new[k].intent)'
  BY <1>4, <1>5, <1>6 DEF Showing, Tapping, Leaving
<1>12. /\ Moves(0, new) /\ phase' = PhaseNext(0) /\ Cards \subseteq Cards'
       /\ TypeServer' /\ TypeShown' /\ TypeThread'
       /\ intent' \in Intents /\ Tapped(intent)' /\ act' \in Nat /\ phase' # "down"
       /\ EndsOnlyFor' /\ OutcomeShown'
  BY <1>4, <1>7, <1>8, <1>10, <1>11, Posted
<1>13. TypeQueue'
  BY <1>1, <1>4, <1>11, <1>12, QueueTyped
<1>14. TypeRest'
  <2>1. top' \in BOOLEAN /\ dialog' \in BOOLEAN
    BY <1>7, Zenon
  <2>2. QED
    BY <1>10, <1>12, <2>1 DEF TypeRest
<1>15. TapsResumed'
  <2>1. /\ Len(new) > 0 /\ new[Len(new)].what = "resume"
        /\ \A k \in 1..Len(new) : new[k].what # "newintent"
    BY <1>4, <1>5, <1>11
  <2>2. QED
    BY <1>1, <1>4, <1>12, <2>1, TapsResumedStep
<1>16. DialogPauses'
  BY <1>7 DEF DialogPauses
<1>17. ResultComes'
  <2>1. \A i \in DOMAIN queue : ~Is(i, "resume")
    BY <1>1, <1>7 DEF DialogPauses, TypeQueue, Is
  <2>2. /\ Len(queue) \in Nat /\ DOMAIN queue = 1..Len(queue) /\ DOMAIN queue' = 1..Len(queue')
        /\ Len(queue') = Len(queue) + 2
        /\ \A i \in 1..Len(queue) : queue'[i] = queue[i]
        /\ queue'[Len(queue) + 1] = a
    BY <1>1, <1>4, <1>12, Lengths DEF Moves
  <2>3. PICK n : n = Len(queue) + 1
    OBVIOUS
  <2>4. n \in DOMAIN queue' /\ Is(n, "result")'
    BY <1>5, <2>2, <2>3 DEF Is
  <2>5. ASSUME NEW j \in 1..n PROVE ~Is(j, "resume")'
    BY <1>5, <2>1, <2>2, <2>3 DEF Is
  <2>6. QED
    BY <1>7, <1>9, <2>4, <2>5 DEF ResultComes
<1>18. LatestServer'
  BY <1>7, <1>9 DEF LatestServer
<1>19. PortStored'
  BY <1>7 DEF PortStored
<1>20. StaysForTap'
  <2>1. \A k \in 1..Len(new) : new[k].what \notin Leaving \cup {"MESSAGE_VALID_NFCBUTTON"}
    BY <1>11 DEF Tapping
  <2>2. QED
    BY <1>1, <1>4, <1>7, <1>9, <1>12, <2>1, StaysForTapStep
<1>21. OneTap'
  <2>1. NoTap(0, new)
    BY <1>9, <1>11 DEF NoTap
  <2>2. QED
    BY <1>1, <1>4, <1>7, <1>12, <2>1, OneTapStep
<1>22. QED
  BY <1>12, <1>13, <1>14, <1>15, <1>16, <1>17, <1>18, <1>19, <1>20, <1>21 DEF IInv

-----------------------------------------------------------------------------
(* The messages of the queue                                               *)

\* A step of the UI thread that leaves the activity as it is and sends at
\* most a message to be shown keeps the order of the messages.
LEMMA Orderly ==
  ASSUME IInv, NEW p, NEW new \in Seq(Messages), Moves(p, new), phase # "down",
         UNCHANGED <<prefs, intent, act, system, cause, risks>>,
         server' = prefs' \/ (server' = server /\ (p = 1 => ~Is(1, "result"))),
         phase' = PhaseNext(p),
         Len(new) <= 1,
         \A k \in 1..Len(new) : new[k].what \in Showing /\ Tapped(new[k].intent),
         NoTap(p, new)
  PROVE  /\ Cards' = Cards /\ phase' \in {"resumed", "paused"}
         /\ TypeQueue' /\ TypeRest'
         /\ TapsResumed' /\ DialogPauses' /\ ResultComes'
         /\ StaysForTap' /\ OneTap' /\ PortStored' /\ EndsOnlyFor'
<1>1. /\ TypeQueue /\ TypeRest /\ TypeThread /\ TapsResumed /\ DialogPauses /\ ResultComes
      /\ StaysForTap /\ OneTap /\ PortStored /\ EndsOnlyFor
  BY DEF IInv
<1>2. UNCHANGED <<prefs, intent, act, top, dialog, taps, cause, risks>>
  BY DEF system
<1>3. Cards' = Cards
  BY <1>2 DEF Cards
<1>4. phase' \in {"resumed", "paused"}
  BY <1>1 DEF TypeThread, PhaseNext
<1>5. \A k \in 1..Len(new) : /\ new[k].what \notin Tapping \cup Leaving
                             /\ new[k].what \notin {"resume", "newintent", "pause"}
  BY DEF Showing, Tapping, Leaving
<1>6. TypeQueue'
  <2>1. \A k \in 1..Len(new) : /\ Tapped(new[k].intent)'
                               /\ new[k].what = "newintent" => new[k].intent.card # 0
    BY <1>3, <1>5 DEF Tapped
  <2>2. QED
    BY <1>1, <1>3, <2>1, QueueTyped
<1>7. TypeRest'
  BY <1>1, <1>2, <1>3, <1>4 DEF TypeRest, Tapped
<1>8. TapsResumed'
  <2>1. /\ top' = top /\ Len(new) <= 1
        /\ \A k \in 1..Len(new) : /\ new[k].what # "pause"
                                  /\ new[k].what = "newintent" => top
    BY <1>2, <1>5
  <2>2. QED
    BY <1>1, <2>1, TapsResumedStep
<1>9. DialogPauses'
  BY <1>1, <1>2, <1>5, DialogPausesStep
<1>10. ResultComes'
  BY <1>1, <1>2, ResultComesStep
<1>11. StaysForTap'
  <2>1. \A k \in 1..Len(new) : new[k].what \notin Leaving \cup {"MESSAGE_VALID_NFCBUTTON"}
    BY <1>5 DEF Tapping
  <2>2. QED
    BY <1>1, <1>2, <2>1, StaysForTapStep
<1>12. OneTap'
  BY <1>1, <1>2, OneTapStep
<1>13. PortStored' /\ EndsOnlyFor'
  BY <1>1, <1>2 DEF PortStored, EndsOnlyFor
<1>14. QED
  BY <1>2, <1>3, <1>4, <1>6, <1>7, <1>8, <1>9, <1>10, <1>11, <1>12, <1>13

\* A step that sends nothing.
LEMMA Nothing ==
  /\ <<>> \in Seq(Messages) /\ Len(<<>>) = 0 /\ Len(<<>>) <= 1 /\ 1..Len(<<>>) = {}
  /\ 0 # 1 /\ 1 # 0
OBVIOUS

\* The activity is paused or resumed.
LEMMA PhaseInv == IInv /\ (onPause \/ onResume) => IInv'
<1> SUFFICES ASSUME IInv, onPause \/ onResume PROVE IInv'
  OBVIOUS
<1>1. TypeQueue /\ TypeServer /\ TypeShown /\ TypeThread /\ LatestServer /\ OutcomeShown
  BY DEF IInv
<1>2. PICK what \in {"pause", "resume"} :
        Handles(what) /\ phase' = IF what = "pause" THEN "paused" ELSE "resumed"
  BY DEF onPause, onResume
<1>3. queue' = Tail(queue) /\ UNCHANGED <<disk, activity, views, pc, process, system, history>>
  BY DEF onPause, onResume
<1>4. UNCHANGED <<prefs, license, server, intent, act, fields, idimg, Readingtext, pc, connected,
                  native, tapped, outcome, cause, risks>>
  BY <1>3 DEF disk, activity, views, process, history, reads
<1>a. UNCHANGED <<prefs, server, intent, act, system, cause, risks>>
  BY <1>3, <1>4
<1>5. queue # <<>> /\ Is(1, what) /\ phase # "down" /\ pc = "ui"
  BY <1>1, <1>2, First
<1>6. Moves(1, <<>>)
  BY <1>1, <1>3, <1>5, Takes
<1>7. phase' = PhaseNext(1) /\ ~Is(1, "result") /\ queue[1].what \notin Showing
  BY <1>2, <1>5 DEF PhaseNext, Is, Showing
<1>8. /\ Cards' = Cards /\ phase' \in {"resumed", "paused"}
      /\ TypeQueue' /\ TypeRest'
      /\ TapsResumed' /\ DialogPauses' /\ ResultComes'
      /\ StaysForTap' /\ OneTap' /\ PortStored' /\ EndsOnlyFor'
  <2>1. NoTap(1, <<>>)
    BY <1>4, Nothing DEF NoTap
  <2>2. QED
    BY <1>a, <1>5, <1>6, <1>7, <2>1, Nothing, Orderly
<1>9. TypeServer' /\ TypeShown'
  BY <1>1, <1>4, <1>8 DEF TypeServer, TypeShown
<1>10. TypeThread' /\ LatestServer'
  BY <1>4, <1>5, <1>8 DEF TypeThread, LatestServer
<1>11. OutcomeShown'
  BY <1>1, <1>4, <1>5, <1>6, <1>7, Nothing, OutcomeKept
<1>12. QED
  BY <1>8, <1>9, <1>10, <1>11 DEF IInv


\* A tap is handed on to the handler by the activity that it found resumed.
LEMMA NewIntentInv == IInv /\ onNewIntent => IInv'
<1> SUFFICES ASSUME IInv, onNewIntent PROVE IInv'
  OBVIOUS
<1>1. /\ TypeQueue /\ TypeRest /\ TypeServer /\ TypeShown /\ TypeThread /\ TapsResumed
      /\ DialogPauses /\ ResultComes /\ StaysForTap /\ OneTap /\ PortStored /\ EndsOnlyFor
  BY DEF IInv
<1>2. /\ queue # <<>> /\ Head(queue) = queue[1] /\ Is(1, "newintent") /\ 1 \in DOMAIN queue
      /\ queue[1] \in Messages /\ Tapped(queue[1].intent) /\ phase # "down" /\ pc = "ui"
  BY <1>1, First DEF onNewIntent
<1>3. PICK m \in Messages : m = Sys("MESSAGE_VALID_NFCBUTTON")
  BY <1>1, SentMessages DEF Whats
<1>4. /\ intent' = queue[1].intent /\ fields' = 0 /\ idimg' = 0
      /\ Readingtext' = Line("reading", TRUE) /\ tapped' = intent'.card
      /\ outcome' = Ended(intent'.card, "none")
      /\ queue' = Append(Tail(queue), m)
      /\ UNCHANGED <<prefs, license, server, act, phase, pc, connected, native, top, dialog,
                     taps, cause, risks>>
  BY <1>2, <1>3 DEF onNewIntent, StoreIntent, disk, process, system
<1>5. m.what = "MESSAGE_VALID_NFCBUTTON" /\ m.act = act /\ m.intent.card = 0 /\ ~m.intent.tech
  BY <1>3 DEF Sys, Msg, NoIntent, Intent
<1>6. Moves(1, <<m>>)
  BY <1>1, <1>2, <1>4, Passes
<1>7. /\ <<m>> \in Seq(Messages) /\ Len(<<m>>) = 1 /\ Len(<<m>>) <= 1 /\ <<m>>[1] = m
      /\ \A k \in 1..Len(<<m>>) : <<m>>[k] = m
  BY Single
<1>8. Cards' = Cards /\ 0 \in Cards
  BY <1>1, <1>4 DEF Cards, TypeRest
<1>9. /\ intent' \in Intents /\ Tapped(intent)' /\ Tapped(m.intent)' /\ intent'.card \in Cards
      /\ phase' = PhaseNext(1)
  <2>1. intent' \in Intents
    BY <1>2, <1>4 DEF Messages
  <2>2. Tapped(intent)' /\ Tapped(m.intent)' /\ intent'.card \in Cards
    BY <1>2, <1>4, <1>5, <1>8 DEF Tapped
  <2>3. phase' = PhaseNext(1)
    BY <1>2, <1>4 DEF PhaseNext, Is
  <2>4. QED
    BY <2>1, <2>2, <2>3
<1>10. TypeServer'
  BY <1>1, <1>4 DEF TypeServer
<1>11. TypeShown'
  BY <1>1, <1>4, <1>8, <1>9 DEF TypeShown, Line, Ended
<1>12. TypeThread' /\ LatestServer'
  BY <1>1, <1>2, <1>4 DEF TypeThread, LatestServer
<1>13. TypeQueue'
  BY <1>1, <1>5, <1>6, <1>7, <1>8, <1>9, QueueTyped
<1>14. TypeRest'
  BY <1>1, <1>2, <1>4, <1>9 DEF TypeRest
<1>15. TapsResumed'
  <2>1. \A k \in 1..Len(<<m>>) : /\ <<m>>[k].what # "pause"
                                 /\ <<m>>[k].what = "newintent" => top
    BY <1>5, <1>7
  <2>2. top' = top
    BY <1>4
  <2>3. QED
    BY <1>1, <1>6, <1>7, <1>9, <2>1, <2>2, TapsResumedStep
<1>16. DialogPauses'
  <2>1. \A k \in 1..Len(<<m>>) : <<m>>[k].what # "resume"
    BY <1>5, <1>7
  <2>2. dialog' = dialog /\ top' = top
    BY <1>4
  <2>3. QED
    BY <1>1, <1>6, <1>7, <2>1, <2>2, DialogPausesStep
<1>17. ResultComes'
  <2>1. ~Is(1, "result") /\ UNCHANGED <<prefs, server>>
    BY <1>2, <1>4 DEF Is
  <2>2. QED
    BY <1>1, <1>2, <1>6, <1>7, <1>9, <2>1, ResultComesStep
<1>18. StaysForTap'
  <2>1. ResumedAt(1)
    BY <1>1, <1>2 DEF TapsResumed
  <2>2. phase = "resumed"
    BY <2>1 DEF ResumedAt
  <2>3. /\ Len(<<m>>) = 1 /\ <<m>>[1].what = "MESSAGE_VALID_NFCBUTTON"
        /\ <<m>>[1].act = act /\ UNCHANGED act /\ 1 = 1
        /\ Is(1, "newintent") /\ phase' = "resumed" /\ risks \subseteq risks'
    BY <1>2, <1>4, <1>5, <1>7, <2>2
  <2>4. QED
    BY <1>1, <1>6, <1>7, <1>9, <2>3, StaysForTapStep
<1>19. OneTap'
  <2>1. TapTaken(1, <<m>>)
    BY <1>2, <1>4, <1>5, <1>7 DEF TapTaken
  <2>2. risks \subseteq risks'
    BY <1>4
  <2>3. QED
    BY <1>1, <1>6, <1>7, <2>1, <2>2, OneTapStep
<1>20. PortStored' /\ EndsOnlyFor'
  BY <1>1, <1>4 DEF PortStored, EndsOnlyFor
<1>21. OutcomeShown'
  BY <1>2, <1>4 DEF OutcomeShown, Ended, Told
<1>22. QED
  BY <1>10, <1>11, <1>12, <1>13, <1>14, <1>15, <1>16, <1>17, <1>18, <1>19, <1>20, <1>21 DEF IInv

\* The result of the dialog: the stored server, or the end.
LEMMA ActivityResultInv == IInv /\ onActivityResult => IInv'
<1> SUFFICES ASSUME IInv, onActivityResult PROVE IInv'
  OBVIOUS
<1>1. /\ TypeQueue /\ TypeServer /\ TypeShown /\ TypeThread /\ PortStored /\ OutcomeShown
  BY DEF IInv
<1>2. queue # <<>> /\ Is(1, "result") /\ phase # "down" /\ pc = "ui"
  BY <1>1, First DEF onActivityResult
<1>3. CASE prefs.port = NoNumber
  <2>1. Dies("port") /\ taps' = taps /\ prefs' = prefs /\ "port" \in risks
    BY <1>1, <1>3 DEF onActivityResult, Throws, Dies, disk, PortStored
  <2>2. QED
    BY <2>1, DiesInv
<1>4. CASE prefs.port # NoNumber
  <2>1. /\ server' = prefs /\ queue' = Tail(queue)
        /\ UNCHANGED <<disk, intent, act, views, phase, pc, process, system, history>>
    BY <1>4 DEF onActivityResult
  <2>2. /\ UNCHANGED <<prefs, intent, act, system, cause, risks>>
        /\ UNCHANGED <<prefs, license, native, fields, idimg, Readingtext, pc, connected,
                       tapped, outcome>>
    BY <2>1 DEF disk, views, process, history, reads
  <2>3. Moves(1, <<>>)
    BY <1>1, <1>2, <2>1, Takes
  <2>4. phase' = PhaseNext(1) /\ queue[1].what \notin Showing /\ server' = prefs'
    BY <1>2, <2>1, <2>2 DEF PhaseNext, Is, Showing
  <2>5. /\ Cards' = Cards /\ phase' \in {"resumed", "paused"}
        /\ TypeQueue' /\ TypeRest'
        /\ TapsResumed' /\ DialogPauses' /\ ResultComes'
        /\ StaysForTap' /\ OneTap' /\ PortStored' /\ EndsOnlyFor'
    <3>1. NoTap(1, <<>>)
      BY <2>2, Nothing DEF NoTap
    <3>2. QED
      BY <1>2, <2>2, <2>3, <2>4, <3>1, Nothing, Orderly
  <2>6. TypeServer' /\ TypeShown'
    BY <1>1, <1>4, <2>1, <2>2, <2>5 DEF TypeServer, TypeShown
  <2>7. TypeThread' /\ LatestServer'
    BY <1>2, <2>2, <2>5 DEF TypeThread, LatestServer
  <2>8. OutcomeShown'
    BY <1>1, <1>2, <2>2, <2>3, <2>4, Nothing, OutcomeKept
  <2>9. QED
    BY <2>5, <2>6, <2>7, <2>8 DEF IInv
<1>5. QED
  BY <1>3, <1>4

\* The screen has been turned: another activity begins, or the application
\* ends in onCreate.
LEMMA RelaunchInv == IInv /\ Relaunch => IInv'
<1> SUFFICES ASSUME IInv, Relaunch PROVE IInv'
  OBVIOUS
<1>1. /\ TypeQueue /\ TypeRest /\ TypeServer /\ TypeShown /\ TypeThread /\ TapsResumed
      /\ DialogPauses /\ ResultComes /\ StaysForTap /\ OneTap /\ PortStored /\ EndsOnlyFor
  BY DEF IInv
<1>2. queue # <<>> /\ Is(1, "relaunch") /\ phase # "down" /\ pc = "ui"
  BY <1>1, First DEF Relaunch
<1>3. CASE prefs.port = NoNumber
  <2>1. Dies("port") /\ taps' = taps /\ prefs' = prefs /\ "port" \in risks
    BY <1>1, <1>3 DEF Relaunch, Throws, Dies, disk, PortStored
  <2>2. QED
    BY <2>1, DiesInv
<1>4. CASE prefs.port # NoNumber
  <2>1. /\ act' = act + 1 /\ queue' = Tail(queue) /\ onCreate
        /\ UNCHANGED <<prefs, license, phase, pc, connected, native, top, dialog, taps,
                       cause, risks>>
    BY <1>4 DEF Relaunch, disk, process, system
  <2>2. /\ Cards' = Cards /\ 0 \in Cards
        /\ server' = prefs' /\ server' \in Servers /\ server'.port # NoNumber
        /\ Readingtext' \in [text : {"reading", "NFC_READCARD_FAIL", "READ_PHOTO_ERROR"},
                              visible : BOOLEAN]
        /\ outcome'.result = "none" /\ outcome'.card = 0
        /\ fields' = 0 /\ idimg' = 0 /\ tapped' = 0
        /\ intent' = NoIntent /\ intent' \in Intents /\ Tapped(intent)'
        /\ intent'.card = 0 /\ ~intent'.tech
    <3>1. UNCHANGED <<prefs, taps>>
      BY <2>1
    <3>2. QED
      BY <1>4, <2>1, <3>1, Created
  <2>3. Moves(1, <<>>)
    BY <1>1, <1>2, <2>1, Takes
  <2>4. phase' = PhaseNext(1) /\ risks \subseteq risks' /\ Cards \subseteq Cards'
    BY <1>2, <2>1, <2>2 DEF PhaseNext, Is
  <2>5. TypeServer'
    BY <1>1, <2>1, <2>2 DEF TypeServer
  <2>6. TypeShown'
    BY <1>1, <2>1, <2>2 DEF TypeShown
  <2>7. TypeThread' /\ LatestServer'
    BY <1>1, <1>2, <2>1 DEF TypeThread, LatestServer
  <2>8. TypeQueue'
    BY <1>1, <2>3, <2>4, Nothing, QueueTyped
  <2>9. TypeRest'
    <3>1. act' \in Nat
      BY <1>1, <2>1 DEF TypeRest
    <3>2. QED
      BY <1>1, <1>2, <2>1, <2>2, <3>1 DEF TypeRest
  <2>10. TapsResumed'
    BY <1>1, <2>1, <2>3, <2>4, Nothing, TapsResumedStep
  <2>11. DialogPauses'
    BY <1>1, <2>1, <2>3, Nothing, DialogPausesStep
  <2>12. ResultComes'
    BY <2>2 DEF ResultComes
  <2>13. StaysForTap'
    BY <1>1, <1>2, <2>3, <2>4, Nothing, StaysForTapStep
  <2>14. OneTap'
    <3>1. NoTap(1, <<>>)
      BY <1>2, <2>1, <2>2, Nothing DEF NoTap
    <3>2. QED
      BY <1>1, <2>3, <2>4, <3>1, Nothing, OneTapStep
  <2>15. PortStored' /\ EndsOnlyFor'
    BY <1>1, <2>1 DEF PortStored, EndsOnlyFor
  <2>16. OutcomeShown'
    BY <1>2, <2>1, <2>2 DEF OutcomeShown, Told
  <2>17. QED
    BY <2>5, <2>6, <2>7, <2>8, <2>9, <2>10, <2>11, <2>12, <2>13, <2>14, <2>15, <2>16 DEF IInv
<1>5. QED
  BY <1>3, <1>4


\* The handler may read: unless the user left, its activity is on the screen.
LEMMA ValidButtonInv == IInv /\ ValidButton => IInv'
<1> SUFFICES ASSUME IInv, ValidButton PROVE IInv'
  OBVIOUS
<1>1. /\ TypeQueue /\ TypeRest /\ TypeServer /\ TypeShown /\ TypeThread /\ StaysForTap
      /\ OutcomeShown
  BY DEF IInv
<1>2. /\ queue # <<>> /\ Head(queue) = queue[1] /\ Is(1, "MESSAGE_VALID_NFCBUTTON")
      /\ 1 \in DOMAIN queue /\ phase # "down" /\ pc = "ui"
  BY <1>1, First DEF ValidButton
<1>3. CASE ~Current \/ phase # "resumed"
  <2>1. "left" \in risks
    BY <1>1, <1>2, <1>3 DEF StaysForTap, Current
  <2>2. Dies("left") /\ taps' = taps /\ prefs' = prefs
    BY <1>3 DEF ValidButton, Throws, Dies, disk
  <2>3. QED
    BY <2>1, <2>2, DiesInv
<1>4. CASE Current /\ phase = "resumed"
  <2>1. /\ queue' = Tail(queue)
        /\ \/ /\ intent.tech /\ pc' = "connect" /\ UNCHANGED <<Readingtext, outcome>>
           \/ /\ ~intent.tech /\ pc' = "ui"
              /\ Readingtext' = [Readingtext EXCEPT !.visible = TRUE]
              /\ outcome' = Ended(intent.card, "untold")
        /\ UNCHANGED <<disk, activity, fields, idimg, phase, process, system, tapped,
                       cause, risks>>
    BY <1>4 DEF ValidButton, isNFC
  <2>2. /\ UNCHANGED <<prefs, server, intent, act, system, cause, risks>>
        /\ UNCHANGED <<license, fields, idimg, connected, native, phase, tapped>>
    BY <2>1 DEF disk, activity, process
  <2>3. Moves(1, <<>>)
    BY <1>1, <1>2, <2>1, Takes
  <2>4. /\ phase' = PhaseNext(1) /\ queue[1].what \notin Showing /\ ~Is(1, "result")
    BY <1>2, <2>2 DEF PhaseNext, Is, Showing
  <2>5. /\ Cards' = Cards /\ phase' \in {"resumed", "paused"}
        /\ TypeQueue' /\ TypeRest'
        /\ TapsResumed' /\ DialogPauses' /\ ResultComes'
        /\ StaysForTap' /\ OneTap' /\ PortStored' /\ EndsOnlyFor'
    <3>1. NoTap(1, <<>>)
      BY <1>2, <2>1, <2>2, Nothing DEF NoTap
    <3>2. QED
      BY <1>2, <2>2, <2>3, <2>4, <3>1, Nothing, Orderly
  <2>6. TypeServer'
    BY <1>1, <2>2 DEF TypeServer
  <2>7. TypeShown'
    <3>1. Readingtext' \in [text : {"reading", "NFC_READCARD_FAIL", "READ_PHOTO_ERROR"},
                            visible : BOOLEAN]
      BY <1>1, <2>1 DEF TypeShown
    <3>2. outcome'.result \in Told \cup {"none", "untold"}
      BY <1>1, <2>1 DEF TypeShown, Ended
    <3>3. QED
      BY <1>1, <2>2, <2>5, <3>1, <3>2 DEF TypeShown
  <2>8. TypeThread'
    BY <1>1, <1>4, <2>1, <2>2 DEF TypeThread, TypeRest, Tapped
  <2>9. LatestServer'
    BY <2>1 DEF LatestServer
  <2>10. OutcomeShown'
    <3>1. CASE intent.tech
      <4>1. /\ UNCHANGED <<intent, act, tapped, outcome, fields, Readingtext, connected>>
            /\ pc' = "connect" /\ intent.tech
        BY <2>1, <2>2, <3>1
      <4>2. QED
        BY <1>1, <1>2, <2>3, <2>4, <4>1, Nothing, OutcomeKept
    <3>2. CASE ~intent.tech
      <4>1. /\ outcome'.card = intent.card /\ outcome'.result = "untold" /\ pc' = "ui"
        BY <2>1, <3>2 DEF Ended
      <4>2. QED
        BY <1>1, <2>2, <4>1 DEF OutcomeShown, Told
    <3>3. QED
      BY <3>1, <3>2
  <2>11. QED
    BY <2>5, <2>6, <2>7, <2>8, <2>9, <2>10 DEF IInv
<1>5. QED
  BY <1>3, <1>4

\* A message that shows something shows the outcome, or the one that does
\* comes after it.
LEMMA OutcomeTaken ==
  ASSUME TypeQueue, OutcomeShown, Moves(1, <<>>), 1 \in DOMAIN queue,
         queue[1].what \in Showing,
         UNCHANGED <<intent, act, tapped, outcome, connected, phase, pc>>,
         queue[1] = Msg("READ_IDCARD_SUCCESS", intent, act) =>
           fields' = tapped /\ ~Readingtext'.visible,
         queue[1] = Msg("NFC_READCARD_FAIL", intent, act) =>
           Readingtext' = Line("NFC_READCARD_FAIL", TRUE)
  PROVE  OutcomeShown'
<1>1. \A m : ShownLast(m) => ShownLast(m)' \/ (queue[1] = m /\ NothingToShow')
  BY Nothing, ShownStep
<1>2. ~NothingToShow
  BY DEF NothingToShow
<1>3. PICK a, b : /\ a = Msg("READ_IDCARD_SUCCESS", intent, act)
                  /\ b = Msg("NFC_READCARD_FAIL", intent, act)
  OBVIOUS
<1>4. /\ a = Msg("READ_IDCARD_SUCCESS", intent, act)'
      /\ b = Msg("NFC_READCARD_FAIL", intent, act)'
  BY <1>3 DEF Msg
<1>5. /\ ShownLast(a) => ShownLast(a)' \/ (queue[1] = a /\ NothingToShow')
      /\ ShownLast(b) => ShownLast(b)' \/ (queue[1] = b /\ NothingToShow')
  BY <1>1
<1>6. CASE phase = "down"
  BY <1>6 DEF OutcomeShown
<1>7. CASE phase # "down"
  <2>1. outcome.result = "READ_IDCARD_SUCCESS" =>
          \/ ShownLast(a)'
          \/ NothingToShow' /\ fields' = tapped /\ ~Readingtext'.visible
    BY <1>2, <1>3, <1>5, <1>7 DEF OutcomeShown
  <2>2. outcome.result = "NFC_READCARD_FAIL" =>
          \/ ShownLast(b)'
          \/ NothingToShow' /\ Readingtext' = Line("NFC_READCARD_FAIL", TRUE)
    BY <1>2, <1>3, <1>5, <1>7 DEF OutcomeShown
  <2>3. /\ ShownLast(a)' => ShownLast(Msg("READ_IDCARD_SUCCESS", intent, act))'
        /\ ShownLast(b)' => ShownLast(Msg("NFC_READCARD_FAIL", intent, act))'
    BY <1>4 DEF ShownLast
  <2>4. QED
    BY <1>7, <2>1, <2>2, <2>3, Zenon DEF OutcomeShown, Line
<1>8. QED
  BY <1>6, <1>7

LEMMA ShowsInv == IInv /\ (CardSuccess \/ PhotoSuccess \/ ShowError) => IInv'
<1> SUFFICES ASSUME IInv, CardSuccess \/ PhotoSuccess \/ ShowError PROVE IInv'
  OBVIOUS
<1>1. /\ TypeQueue /\ TypeRest /\ TypeServer /\ TypeShown /\ TypeThread /\ OutcomeShown
      /\ LatestServer
  BY DEF IInv
<1>2. PICK what \in Showing :
        /\ Shows(what)
        /\ \/ what = "READ_IDCARD_SUCCESS" /\ CardSuccess
           \/ what = "READ_PHOTO_SUCCESS" /\ PhotoSuccess
           \/ /\ what \in {"NFC_READCARD_FAIL", "READ_PHOTO_ERROR"}
              /\ UNCHANGED <<fields, idimg>>
              /\ Readingtext' = IF Current THEN Line(what, TRUE) ELSE Readingtext
  BY DEF CardSuccess, PhotoSuccess, ShowError, Showing
<1>3. /\ queue # <<>> /\ Head(queue) = queue[1] /\ Is(1, what)
      /\ 1 \in DOMAIN queue /\ queue[1] \in Messages /\ Tapped(queue[1].intent)
      /\ phase # "down" /\ pc = "ui"
  BY <1>1, <1>2, First DEF Shows
<1>4. /\ queue' = Tail(queue)
      /\ UNCHANGED <<disk, activity, phase, pc, process, system, history>>
  BY <1>2 DEF Shows
<1>5. /\ UNCHANGED <<prefs, server, intent, act, system, cause, risks>>
      /\ UNCHANGED <<license, connected, native, phase, pc, tapped, outcome>>
  BY <1>4 DEF disk, activity, process, history, reads
<1>6. Moves(1, <<>>)
  BY <1>1, <1>3, <1>4, Takes
<1>7. phase' = PhaseNext(1) /\ queue[1].what = what /\ ~Is(1, "result")
  BY <1>3, <1>5 DEF PhaseNext, Is, Showing
<1>8. /\ Cards' = Cards /\ phase' \in {"resumed", "paused"}
      /\ TypeQueue' /\ TypeRest'
      /\ TapsResumed' /\ DialogPauses' /\ ResultComes'
      /\ StaysForTap' /\ OneTap' /\ PortStored' /\ EndsOnlyFor'
  <2>1. NoTap(1, <<>>)
    BY <1>5, Nothing DEF NoTap
  <2>2. QED
    BY <1>3, <1>5, <1>6, <1>7, <2>1, Nothing, Orderly
<1>9. TypeServer'
  BY <1>1, <1>5 DEF TypeServer
<1>10. TypeShown'
  <2>1. Head(queue).intent.card \in Cards
    BY <1>3 DEF Tapped
  <2>2. fields' \in Cards /\ idimg' \in Cards
    BY <1>1, <1>2, <2>1 DEF CardSuccess, PhotoSuccess, TypeShown
  <2>3. Readingtext' \in [text : {"reading", "NFC_READCARD_FAIL", "READ_PHOTO_ERROR"},
                          visible : BOOLEAN]
    <3>1. CASE what \in {"NFC_READCARD_FAIL", "READ_PHOTO_ERROR"}
      <4>1. Readingtext' = Line(what, TRUE) \/ Readingtext' = Readingtext
        BY <1>2, <3>1
      <4>2. Line(what, TRUE) \in
              [text : {"reading", "NFC_READCARD_FAIL", "READ_PHOTO_ERROR"},
               visible : BOOLEAN]
        BY <3>1 DEF Line
      <4>3. QED
        BY <1>1, <4>1, <4>2 DEF TypeShown
    <3>2. CASE Readingtext' = [Readingtext EXCEPT !.visible = @ /\ ~Current]
      <4>1. CASE Current
        <5>1. Readingtext' = [Readingtext EXCEPT !.visible = FALSE]
          BY <3>2, <4>1
        <5>2. QED
          BY <1>1, <5>1 DEF TypeShown
      <4>2. CASE ~Current
        <5>1. Readingtext' = Readingtext
          BY <1>1, <3>2, <4>2 DEF TypeShown
        <5>2. QED
          BY <1>1, <5>1 DEF TypeShown
      <4>3. QED
        BY <4>1, <4>2
    <3>3. QED
      BY <1>2, <3>1, <3>2 DEF CardSuccess, PhotoSuccess
  <2>4. QED
    BY <1>1, <1>5, <1>8, <2>2, <2>3 DEF TypeShown
<1>11. TypeThread' /\ LatestServer'
  BY <1>3, <1>5, <1>8 DEF TypeThread, LatestServer
<1>12. OutcomeShown'
  <2>1. queue[1] = Msg("READ_IDCARD_SUCCESS", intent, act) =>
          fields' = tapped /\ ~Readingtext'.visible
    <3>1. SUFFICES ASSUME queue[1] = Msg("READ_IDCARD_SUCCESS", intent, act)
                   PROVE  fields' = tapped /\ ~Readingtext'.visible
      OBVIOUS
    <3>2. /\ queue[1].what = "READ_IDCARD_SUCCESS" /\ queue[1].intent = intent
          /\ queue[1].act = act
      BY <3>1 DEF Msg
    <3>3. CardSuccess /\ Current
      BY <1>2, <1>3, <1>7, <3>2 DEF Current
    <3>4. /\ fields' = intent.card
          /\ Readingtext' = [Readingtext EXCEPT !.visible = @ /\ ~Current]
      BY <1>3, <3>2, <3>3 DEF CardSuccess
    <3>5. ~Readingtext'.visible
      BY <1>1, <3>3, <3>4 DEF TypeShown
    <3>6. QED
      BY <1>1, <3>4, <3>5 DEF OutcomeShown
  <2>2. queue[1] = Msg("NFC_READCARD_FAIL", intent, act) =>
          Readingtext' = Line("NFC_READCARD_FAIL", TRUE)
    <3>1. SUFFICES ASSUME queue[1] = Msg("NFC_READCARD_FAIL", intent, act)
                   PROVE  Readingtext' = Line("NFC_READCARD_FAIL", TRUE)
      OBVIOUS
    <3>2. queue[1].what = "NFC_READCARD_FAIL" /\ queue[1].act = act
      BY <3>1 DEF Msg
    <3>3. QED
      BY <1>2, <1>3, <1>7, <3>2 DEF Current
  <2>3. UNCHANGED <<intent, act, tapped, outcome, connected, phase, pc>>
    BY <1>5
  <2>4. queue[1].what \in Showing
    BY <1>7
  <2>5. QED
    BY <1>1, <1>3, <1>6, <2>1, <2>2, <2>3, <2>4, OutcomeTaken
<1>13. QED
  BY <1>8, <1>9, <1>10, <1>11, <1>12 DEF IInv


-----------------------------------------------------------------------------
(* The read                                                                *)

\* A step of the read: the activity is resumed and knows the stored server.
LEMMA Reading ==
  ASSUME IInv, pc # "ui"
  PROVE  /\ phase = "resumed" /\ phase # "down" /\ intent.tech /\ intent.card # 0
         /\ intent.card \in Cards /\ server = prefs
         /\ PhaseNext(0) = phase
         /\ \A what \in Whats : Msg(what, intent, act) \in Messages
<1>1. TypeThread /\ TypeRest /\ ResultComes
  BY DEF IInv
<1>2. /\ phase = "resumed" /\ phase # "down" /\ intent.tech /\ intent.card # 0
      /\ intent.card \in Cards
  BY <1>1 DEF TypeThread, TypeRest, Tapped
<1>3. server = prefs
  BY <1>1, <1>2 DEF ResultComes
<1>4. \A what \in Whats : Msg(what, intent, act) \in Messages
  BY <1>1 DEF TypeRest, Msg, Messages
<1>5. QED
  BY <1>2, <1>3, <1>4 DEF PhaseNext

\* What a read in which no result is known yet leaves true of the outcome.
LEMMA NoOutcomeYet ==
  ASSUME OutcomeShown, pc \notin {"ui", "connect"}, phase # "down",
         UNCHANGED <<intent, tapped, outcome, connected>>
  PROVE  OutcomeShown'
<1>1. outcome.result \notin Told
  BY DEF OutcomeShown
<1>2. QED
  BY <1>1 DEF OutcomeShown, Told

\* The server is set as it is stored, as far as its port fits in a short.
LEMMA ServerSet ==
  ASSUME IInv, pc # "ui", SetNFCServer(server), UNCHANGED prefs
  PROVE  /\ native'.port \in Ports
         /\ native'.ip = prefs'.ip
         /\ prefs'.port \in Ports \ {0} => native'.port = prefs'.port
<1>1. TypeServer /\ server = prefs
  BY Reading DEF IInv
<1>2. /\ native'.ip = server.ip
      /\ native'.port = IF server.port % 65536 > 0 THEN server.port % 65536 ELSE native.port
  BY DEF SetNFCServer, Address
<1>3. server.port \in Nat
  BY <1>1, ServersAssumption DEF TypeServer
<1>4. \A n \in Nat : n % 65536 \in Ports /\ (n \in Ports \ {0} => n % 65536 = n /\ n > 0)
  BY DEF Ports
<1>5. native'.port \in Ports
  BY <1>1, <1>2, <1>3, <1>4 DEF TypeServer
<1>6. QED
  BY <1>1, <1>2, <1>3, <1>4, <1>5

LEMMA PhotoMissingInv == IInv /\ PhotoMissing => IInv'
<1> SUFFICES ASSUME IInv, PhotoMissing PROVE IInv'
  OBVIOUS
<1>1. "unread" \in Faults /\ Throws("unread")
  BY DEF PhotoMissing
<1>2. QED
  BY <1>1, ThrowsInv

LEMMA ConnectInv == IInv /\ Connect => IInv'
<1> SUFFICES ASSUME IInv, Connect PROVE IInv'
  OBVIOUS
<1>1. /\ TypeQueue /\ TypeRest /\ TypeServer /\ TypeShown /\ TypeThread /\ OneTap
      /\ OutcomeShown
  BY DEF IInv
<1>2. pc = "connect" /\ pc # "ui"
  BY DEF Connect
<1>3. /\ phase = "resumed" /\ phase # "down" /\ intent.tech /\ intent.card # 0
      /\ intent.card \in Cards /\ PhaseNext(0) = phase
  BY <1>2, Reading
<1>4. CASE intent.card \in connected /\ Throws("taps")
  <2>1. "taps" \in risks
    BY <1>1, <1>2, <1>4 DEF OneTap
  <2>2. Dies("taps") /\ taps' = taps /\ prefs' = prefs
    BY <1>4 DEF Throws, Dies, disk
  <2>3. QED
    BY <2>1, <2>2, DiesInv
<1>5. CASE /\ intent.card \notin connected
           /\ pc' = "read" /\ connected' = connected \cup {intent.card}
           /\ SetNFCServer(server)
           /\ UNCHANGED <<disk, activity, views, phase, queue, system, history>>
  <2>1. /\ UNCHANGED <<prefs, server, intent, act, system, cause, risks>>
        /\ UNCHANGED <<license, fields, idimg, Readingtext, phase, queue, tapped, outcome>>
    BY <1>5 DEF disk, activity, views, history, reads
  <2>2. Moves(0, <<>>)
    BY <1>1, <2>1, Stays
  <2>3. /\ Cards' = Cards /\ phase' \in {"resumed", "paused"}
        /\ TypeQueue' /\ TypeRest'
        /\ TapsResumed' /\ DialogPauses' /\ ResultComes'
        /\ StaysForTap' /\ OneTap' /\ PortStored' /\ EndsOnlyFor'
    <3>1. NoTap(0, <<>>)
      BY <1>2, <1>5, <2>1, Nothing DEF NoTap
    <3>2. phase' = PhaseNext(0)
      BY <1>3, <2>1
    <3>3. QED
      BY <1>3, <2>1, <2>2, <3>1, <3>2, Nothing, Orderly
  <2>4. TypeServer'
    BY <1>1, <1>2, <1>5, <2>1, ServerSet DEF TypeServer
  <2>5. TypeShown'
    BY <1>1, <1>3, <1>5, <2>1, <2>3 DEF TypeShown
  <2>6. TypeThread'
    BY <1>3, <1>5, <2>1 DEF TypeThread
  <2>7. LatestServer'
    BY <1>2, <1>5, <2>1, ServerSet DEF LatestServer
  <2>8. OutcomeShown'
    <3>1. outcome.result \notin Told
      BY <1>1, <1>3, <1>5 DEF OutcomeShown
    <3>2. QED
      BY <1>1, <1>5, <2>1, <3>1 DEF OutcomeShown, Told
  <2>9. QED
    BY <2>3, <2>4, <2>5, <2>6, <2>7, <2>8 DEF IInv
<1>6. CASE /\ pc' = "ui"
           /\ outcome' = IF outcome.result \in Told THEN outcome
                                                    ELSE Ended(intent.card, "untold")
           /\ UNCHANGED <<disk, activity, views, phase, queue, process, system,
                          tapped, cause, risks>>
  <2>1. /\ UNCHANGED <<prefs, server, intent, act, system, cause, risks>>
        /\ UNCHANGED <<license, fields, idimg, Readingtext, phase, queue, connected, native,
                       tapped>>
    BY <1>6 DEF disk, activity, views, process
  <2>2. Moves(0, <<>>)
    BY <1>1, <2>1, Stays
  <2>3. /\ Cards' = Cards /\ phase' \in {"resumed", "paused"}
        /\ TypeQueue' /\ TypeRest'
        /\ TapsResumed' /\ DialogPauses' /\ ResultComes'
        /\ StaysForTap' /\ OneTap' /\ PortStored' /\ EndsOnlyFor'
    <3>1. NoTap(0, <<>>)
      BY <1>2, <1>6, <2>1, Nothing DEF NoTap
    <3>2. phase' = PhaseNext(0)
      BY <1>3, <2>1
    <3>3. QED
      BY <1>3, <2>1, <2>2, <3>1, <3>2, Nothing, Orderly
  <2>4. TypeServer'
    BY <1>1, <2>1 DEF TypeServer
  <2>5. TypeShown'
    <3>1. outcome'.result \in Told \cup {"none", "untold"}
      BY <1>1, <1>6 DEF TypeShown, Ended
    <3>2. QED
      BY <1>1, <2>1, <2>3, <3>1 DEF TypeShown
  <2>6. TypeThread' /\ LatestServer'
    BY <1>6, <2>3 DEF TypeThread, LatestServer
  <2>7. OutcomeShown'
    <3>1. CASE outcome.result \in Told
      <4>1. UNCHANGED <<intent, act, tapped, outcome, fields, Readingtext, connected>>
        BY <1>6, <2>1, <3>1
      <4>2. QED
        BY <1>1, <1>3, <1>6, <2>2, <4>1, Nothing, OutcomeKept
    <3>2. CASE outcome.result \notin Told
      <4>1. outcome'.card = intent.card /\ outcome'.result = "untold"
        BY <1>6, <3>2 DEF Ended
      <4>2. QED
        BY <1>1, <1>6, <2>1, <4>1 DEF OutcomeShown, Told
    <3>3. QED
      BY <3>1, <3>2
  <2>8. QED
    BY <2>3, <2>4, <2>5, <2>6, <2>7 DEF IInv
<1>7. CASE "throws" \in Faults /\ Throws("throws")
  BY <1>7, ThrowsInv
<1>8. QED
  BY <1>4, <1>5, <1>6, <1>7 DEF Connect


\* A step after the connection and before the end of the read.
LEMMA ReadStepInv ==
  ASSUME IInv, pc \notin {"ui", "connect"},
         NEW new \in Seq(Messages), Moves(0, new), Len(new) <= 1,
         \A k \in 1..Len(new) : new[k].what \in Showing /\ Tapped(new[k].intent),
         UNCHANGED <<prefs, activity, views, native, connected, phase, system, tapped,
                     cause, risks>>,
         pc' \in {"ui", "copy", "copying", "photo", "finish"},
         license' \in {"absent", "part", "whole"},
         outcome'.result \in Told \cup {"none", "untold"}, OutcomeShown'
  PROVE  IInv'
<1>1. TypeServer /\ TypeShown /\ TypeThread
  BY DEF IInv
<1>2. /\ phase = "resumed" /\ phase # "down" /\ intent.tech /\ intent.card # 0
      /\ PhaseNext(0) = phase
  BY Reading
<1>3. /\ UNCHANGED <<prefs, server, intent, act, system, cause, risks>>
      /\ UNCHANGED <<fields, idimg, Readingtext, phase, connected, native, tapped>>
  BY DEF activity, views
<1>4. /\ Cards' = Cards /\ phase' \in {"resumed", "paused"}
      /\ TypeQueue' /\ TypeRest'
      /\ TapsResumed' /\ DialogPauses' /\ ResultComes'
      /\ StaysForTap' /\ OneTap' /\ PortStored' /\ EndsOnlyFor'
  <2>1. NoTap(0, new)
    <3>1. \A k \in 1..Len(new) : new[k].what \notin Tapping
      BY DEF Showing, Tapping
    <3>2. UNCHANGED <<connected, intent>> /\ pc' # "connect" /\ (pc = "ui" => pc' = "ui")
      BY <1>3
    <3>3. QED
      BY <3>1, <3>2 DEF NoTap
  <2>2. phase' = PhaseNext(0)
    BY <1>2, <1>3
  <2>3. QED
    BY <1>2, <1>3, <2>1, <2>2, Nothing, Orderly
<1>5. TypeServer'
  BY <1>1, <1>3 DEF TypeServer
<1>6. TypeShown'
  BY <1>1, <1>3, <1>4 DEF TypeShown
<1>7. TypeThread'
  BY <1>2, <1>3 DEF TypeThread
<1>8. LatestServer'
  BY DEF LatestServer
<1>9. QED
  BY <1>4, <1>5, <1>6, <1>7, <1>8 DEF IInv

\* A step that sends a message, alone.
LEMMA Sends ==
  ASSUME IInv, pc \notin {"ui", "connect"}, NEW what \in Showing, Send(what)
  PROVE  \E m \in Messages :
           /\ m = Msg(what, intent, act)
           /\ Moves(0, <<m>>) /\ <<m>> \in Seq(Messages) /\ Len(<<m>>) <= 1
           /\ \A k \in 1..Len(<<m>>) : <<m>>[k].what \in Showing /\ Tapped(<<m>>[k].intent)
<1>1. TypeQueue /\ TypeRest
  BY DEF IInv
<1>2. PICK m \in Messages : m = Msg(what, intent, act)
  BY Reading DEF Whats
<1>3. m.what = what /\ m.intent = intent /\ Tapped(m.intent)
  BY <1>1, <1>2 DEF Msg, TypeRest
<1>4. /\ <<m>> \in Seq(Messages) /\ Len(<<m>>) = 1 /\ Len(<<m>>) <= 1
      /\ \A k \in 1..Len(<<m>>) : <<m>>[k] = m
  BY Single
<1>5. Moves(0, <<m>>)
  BY <1>1, <1>2, <1>4, Posts DEF Send
<1>6. QED
  BY <1>2, <1>3, <1>4, <1>5

\* The end of a read: the last message says what the outcome is.
LEMMA OutcomeSent ==
  ASSUME IInv, pc \notin {"ui", "connect"}, NEW what \in Told, Send(what),
         UNCHANGED <<intent, act, tapped, connected>>, pc' = "ui",
         outcome' = Ended(intent.card, what)
  PROVE  OutcomeShown'
<1>1. TypeQueue /\ OutcomeShown
  BY DEF IInv
<1>2. what \in Showing
  BY DEF Told, Showing
<1>3. PICK m \in Messages : m = Msg(what, intent, act) /\ Moves(0, <<m>>)
  BY <1>2, Sends
<1>4. ShownLast(m)' /\ m = Msg(what, intent, act)'
  BY <1>1, <1>3, ShownSent DEF Msg
<1>5. /\ outcome'.card = intent.card /\ outcome'.result = what
      /\ intent.tech /\ intent.card \in connected /\ intent.card = tapped
  BY <1>1, Reading DEF OutcomeShown, Ended
<1>6. ShownLast(m)' => ShownLast(Msg(what, intent, act))'
  BY <1>4 DEF ShownLast
<1>7. CASE what = "READ_IDCARD_SUCCESS"
  BY <1>4, <1>5, <1>6, <1>7 DEF OutcomeShown
<1>8. CASE what = "NFC_READCARD_FAIL"
  BY <1>4, <1>5, <1>6, <1>8 DEF OutcomeShown
<1>9. QED
  BY <1>7, <1>8 DEF Told

LEMMA ReadIdCardInv == IInv /\ readIdCard => IInv'
<1> SUFFICES ASSUME IInv, readIdCard PROVE IInv'
  OBVIOUS
<1>0. CASE "throws" \in Faults /\ Throws("throws")
  BY <1>0, ThrowsInv
<1>a. SUFFICES ASSUME Step("read"), UNCHANGED <<license, phase, process>>,
                      ReadFails \/ (pc' = "copy" /\ UNCHANGED <<queue, outcome>>)
               PROVE  IInv'
  BY <1>0 DEF readIdCard
<1>1. TypeQueue /\ TypeServer /\ TypeShown /\ OutcomeShown
  BY DEF IInv
<1>2. /\ pc = "read" /\ pc \notin {"ui", "connect"} /\ phase # "down"
      /\ UNCHANGED <<prefs, activity, views, native, connected, phase, system, tapped,
                     cause, risks, license>>
  BY <1>a, Reading DEF Step, process
<1>3. UNCHANGED <<intent, act>> /\ license' \in {"absent", "part", "whole"}
  BY <1>1, <1>2 DEF activity, TypeServer
<1>4. CASE ReadFails
  <2>1. /\ Send("NFC_READCARD_FAIL") /\ pc' = "ui"
        /\ outcome' = Ended(intent.card, "NFC_READCARD_FAIL")
        /\ "NFC_READCARD_FAIL" \in Told /\ "NFC_READCARD_FAIL" \in Showing
    BY <1>4 DEF ReadFails, Told, Showing
  <2>2. outcome'.result \in Told \cup {"none", "untold"}
    BY <2>1 DEF Ended
  <2>3. OutcomeShown'
    BY <1>2, <1>3, <2>1, OutcomeSent
  <2>4. QED
    BY <1>2, <1>3, <2>1, <2>2, <2>3, Sends, ReadStepInv
<1>5. CASE pc' = "copy" /\ UNCHANGED <<queue, outcome>>
  <2>1. Moves(0, <<>>)
    BY <1>1, <1>5, Stays
  <2>2. outcome'.result \in Told \cup {"none", "untold"}
    BY <1>1, <1>5 DEF TypeShown
  <2>3. OutcomeShown'
    BY <1>1, <1>2, <1>3, <1>5, NoOutcomeYet
  <2>4. QED
    BY <1>2, <1>3, <1>5, <2>1, <2>2, <2>3, Nothing, ReadStepInv
<1>6. QED
  BY <1>a, <1>4, <1>5

LEMMA CopyInv == IInv /\ (CopyLicense \/ CopiedLicense) => IInv'
<1> SUFFICES ASSUME IInv, CopyLicense \/ CopiedLicense PROVE IInv'
  OBVIOUS
<1>1. TypeQueue /\ TypeServer /\ TypeShown /\ OutcomeShown
  BY DEF IInv
<1>2. /\ pc \notin {"ui", "connect"} /\ pc # "ui" /\ pc' \in {"copying", "photo"}
      /\ license' \in {"absent", "part", "whole"}
      /\ UNCHANGED <<prefs, activity, views, native, connected, phase, queue, system, tapped,
                     outcome, cause, risks>>
  BY <1>1 DEF CopyLicense, CopiedLicense, Step, process, TypeServer
<1>3. UNCHANGED <<intent, act>> /\ phase # "down"
  BY <1>2, Reading DEF activity
<1>4. Moves(0, <<>>)
  BY <1>1, <1>2, Stays
<1>5. outcome'.result \in Told \cup {"none", "untold"}
  BY <1>1, <1>2 DEF TypeShown
<1>6. OutcomeShown'
  BY <1>1, <1>2, <1>3, NoOutcomeYet
<1>7. QED
  BY <1>2, <1>4, <1>5, <1>6, Nothing, ReadStepInv

LEMMA DecodePhotoInv == IInv /\ DecodePhoto => IInv'
<1> SUFFICES ASSUME IInv, DecodePhoto PROVE IInv'
  OBVIOUS
<1>1. TypeServer /\ TypeShown /\ OutcomeShown
  BY DEF IInv
<1>2. /\ pc = "photo" /\ pc \notin {"ui", "connect"} /\ pc # "ui" /\ pc' = "finish"
      /\ UNCHANGED <<prefs, license, activity, views, native, connected, phase, system,
                     tapped, outcome, cause, risks>>
  BY DEF DecodePhoto, Step, process
<1>3. UNCHANGED <<intent, act>> /\ phase # "down" /\ license' \in {"absent", "part", "whole"}
  BY <1>1, <1>2, Reading DEF activity, TypeServer
<1>4. PICK what \in Showing : Send(what)
  BY DEF DecodePhoto, Showing
<1>5. outcome'.result \in Told \cup {"none", "untold"}
  BY <1>1, <1>2 DEF TypeShown
<1>6. OutcomeShown'
  BY <1>1, <1>2, <1>3, NoOutcomeYet
<1>7. QED
  BY <1>2, <1>3, <1>4, <1>5, <1>6, Sends, ReadStepInv

LEMMA FinishInv == IInv /\ Finish => IInv'
<1> SUFFICES ASSUME IInv, Finish PROVE IInv'
  OBVIOUS
<1>1. TypeServer
  BY DEF IInv
<1>2. /\ pc = "finish" /\ pc \notin {"ui", "connect"} /\ pc' = "ui"
      /\ Send("READ_IDCARD_SUCCESS") /\ outcome' = Ended(intent.card, "READ_IDCARD_SUCCESS")
      /\ UNCHANGED <<prefs, license, activity, views, native, connected, phase, system,
                     tapped, cause, risks>>
  BY DEF Finish, Step, process
<1>3. /\ UNCHANGED <<intent, act>> /\ license' \in {"absent", "part", "whole"}
      /\ "READ_IDCARD_SUCCESS" \in Told /\ "READ_IDCARD_SUCCESS" \in Showing
  BY <1>1, <1>2 DEF activity, TypeServer, Told, Showing
<1>4. outcome'.result \in Told \cup {"none", "untold"}
  BY <1>2, <1>3 DEF Ended
<1>5. OutcomeShown'
  BY <1>2, <1>3, OutcomeSent
<1>6. QED
  BY <1>2, <1>3, <1>4, <1>5, Sends, ReadStepInv

-----------------------------------------------------------------------------
(* The theorems                                                            *)

LEMMA StutterInv == IInv /\ UNCHANGED vars => IInv'
<1> SUFFICES ASSUME IInv, UNCHANGED vars PROVE IInv'
  OBVIOUS
<1>1. UNCHANGED <<prefs, license, server, intent, act, fields, idimg, Readingtext, phase, pc,
                  queue, connected, native, top, dialog, tapped, outcome, cause, risks, taps>>
  BY DEF vars, disk, activity, views, process, system, history, reads
<1>2. Cards' = Cards
  BY <1>1 DEF Cards
<1>3. TypeServer' /\ TypeShown' /\ TypeThread'
  BY <1>1, <1>2 DEF IInv, TypeServer, TypeShown, TypeThread
<1>4. TypeQueue' /\ TypeRest'
  BY <1>1, <1>2 DEF IInv, TypeQueue, TypeRest, Tapped
<1>5. TapsResumed' /\ DialogPauses' /\ ResultComes'
  <2>1. TapsResumed /\ DialogPauses /\ ResultComes
    BY DEF IInv
  <2>2. TapsResumed'
    BY <1>1, <2>1 DEF TapsResumed, ResumedAt, Is
  <2>3. DialogPauses' /\ ResultComes'
    BY <1>1, <2>1 DEF DialogPauses, ResultComes, Is
  <2>4. QED
    BY <2>2, <2>3
<1>6. LatestServer' /\ PortStored' /\ EndsOnlyFor'
  BY <1>1 DEF IInv, LatestServer, PortStored, EndsOnlyFor
<1>7. StaysForTap' /\ OneTap'
  BY <1>1, Zenon DEF IInv, StaysForTap, OneTap, Is
<1>8. OutcomeShown'
  <2>1. TypeQueue /\ OutcomeShown
    BY DEF IInv
  <2>2. CASE phase = "down"
    BY <1>1, <2>1, <2>2 DEF OutcomeShown
  <2>3. CASE phase # "down"
    <3>1. Moves(0, <<>>)
      BY <1>1, <2>1, Stays
    <3>2. pc' = pc /\ UNCHANGED <<intent, act, tapped, outcome, fields, Readingtext, connected>>
      BY <1>1
    <3>3. QED
      BY <2>1, <2>3, <3>1, <3>2, Nothing, OutcomeKept
  <2>4. QED
    BY <2>2, <2>3
<1>9. QED
  BY <1>3, <1>4, <1>5, <1>6, <1>7, <1>8 DEF IInv

LEMMA NextInv == IInv /\ [Next]_vars => IInv'
BY TapInv, LeavesInv, CloseSettingsInv, KillInv, LaunchInv, NewIntentInv, PhaseInv,
   ActivityResultInv, RelaunchInv, ValidButtonInv, ShowsInv, PhotoMissingInv, ConnectInv,
   ReadIdCardInv,
   CopyInv, DecodePhotoInv, FinishInv, StutterInv
   DEF Next, UIThread

LEMMA Invariance == Spec => []IInv
BY InitInv, NextInv, PTL DEF Spec

\* The variables have their types, and a read runs only for a card that is
\* there, in the activity that is resumed.
THEOREM TypeCorrect == Spec => []TypeOK
<1>1. IInv => TypeOK
  BY DEF IInv, TypeServer, TypeShown, TypeThread, TypeOK
<1>2. QED
  BY <1>1, Invariance, PTL

\* However many taps, results, turns and visits to the settings overtake each
\* other: when the queue is empty, the result of the latest tap is shown.
THEOREM ShowsLatest == Spec => []LatestShown
<1>1. IInv => LatestShown
  <2> SUFFICES ASSUME IInv, Settled PROVE LatestShown
    BY DEF LatestShown
  <2>1. phase # "down" /\ queue = <<>> /\ OutcomeShown
    BY DEF Settled, IInv
  <2>2. \A m : ~ShownLast(m)
    BY <2>1 DEF ShownLast
  <2>3. QED
    BY <2>1, <2>2, Zenon DEF OutcomeShown, LatestShown
<1>2. QED
  BY <1>1, Invariance, PTL

\* A read goes to the server that the dialog stored last: the result of the
\* dialog overtakes every resume.
THEOREM ReadsFromStored == Spec => []LatestServer
<1>1. IInv => LatestServer
  BY DEF IInv
<1>2. QED
  BY <1>1, Invariance, PTL

\* Nothing but a second tap too early, leaving with a tap on its way, a port
\* that is no number, an exception of the tag other than an IOException, or a
\* decoded photo that cannot be read back ends the application.
THEOREM EndsForCause == Spec => []EndsOnlyFor
<1>1. IInv => EndsOnlyFor
  BY DEF IInv
<1>2. QED
  BY <1>1, Invariance, PTL
=============================================================================
