---------------------------- MODULE CardReadSpec ----------------------------
(***************************************************************************)
(* What a card read promises to its caller, whatever reader performs it:   *)
(* a read makes at most Budget attempts, holds a connection to the card    *)
(* server only while an attempt runs, and answers either code 0 together   *)
(* with the card's data or a documented error code and no data.            *)
(***************************************************************************)
EXTENDS Integers

CONSTANTS
  Budget,      \* attempts a single read may make, at least one
  ErrorCodes,  \* the error codes of libnetcardreader.h, zero excluded
  NoData       \* the value of "nothing was read"

VARIABLES
  phase,   \* "idle", "reading", or the outcome not yet returned: "ok", "failed"
  budget,  \* attempts left to the current read
  held,    \* is a connection to the card server open?
  code,    \* what the last read returned
  data     \* what the last read delivered

vars == <<phase, budget, held, code, data>>

Init ==
  /\ phase  = "idle"
  /\ budget = Budget
  /\ held   = FALSE
  /\ code   = 0
  /\ data   = NoData

Begin ==  \* a call of NFCCardReader; the configuration may make it fail at once
  /\ phase  = "idle"
  /\ phase' \in {"reading", "failed"}
  /\ budget' = Budget
  /\ data'   = NoData
  /\ UNCHANGED <<held, code>>

Attempt ==  \* an attempt gets its connection
  /\ phase = "reading"
  /\ ~held
  /\ budget > 0
  /\ held' = TRUE
  /\ UNCHANGED <<phase, budget, code, data>>

TryAgain ==  \* an attempt fails and another one is left
  /\ phase = "reading"
  /\ held
  /\ budget > 1
  /\ held'   = FALSE
  /\ budget' = budget - 1
  /\ UNCHANGED <<phase, code, data>>

GiveUp ==  \* the read fails; nothing stays open
  /\ phase  = "reading"
  /\ phase' = "failed"
  /\ held'  = FALSE
  /\ budget' \in {budget, budget - 1}
  /\ UNCHANGED <<code, data>>

Succeed ==  \* only an attempt with a connection can succeed
  /\ phase = "reading"
  /\ held
  /\ phase' = "ok"
  /\ held'  = FALSE
  /\ UNCHANGED <<budget, code, data>>

Return ==
  /\ \/ /\ phase = "ok"
        /\ code' = 0
        /\ data' # NoData
     \/ /\ phase = "failed"
        /\ code' \in ErrorCodes
        /\ data' = NoData
  /\ phase' = "idle"
  /\ UNCHANGED <<budget, held>>

Next == Begin \/ Attempt \/ TryAgain \/ GiveUp \/ Succeed \/ Return

Spec == Init /\ [][Next]_vars
=============================================================================
