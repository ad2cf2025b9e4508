---------------------------- MODULE FileReadSpec ----------------------------
(***************************************************************************)
(* What NFC_CMD_SELRDFILE promises to its caller, whichever way the card   *)
(* is reached: the file arrives in pieces, all of them from one file of    *)
(* the card, and the caller sees either all the bytes it asked for or an   *)
(* error and none.                                                         *)
(*                                                                         *)
(* It is not promised that the file is the one asked for: a refused        *)
(* selection leaves the file selected before, and that one is read.        *)
(***************************************************************************)
EXTENDS Integers

CONSTANTS
  Lens,   \* the lengths that may be asked for
  Files   \* the files of a card, "none" excluded

VARIABLES
  phase,  \* "idle", "reading" or "whole"
  want,   \* bytes asked for
  have,   \* bytes that have been read
  src     \* the file they are from

vars == <<phase, want, have, src>>

Nothing == phase' = "idle" /\ want' = 0 /\ have' = 0 /\ src' = "none"

Init == phase = "idle" /\ want = 0 /\ have = 0 /\ src = "none"

Begin ==
  /\ phase # "reading"
  /\ phase' = "reading" /\ want' \in Lens /\ have' = 0 /\ src' = "none"

Fetch ==  \* one more piece, of the file that the others are from
  /\ phase = "reading"
  /\ have' \in (have + 1)..want
  /\ src' \in IF src = "none" THEN Files ELSE {src}
  /\ phase' = IF have' = want THEN "whole" ELSE "reading"
  /\ UNCHANGED want

Fail == phase = "reading" /\ Nothing

Forget == phase = "whole" /\ Nothing  \* the caller is done with the bytes

Next == Begin \/ Fetch \/ Fail \/ Forget

Spec == Init /\ [][Next]_vars
=============================================================================
