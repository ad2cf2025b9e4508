--------------------------- MODULE MCCardCommand ---------------------------
(***************************************************************************)
(* Instance of CardCommand for TLC: every world of the oddities.           *)
(***************************************************************************)
EXTENDS CardCommand

AllWorlds == SUBSET Oddities
=============================================================================
