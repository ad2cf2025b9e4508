--------------------------- MODULE MCJavaReadCard ---------------------------
(***************************************************************************)
(* Instances of JavaReadCard for TLC: the worlds of each run.              *)
(***************************************************************************)
EXTENDS JavaReadCard

\* Nothing fails, one kind of thing fails, everything may fail.
AllWorlds    == {{}, FaultKinds} \cup {{k} : k \in FaultKinds}
OnlyStranger == {{"peer"}}   \* only the address is wrong
OnlyCard     == {{"card"}}   \* only the card fails
=============================================================================
