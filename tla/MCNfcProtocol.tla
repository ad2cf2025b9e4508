---------------------------- MODULE MCNfcProtocol ----------------------------
(***************************************************************************)
(* Instances of NfcProtocol for TLC.                                       *)
(***************************************************************************)
EXTENDS NfcProtocol

BothPorts == {"serial", "otg"}
Lens      == {214}             \* the file 6011: a whole chunk and a part
AllFaults == {"status", "refuse"}

\* Two opens, so that answers that came too late for one session meet the
\* next.
Sessions == [p \in BothPorts |-> 2]
Requested == [p \in BothPorts |-> IF p = "serial" THEN 3 ELSE 2]
=============================================================================
